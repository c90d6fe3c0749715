----------------------------- MODULE SaveRestore -----------------------------
(***************************************************************************)
(* Saving the machine to files and starting it from them: save_flash(),    *)
(* save_state(), delete_state(), load_state() and LoadNC2k() (nc2000.cpp), *)
(* the readers and writers of the flash images (nand.cpp, nor.cpp), the    *)
(* commands (cmd.cpp) and what the program does when it ends (main.cpp,    *)
(* main_fb.cpp).                                                           *)
(*                                                                         *)
(* A save writes three flash images, or these and then the state, one file *)
(* after the other.  Opening a file for writing empties it, and the result *)
(* of writing is not looked at.  The program may be killed at any point;   *)
(* what it has written by then stays.                                      *)
(*                                                                         *)
(* The guest's steps are numbered.  A flash image is the number of the     *)
(* step that last changed it; the state is the number of the last step,    *)
(* with the flash images as that step knew them.  What the state file      *)
(* leaves out (state.h) is not part of the model: pending interrupt        *)
(* vectors, a NAND command under way, the NOR's information block, a file  *)
(* transfer, the keys that are down.                                       *)
(*                                                                         *)
(* Loading a state may set its clock to the host's, and reset its CPU and  *)
(* the registers of a warm reset.                                          *)
(***************************************************************************)
EXTENDS Integers, Sequences

CONSTANTS Absent, Torn,  \* a file that is not there; one written in part
          Options,       \* bound: options the program is started with
          Written,       \* bound: images that the guest's steps change
          MaxSteps       \* bound: steps of the guest

Images == {"nand0", "nand", "nor"}
ImagesAndState == Images \cup {"state"}

\* The argument of a save: "" for the program's own files, or the name of
\* others, which it never reads.
Targets == {"", "copy"}

\* The files of a save, in the order in which they are written.
save_flash == <<"nand0", "nand", "nor">>
save_all == <<"nand0", "nand", "nor", "state">>
Saves == {save_flash, save_all}

\* sync_time_2000() or sync_time_1020(): the clock and the date are the host's.
\* set_warm_reset_flag() and warm_reset(): the CPU starts at its vector.
Adjustments == {"sync_time", "warm_reset"}

\* load-state and load-state-reset; no-sync, for a machine and a year of the host
\* that the clock is set for; nor-read and nor-write as the order of the two
\* halves of each bank, where 1 swaps them.
process_args == {o \in [load_state : BOOLEAN, sync_time : BOOLEAN, warm_reset : BOOLEAN,
                        nor : (0 .. 1) \X (0 .. 1)] : o.warm_reset => o.load_state}

ASSUME SaveAssumption == /\ MaxSteps \in Nat /\ Written \subseteq Images
                         /\ Options \subseteq process_args
                         /\ Absent # Torn

VARIABLES at,            \* "off", "running" or "saving"
          options,       \* of the program's last run
          flash,         \* the images in memory
          step, seen,    \* the machine's last step; the images as it knew them
          adjusted,      \* what loading has changed of the machine since that step
          stored,        \* the program's own files
          now,
          job, target, opened, ends, \* what is left of a save, and its end
          started,       \* history: no step since the program started
          complete       \* history: what the last save_all saved, or Absent if
                         \* the program's files have been touched since

machine == <<flash, step, seen, adjusted>>
jobVars == <<job, target, opened, ends>>
saveVars == <<at, options, machine, stored, now, jobVars, started, complete>>

\* An image: when it was written and in which order its halves are.
Image(version) == [version |-> version, order |-> 0]
Swapped(image, by) == IF image = Torn \/ by = 0 THEN image ELSE [image EXCEPT !.order = 1 - @]

\* Nothing remains of a process but its files.
NoOptions == [load_state |-> FALSE, sync_time |-> FALSE, warm_reset |-> FALSE, nor |-> <<0, 0>>]
NoMemory == [p \in Images |-> Image(0)]
Ends == /\ at' = "off" /\ options' = NoOptions
        /\ flash' = NoMemory /\ step' = 0 /\ seen' = NoMemory /\ adjusted' = {}
        /\ job' = <<>> /\ target' = "" /\ opened' = FALSE /\ ends' = FALSE
        /\ started' = FALSE

SaveInit == /\ at = "off" /\ options = NoOptions
            /\ flash = NoMemory /\ step = 0 /\ seen = NoMemory /\ adjusted = {}
            /\ job = <<>> /\ target = "" /\ opened = FALSE /\ ends = FALSE
            /\ started = FALSE
            /\ stored = [f \in ImagesAndState |-> IF f \in Images THEN Image(0) ELSE Absent]
            /\ now = 0 /\ complete = Absent
-----------------------------------------------------------------------------
(* LoadNC2k() *)

\* The images have to be there; a state file that is not is skipped.
CanStart == \A p \in Images : stored[p] # Absent

\* Mutant: the order in the NOR's file is taken for the order in the chip.
LoadedAsIs(p) == stored[p]

Loaded(p) == Swapped(stored[p], IF p = "nor" THEN options'.nor[1] ELSE 0)
LoadsState == options'.load_state /\ stored["state"] # Absent

\* A torn state overwrites part of the machine's.  Without a state the machine
\* boots from the images.
load_state == CASE ~LoadsState -> [step |-> 0, seen |-> flash', adjusted |-> {}]
                [] LoadsState /\ stored["state"] = Torn ->
                     [step |-> Torn, seen |-> flash', adjusted |-> {}]
                [] OTHER -> stored["state"]

\* With load-state, and whether or not there was a state to load.
Adjusts == {a \in Adjustments : options'.load_state /\ options'[a]}

LoadNC2k ==
    /\ at = "off" /\ CanStart
    /\ at' = "running" /\ options' \in Options
    /\ flash' = [p \in Images |-> Loaded(p)]
    /\ step' = load_state.step /\ seen' = load_state.seen
    /\ adjusted' = load_state.adjusted \cup Adjusts
    /\ started' = TRUE
    /\ UNCHANGED <<stored, now, jobVars, complete>>
-----------------------------------------------------------------------------
(* The guest *)

\* A step that changes an image or none.
GuestStep(changed) ==
    /\ at = "running" /\ now < MaxSteps
    /\ now' = now + 1
    /\ step' = IF step = Torn THEN Torn ELSE now'
    /\ flash' = [p \in Images |-> IF p \in changed /\ flash[p] # Torn
                                  THEN [flash[p] EXCEPT !.version = now'] ELSE flash[p]]
    /\ seen' = [p \in Images |-> IF p \in changed THEN flash'[p] ELSE seen[p]]
    /\ adjusted' = {} /\ started' = FALSE
    /\ UNCHANGED <<at, options, stored, jobVars, complete>>
-----------------------------------------------------------------------------
(* Saving *)

\* Mutant: the state first.
BeginStateFirst(files, name, end) ==
    /\ at = "running" /\ at' = "saving"
    /\ job' = IF files = save_all THEN <<"state">> \o save_flash ELSE files
    /\ target' = name /\ opened' = FALSE /\ ends' = end
    /\ complete' = IF name = "" THEN Absent ELSE complete
    /\ UNCHANGED <<options, machine, stored, now, started>>

\* The commands save_flash and save_all, with or without a name, and the end of
\* the program, with auto-save-flash, auto-save-all or neither.
Begin(files, name, end) ==
    /\ at = "running" /\ at' = "saving"
    /\ job' = files /\ target' = name /\ opened' = FALSE /\ ends' = end
    /\ complete' = IF name = "" THEN Absent ELSE complete
    /\ UNCHANGED <<options, machine, stored, now, started>>

SaveCommand(files, name) == Begin(files, name, FALSE)
Quit(files) == Begin(files, "", TRUE)

\* fopen(..., "wb")
Open == /\ at = "saving" /\ job # <<>> /\ ~opened
        /\ opened' = TRUE
        /\ stored' = IF target = "" THEN [stored EXCEPT ![Head(job)] = Torn] ELSE stored
        /\ UNCHANGED <<at, options, machine, now, job, target, ends, started, complete>>

\* save_state() goes on without a file; the others use the null pointer.
OpenFails ==
    /\ at = "saving" /\ job # <<>> /\ ~opened
    /\ IF Head(job) # "state" THEN Ends
       ELSE job' = Tail(job) /\ UNCHANGED <<at, options, machine, target, opened, ends, started>>
    /\ complete' = IF target = "" THEN Absent ELSE complete
    /\ UNCHANGED <<stored, now>>

Content(f) == IF f = "state"
              THEN IF step = Torn THEN Torn
                   ELSE [step |-> step, seen |-> seen, adjusted |-> adjusted]
              ELSE Swapped(flash[f], IF f = "nor" THEN options.nor[2] ELSE 0)

WentWell == step # Torn /\ \A p \in Images : stored[p] = Content(p)

\* fwrite() and fclose().
Write1 == /\ at = "saving" /\ job # <<>> /\ opened
          /\ stored' = IF target = "" THEN [stored EXCEPT ![Head(job)] = Content(Head(job))] ELSE stored
          /\ opened' = FALSE /\ job' = Tail(job)
          /\ complete' = IF target = "" /\ Head(job) = "state" /\ WentWell
                         THEN [flash |-> flash, step |-> step, seen |-> seen,
                               adjusted |-> adjusted, order |-> options.nor[2]]
                         ELSE complete
          /\ UNCHANGED <<at, options, machine, now, target, ends, started>>

\* A full disk: the file stays torn, and the save is reported all the same.
WriteFails == /\ at = "saving" /\ job # <<>> /\ opened
              /\ opened' = FALSE /\ job' = Tail(job)
              /\ complete' = IF target = "" THEN Absent ELSE complete
              /\ UNCHANGED <<at, options, machine, stored, now, target, ends, started>>

Done == /\ at = "saving" /\ job = <<>>
        /\ IF ends THEN Ends
           ELSE at' = "running" /\ target' = "" /\ UNCHANGED <<options, machine, job, opened, ends, started>>
        /\ UNCHANGED <<stored, now, complete>>

delete_state(name) ==
    /\ at = "running"
    /\ stored' = IF name = "" THEN [stored EXCEPT !["state"] = Absent] ELSE stored
    /\ complete' = IF name = "" THEN Absent ELSE complete
    /\ UNCHANGED <<at, options, machine, now, jobVars, started>>

\* The command exit, or the process is killed: nothing is saved.
Dies == at # "off" /\ Ends /\ UNCHANGED <<stored, now, complete>>

SaveNext == \/ LoadNC2k
            \/ GuestStep({}) \/ \E p \in Written : GuestStep({p})
            \/ \E files \in Saves, name \in Targets : SaveCommand(files, name)
            \/ \E files \in Saves \cup {<<>>} : Quit(files)
            \/ Open \/ OpenFails \/ Write1 \/ WriteFails \/ Done
            \/ \E name \in Targets : delete_state(name)
            \/ Dies

SaveSpec == SaveInit /\ [][SaveNext]_saveVars
-----------------------------------------------------------------------------
(* Properties *)

\* The program's own state file is never ahead of its flash images, wherever a
\* save is interrupted or fails: the state knows no later version of an image
\* than the file holds (the images first; "don't use save_state alone").
StateNotAhead ==
    stored["state"] \notin {Absent, Torn} =>
        \A p \in Images :
            (stored[p] \notin {Absent, Torn} /\ stored["state"].seen[p] # Torn) =>
                stored["state"].seen[p].version <= stored[p].version

\* A program that loads the state after a save_all that went well, and nothing
\* else since, goes on where that save was: the same state, but for the clock
\* unless no-sync was given, and for the CPU if load-state-reset was; and the
\* flash images of the same moment, the NOR's if it is read in the order in
\* which it was written.
ResumesAsSaved ==
    (at = "running" /\ started /\ options.load_state /\ complete # Absent) =>
        /\ step = complete.step /\ seen = complete.seen
        /\ \A a \in Adjustments : ~options[a] => (a \in adjusted <=> a \in complete.adjusted)
        /\ \A p \in {"nand0", "nand"} : flash[p] = complete.flash[p]
        /\ options.nor[1] = complete.order => flash["nor"] = complete.flash["nor"]
-----------------------------------------------------------------------------
(* What makes StateNotAhead and ResumesAsSaved inductive *)

Versions == [version : Nat, order : 0 .. 1] \cup {Torn}
States == [step : Nat \cup {Torn}, seen : [Images -> Versions], adjusted : SUBSET Adjustments]

ASSUME FilesAssumption == /\ Absent \notin Versions /\ {Absent, Torn} \cap States = {}
                          /\ Torn \notin [version : Nat, order : 0 .. 1]

\* What is left of a save at each of its files.
FlashJobs == {save_flash, <<"nand", "nor">>, <<"nor">>, <<>>}
AllJobs == {save_all, <<"nand", "nor", "state">>, <<"nor", "state">>, <<"state">>}

SaveTypeOK ==
    /\ at \in {"off", "running", "saving"} /\ now \in Nat
    /\ options.nor \in (0 .. 1) \X (0 .. 1)
    /\ flash \in [Images -> Versions] /\ seen \in [Images -> Versions]
    /\ step \in Nat \cup {Torn} /\ adjusted \in SUBSET Adjustments
    /\ stored \in [ImagesAndState -> Versions \cup States \cup {Absent, Torn}]
    /\ \A p \in Images : stored[p] \in Versions
    /\ stored["state"] \in States \cup {Absent, Torn}
    /\ job \in FlashJobs \cup AllJobs

\* An image is not of a later step than another, unless one is torn.
NotAfter(a, b) == (a # Torn /\ b # Torn) => a.version <= b.version

HasState == stored["state"] \notin {Absent, Torn}

NothingAhead ==
    /\ \A p \in Images : flash[p] # Torn => flash[p].version <= now
    /\ \A p \in Images : stored[p] # Torn => stored[p].version <= now
    /\ HasState => \A p \in Images : NotAfter(stored["state"].seen[p], stored[p])

\* The program holds the images that both its state and the file's know.
MemoryAhead ==
    at # "off" =>
        /\ HasState => \A p \in Images : NotAfter(stored["state"].seen[p], flash[p])
        /\ \A p \in Images : NotAfter(seen[p], flash[p])

\* A save_all has written, or torn, the images before the state.
ImagesFirst ==
    (at = "saving" /\ target = "") =>
        /\ opened => stored[Head(job)] = Torn
        /\ job \in AllJobs =>
             \A p \in Images : (\A i \in 1 .. Len(job) : job[i] # p) => NotAfter(seen[p], stored[p])

SaveInv == SaveTypeOK /\ NothingAhead /\ MemoryAhead /\ ImagesFirst

SavedAs(p) == Swapped(complete.flash[p], IF p = "nor" THEN complete.order ELSE 0)
FilesHold ==
    /\ complete \in [flash : [Images -> Versions], step : Nat, seen : [Images -> Versions],
                     adjusted : SUBSET Adjustments, order : 0 .. 1]
    /\ stored["state"] = [step |-> complete.step, seen |-> complete.seen,
                          adjusted |-> complete.adjusted]
    /\ \A p \in Images : stored[p] = SavedAs(p)

MemoryHolds == /\ step = complete.step /\ seen = complete.seen
               /\ \A a \in Adjustments : ~options[a] => (a \in adjusted <=> a \in complete.adjusted)
               /\ \A p \in {"nand0", "nand"} : flash[p] = complete.flash[p]
               /\ options.nor[1] = complete.order => flash["nor"] = complete.flash["nor"]

\* As long as nothing has touched the files of a save_all that went well they
\* hold what it saved, a save under way is one of other files, and a program
\* that has loaded them and has not done a step is where that save was.
CompleteKept ==
    complete # Absent =>
        /\ FilesHold
        /\ at = "saving" /\ target = "" => job = <<>>
        /\ at # "off" /\ started /\ options.load_state => MemoryHolds
=============================================================================
