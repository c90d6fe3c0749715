------------------------------- MODULE Pacing -------------------------------
(***************************************************************************)
(* The loop that runs the machine against the host's clock: main_loop() of *)
(* the SDL build (main.cpp) and of the framebuffer port (main_fb.cpp),     *)
(* with RunTimeSlice() (nc2000.cpp) as one step.                           *)
(*                                                                         *)
(* An iteration of the SDL build looks for a jump of the wall clock, runs  *)
(* one slice of the guest or, saving power, naps, handles the events,      *)
(* renders and compares the time that passed with the time the guest has   *)
(* been given.  The framebuffer port only runs, renders and compares.      *)
(*                                                                         *)
(* Times are in slices (SLICE_INTERVAL, 1 ms) and relative: lag is         *)
(* actual_tick - expected_tick at this moment, idle the time since the     *)
(* last key, moved what the wall clock shows since it was last read.       *)
(***************************************************************************)
EXTENDS Integers

CONSTANTS Backlog,       \* slices of delay the loop makes up for (300)
          JumpAbove,     \* what counts as a jump of the wall clock (10 s)
          IdleAbove,     \* idle time after which power is saved (1200 s)
          Nap,           \* a nap's length (200 ms)
          MaxPass,       \* bound: time that passes between two steps
          Jumps          \* bound: changes of the wall clock beside the time
                         \* that passes

ASSUME PacingAssumption ==
    /\ {Backlog, JumpAbove, IdleAbove, Nap, MaxPass} \subseteq Nat \ {0}
    /\ Jumps \subseteq Int
    \* a jump back is more than the time that an iteration takes
    /\ \A j \in Jumps : j < - (5 * MaxPass + 2 * Nap) \/ j > JumpAbove

VARIABLES build, phase,  \* "sdl" or "fb"; the next part of the iteration
          lag, idle, moved,
          read,          \* last_time_rtc # 0: the wall clock has been read
          power_save, fast_forward,
          keys,          \* a key event waits
          jumped,        \* bound: the wall clock jumped since it was read
          burst,         \* history: slices run beyond the time that passed
          unsynced       \* history: slices run since the wall clock jumped or
                         \* the guest stood still, from 1; 0 after a sync

mode == <<build, power_save, fast_forward>>
clocks == <<lag, idle, moved, read, jumped>>
paceVars == <<phase, mode, clocks, keys, burst, unsynced>>

Least(a, b) == IF a < b THEN a ELSE b

PacingInit == /\ build \in {"sdl", "fb"}
              /\ phase = IF build = "sdl" THEN "check" ELSE "work"
              /\ lag = 0 /\ idle = 0 /\ moved = 0 /\ read = FALSE
              /\ power_save = FALSE /\ fast_forward = FALSE
              /\ keys = FALSE /\ jumped = FALSE /\ burst = 0 /\ unsynced = 0

\* idle is only compared with IdleAbove, and moved with JumpAbove and 0.
Passes(d) == /\ idle' = Least(idle + d, IdleAbove + 1)
             /\ burst' = IF burst < d THEN 0 ELSE burst - d
             /\ moved' = IF moved > JumpAbove \/ moved < 0 THEN moved ELSE moved + d
-----------------------------------------------------------------------------
(* The host *)

\* Time goes on, at most MaxPass for each step of the loop.
TimePasses == \E d \in 1 .. MaxPass :
                 /\ lag <= Backlog
                 /\ moved + d <= 4 * MaxPass + Nap \/ moved > JumpAbove \/ moved < 0
                 /\ Passes(d) /\ lag' = lag + d
                 /\ UNCHANGED <<phase, mode, read, keys, jumped, unsynced>>

\* The host was suspended, or its wall clock was set.
WallClockJumps == \E j \in Jumps :
                    /\ build = "sdl" /\ read /\ ~jumped
                    /\ moved' = moved + j /\ jumped' = TRUE
                    /\ unsynced' = IF unsynced = 0 THEN 1 ELSE unsynced
                    /\ UNCHANGED <<phase, mode, lag, idle, read, keys, burst>>

KeyArrives == /\ build = "sdl" /\ ~keys /\ keys' = TRUE
              /\ UNCHANGED <<phase, mode, clocks, burst, unsynced>>
-----------------------------------------------------------------------------
(* An iteration *)

\* Mutant: the difference as a signed number.
Jumped_signed == read /\ moved > JumpAbove

\* The difference is unsigned: less than nothing is a lot.
Jumped == read /\ (moved > JumpAbove \/ moved < 0)

\* sync_time_2000() (Clock)
Sync(condition) == unsynced' = IF condition THEN 0 ELSE unsynced

CheckWallClock == /\ phase = "check" /\ phase' = "work"
                  /\ Sync(Jumped)
                  /\ read' = TRUE /\ moved' = 0 /\ jumped' = FALSE
                  /\ UNCHANGED <<mode, lag, idle, keys, burst>>

AfterWork == phase' = IF build = "sdl" THEN "events" ELSE "turn"

RunTimeSlice == /\ phase = "work" /\ ~power_save
                /\ AfterWork
                /\ burst' = burst + 1
                /\ unsynced' = IF unsynced = 0 THEN 0 ELSE Least(unsynced + 1, 3)
                /\ UNCHANGED <<mode, clocks, keys>>

\* The guest stands still.
NapInstead == /\ phase = "work" /\ power_save
              /\ AfterWork
              /\ Passes(Nap) /\ lag' = lag + Nap
              /\ unsynced' = IF unsynced = 0 THEN 1 ELSE unsynced
              /\ UNCHANGED <<mode, read, keys, jumped>>

\* A key switches fast_forward perhaps; the time without a key decides on
\* saving power, and coming back from it sets the guest's clock.
HandleEvents ==
    /\ phase = "events" /\ phase' = "turn"
    /\ keys' = FALSE
    /\ idle' = IF keys THEN 0 ELSE idle
    /\ power_save' = (idle' > IdleAbove)
    /\ fast_forward' \in IF keys THEN BOOLEAN ELSE {fast_forward}
    /\ Sync(power_save /\ ~power_save')
    /\ UNCHANGED <<build, lag, moved, read, jumped, burst>>

\* Mutant: the whole delay is made up for.
Behind_all(late) == late

\* What is left of the delay after a slice, at most Backlog.
Behind(late) == Least(late, Backlog)

\* The delay after this slice; the loop sleeps while the guest is ahead, at
\* least for as long as it is, and at most for Backlog.
Turn ==
    /\ phase = "turn" /\ phase' = IF build = "sdl" THEN "check" ELSE "work"
    /\ LET late == IF build = "sdl" /\ fast_forward THEN 0 ELSE Behind(lag - 1)
       IN  IF late >= 0
           THEN lag' = late /\ UNCHANGED <<idle, moved, jumped>>
                /\ burst' = IF build = "sdl" /\ fast_forward THEN 0 ELSE burst
           ELSE \E d \in 0 .. MaxPass - 1 :
                  /\ Passes(Least(- late, Backlog) + d)
                  /\ lag' = late + Least(- late, Backlog) + d
                  /\ UNCHANGED jumped
    /\ UNCHANGED <<mode, read, keys, unsynced>>

Iterate == CheckWallClock \/ RunTimeSlice \/ NapInstead \/ HandleEvents \/ Turn

PacingNext == TimePasses \/ WallClockJumps \/ KeyArrives \/ Iterate

PacingSpec == PacingInit /\ [][PacingNext]_paceVars
-----------------------------------------------------------------------------
(* Properties *)

\* However the host stalls, the guest is never given more than Backlog + 2
\* slices beyond the time that has passed, over any stretch of it ("if actual
\* is behind expected_tick too much, we only remember 300ms").  Running fast
\* without a limit is another matter.
BurstBounded == burst <= Backlog + 2

\* The SDL build runs at most one slice on a clock that a suspended host, a
\* wall clock set back or its own power saving has made wrong, before it sets
\* the guest's clock.
ResumeSyncs == unsynced <= 2
-----------------------------------------------------------------------------
(* What makes them inductive *)

PacingTypeOK ==
    /\ build \in {"sdl", "fb"} /\ phase \in {"check", "work", "events", "turn"}
    /\ lag \in Nat /\ idle \in Nat /\ moved \in Int /\ read \in BOOLEAN
    /\ power_save \in BOOLEAN /\ fast_forward \in BOOLEAN
    /\ keys \in BOOLEAN /\ jumped \in BOOLEAN
    /\ burst \in Nat /\ unsynced \in Nat

Ahead == phase \in {"events", "turn"}

\* A burst of b slices and a delay of l slices that is still to be made up for
\* are Backlog + 1 together, with more slices not yet in the delay.
Covered(b, l, more) == b + l <= Backlog + 1 + more \/ b <= more

BurstAndLag == Covered(burst, lag, IF Ahead THEN 1 ELSE 0)

\* What the loop's own steps add to the wall clock.
MovedMost == 4 * MaxPass + Nap + (IF phase = "work" THEN 0 ELSE Nap)
                               + (IF phase = "check" THEN MaxPass ELSE 0)

\* A jump stays visible until it is looked for.
JumpKnown ==
    /\ build = "fb" => phase \in {"work", "turn"} /\ ~read
    /\ ~jumped => moved >= 0
    /\ read /\ ~jumped => moved <= MovedMost
    /\ jumped => read /\ (moved < 0 \/ moved > JumpAbove)

\* The guest's clock is only wrong while a jump is pending or the guest stands
\* still.
UnsyncedKnown ==
    /\ unsynced > 0 => jumped \/ power_save
    /\ unsynced > 1 => jumped
    /\ unsynced <= IF phase = "work" THEN 1 ELSE 2

PacingInv == PacingTypeOK /\ BurstAndLag /\ JumpKnown /\ UnsyncedKnown
=============================================================================
