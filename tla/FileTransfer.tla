---------------------------- MODULE FileTransfer ----------------------------
(***************************************************************************)
(* The commands put and get of src/src/cmd.cpp, which copy a file between  *)
(* the host and the emulated machine.  A command pokes a small 6502        *)
(* program into address 0x3000 and jumps to it; the program talks to the   *)
(* emulator one byte at a time through address 0x3fff, which mem.cpp       *)
(* diverts to dummy_io_for_read and dummy_io_for_write, and to the guest's *)
(* file system by software interrupts.                                     *)
(*                                                                         *)
(* A command may arrive between any two instructions of the program before *)
(* it, and so may a reset.  Outside a transfer 0x3fff is an ordinary       *)
(* address of the guest's RAM.                                             *)
(*                                                                         *)
(* Bounds: what is written to a file of the host arrives; the guest's      *)
(* services are called for one byte at a time, as the third byte of the    *)
(* number, which the nc2000's get stores at $09f9 and not at $08f9, is     *)
(* "not really needed maybe" (cmd.h).                                      *)
(***************************************************************************)
EXTENDS Integers, Sequences

CONSTANTS Names,          \* file names, on either side
          Contents,       \* contents of files at the start
          Missing,        \* what a name stands for that is no file's
          Rom,            \* "nc2000" or "nc2600", see is_nc2600_rom()
          StrayBytes,     \* what ordinary programs store at 0x3fff
          MaxCommands,    \* bound: commands and resets
          MaxStray        \* bound: bytes collected of abandoned transfers

Closed == -1
FileBytes == Seq(0 .. 255)

ASSUME TransferAssumption == /\ Rom \in {"nc2000", "nc2600"}
                             /\ Contents \subseteq FileBytes
                             /\ Missing \notin FileBytes /\ Missing \notin Names
                             /\ StrayBytes \subseteq 0 .. 255
                             /\ MaxCommands \in Nat /\ MaxStray \in Nat

VARIABLES host, disk,           \* the files of either side
          handle,               \* the file the guest has open
          program, pc,          \* the program at 0x3000 and how far it is
          name, buffer,         \* its file name and its byte at 0x3200
          queue, dummy_io_cnt,                          \* put
          queue_for_write, dummy_io_write_cnt, file_name_for_write,  \* get
          commands, sent, before, owed  \* history: commands so far, what put
                                \* promised, what queue_for_write held when
                                \* get began, transfers cut short

files == <<host, disk, handle>>
guest == <<program, pc, name, buffer>>
putVars == <<queue, dummy_io_cnt>>
getVars == <<queue_for_write, dummy_io_write_cnt, file_name_for_write>>
record == <<commands, sent, before, owed>>
transferVars == <<files, guest, putVars, getVars, record>>

NoFile == [name |-> Missing, position |-> 0]

TransferInit == /\ host \in [Names -> Contents \cup {Missing}]
        /\ disk \in [Names -> Contents \cup {Missing}]
        /\ handle = NoFile
        /\ program = "none" /\ pc = "off" /\ name = Missing /\ buffer = 0
        /\ queue = <<>> /\ dummy_io_cnt = Closed
        /\ queue_for_write = <<>> /\ dummy_io_write_cnt = Closed
        /\ file_name_for_write = Missing
        /\ commands = 0 /\ sent = <<>> /\ before = <<>> /\ owed = {}
-----------------------------------------------------------------------------
(* Address 0x3fff.  The counters only matter by their parity. *)

Flip(count) == 1 - count

\* Mutant: the end of the queue is announced and the door left open.
ReadStaysOpen(value) ==
    /\ dummy_io_cnt # Closed
    /\ IF queue = <<>> THEN value = 0 /\ UNCHANGED putVars
       ELSE /\ dummy_io_cnt' = Flip(dummy_io_cnt)
            /\ value = IF dummy_io_cnt = 0 THEN 1 ELSE Head(queue)
            /\ queue' = IF dummy_io_cnt = 0 THEN queue ELSE Tail(queue)

\* A 1 before every byte, and a 0 after the last.
dummy_io_for_read(value) ==
    /\ dummy_io_cnt # Closed
    /\ IF queue = <<>> THEN value = 0 /\ dummy_io_cnt' = Closed /\ UNCHANGED queue
       ELSE /\ dummy_io_cnt' = Flip(dummy_io_cnt)
            /\ value = IF dummy_io_cnt = 0 THEN 1 ELSE Head(queue)
            /\ queue' = IF dummy_io_cnt = 0 THEN queue ELSE Tail(queue)

\* The other way round; the 0 saves the file.  Anything else in the place of the
\* 1 is taken for it, by a Release build.
dummy_io_for_write(value) ==
    /\ dummy_io_write_cnt # Closed
    /\ IF dummy_io_write_cnt = 0 /\ value = 0
         THEN /\ host' = [host EXCEPT ![file_name_for_write] = queue_for_write]
              /\ queue_for_write' = <<>> /\ dummy_io_write_cnt' = Closed
         ELSE /\ queue_for_write' = IF dummy_io_write_cnt = 0 THEN queue_for_write
                                    ELSE Append(queue_for_write, value)
              /\ dummy_io_write_cnt' = Flip(dummy_io_write_cnt)
              /\ UNCHANGED host
    /\ UNCHANGED file_name_for_write

\* The process ends, with the file's null pointer when it cannot be opened, or at
\* the assertion of a Debug build on what is neither 0 nor 1.
Crash(value) == /\ dummy_io_write_cnt = 0 /\ value # 1
                /\ program' = "none" /\ pc' = "dead"
                /\ UNCHANGED <<files, name, buffer, putVars, getVars, record>>
-----------------------------------------------------------------------------
(* Commands *)

\* What a command or a reset does to the program in progress.
CutShort == /\ pc # "dead" /\ commands < MaxCommands /\ commands' = commands + 1
            /\ owed' = IF pc = "off" THEN owed ELSE owed \cup {program}

\* Mutant: put does not clear what the put before it has left.
PutWithoutClear(source, target) ==
    /\ CutShort /\ host[source] # Missing
    /\ queue' = queue \o host[source] /\ dummy_io_cnt' = 0
    /\ name' = target /\ program' = "put" /\ pc' = "delete"
    /\ sent' = host[source]
    /\ UNCHANGED <<files, buffer, getVars, before>>

\* A file that cannot be read ends the command before it does anything.
put(source, target) ==
    /\ CutShort /\ host[source] # Missing
    /\ queue' = host[source] /\ dummy_io_cnt' = 0
    /\ name' = target /\ program' = "put" /\ pc' = "delete"
    /\ sent' = host[source]
    /\ UNCHANGED <<files, buffer, getVars, before>>

\* queue_for_write is not cleared, and the guest's file may be missing.
get(source, target) ==
    /\ CutShort
    /\ file_name_for_write' = target /\ dummy_io_write_cnt' = 0
    /\ name' = source /\ program' = "get" /\ pc' = "open"
    /\ before' = queue_for_write
    /\ UNCHANGED <<files, buffer, putVars, queue_for_write, sent>>

\* file_manager and create_dir end the program, and so does a reset.  The guest's
\* file system goes elsewhere or starts anew; the emulator's queues stay.
Divert == /\ CutShort
          /\ program' = "none" /\ pc' = "off" /\ handle' = NoFile
          /\ UNCHANGED <<host, disk, name, buffer, putVars, getVars, sent, before>>
-----------------------------------------------------------------------------
(* The guest's file system, called by number *)

Delete == /\ disk' = [disk EXCEPT ![name] = Missing] /\ UNCHANGED <<host, handle, buffer>>
\* To write, a new file; to read, one that is there.
OpenFile == /\ disk' = IF program = "put" THEN [disk EXCEPT ![name] = <<>>] ELSE disk
            /\ handle' = IF disk'[name] = Missing THEN NoFile ELSE [name |-> name, position |-> 0]
            /\ UNCHANGED <<host, buffer>>
WriteFile == /\ disk' = [disk EXCEPT ![handle.name] = Append(@, buffer)]
             /\ UNCHANGED <<host, handle, buffer>>
AtEnd == handle = NoFile \/ handle.position = Len(disk[handle.name])
ReadFile == /\ IF AtEnd THEN UNCHANGED <<handle, buffer>>
               ELSE /\ handle' = [handle EXCEPT !.position = @ + 1]
                    /\ buffer' = disk[handle.name][handle.position + 1]
            /\ UNCHANGED <<host, disk>>
CloseFile == handle' = NoFile /\ UNCHANGED <<host, disk, buffer>>

\* The numbers of the two ROMs, as the comments of cmd.h and the programs for
\* put agree on.
Call(number) ==
    LET service == IF Rom = "nc2600" THEN number + 1 ELSE number
    IN  \/ service = 29 /\ Delete     \* 0x1d
        \/ service = 21 /\ OpenFile   \* 0x15
        \/ service = 22 /\ ReadFile   \* 0x16
        \/ service = 23 /\ CloseFile  \* 0x17
        \/ service = 24 /\ WriteFile  \* 0x18
Own(number) == IF Rom = "nc2600" THEN number - 1 ELSE number
-----------------------------------------------------------------------------
(* The program at 0x3000 *)

Goto(from, to) == pc = from /\ pc' = to
quietly == UNCHANGED <<program, name, record>>

PutCall == /\ program = "put"
           /\ \/ Goto("delete", "open") /\ Call(Own(29))
              \/ Goto("open", "ask") /\ Call(Own(21))
              \/ Goto("write", "ask") /\ Call(Own(24))
              \/ Goto("close", "exit") /\ Call(Own(23))
           /\ UNCHANGED <<putVars, getVars>> /\ quietly

\* Mutant: the program does not look at the answer.
PutAskUnchecked == /\ program = "put"
                   /\ \E value \in 0 .. 1 : dummy_io_for_read(value) /\ Goto("ask", "fetch")
                   /\ UNCHANGED <<files, buffer, getVars>> /\ quietly

\* If 0x3fff has been closed behind the program's back it reads RAM.
PutAsk == /\ program = "put"
          /\ \E value \in 0 .. 1 :
               /\ \/ dummy_io_for_read(value)
                  \/ dummy_io_cnt = Closed /\ UNCHANGED putVars
               /\ Goto("ask", IF value = 0 THEN "close" ELSE "fetch")
          /\ UNCHANGED <<files, buffer, getVars>> /\ quietly

PutFetch == /\ program = "put" /\ Goto("fetch", "write")
            /\ \E value \in 0 .. 255 :
                 /\ dummy_io_for_read(value)
                 /\ buffer' = value
            /\ UNCHANGED <<files, getVars>> /\ quietly

\* The program for the nc2000 closes the file with the number that reads.
GetCall == /\ program = "get"
           /\ \/ Goto("open", "read") /\ Call(Own(21))
              \/ Goto("read", IF AtEnd THEN "stop" ELSE "signal") /\ Call(Own(22))
              \/ Goto("close", "exit") /\ Call(22)
           /\ UNCHANGED <<putVars, getVars>> /\ quietly

GetStore == /\ program = "get"
            /\ \/ Goto("signal", "send") /\ dummy_io_for_write(1)
               \/ Goto("send", "read") /\ dummy_io_for_write(buffer)
               \/ Goto("stop", "close") /\ dummy_io_for_write(0)
            /\ UNCHANGED <<disk, handle, buffer, putVars>> /\ quietly

GetCrash == pc = "stop" /\ Crash(0)

\* INT $C001 restarts the guest.
Exit == /\ Goto("exit", "off") /\ program' = "none"
        /\ handle' = NoFile
        /\ owed' = owed \ {program}
        /\ UNCHANGED <<host, disk, name, buffer, putVars, getVars, commands, sent, before>>

Program == PutCall \/ PutAsk \/ PutFetch \/ GetCall \/ GetStore \/ GetCrash \/ Exit
-----------------------------------------------------------------------------
(* Ordinary programs of the guest at 0x3fff *)

StrayRead == /\ pc = "off"
             /\ \E value \in 0 .. 255 : dummy_io_for_read(value)
             /\ UNCHANGED <<files, guest, getVars, record>>
StrayWrite == /\ pc = "off" /\ Len(queue_for_write) < MaxStray
              /\ \E value \in StrayBytes : dummy_io_for_write(value)
              /\ UNCHANGED <<disk, handle, guest, putVars, record>>
StrayCrash == pc = "off" /\ \E value \in StrayBytes : Crash(value)

Command == \/ \E source, target \in Names : put(source, target) \/ get(source, target)
           \/ Divert
TransferNext == Program \/ Command \/ StrayRead \/ StrayWrite \/ StrayCrash

\* The emulated CPU goes on.
TransferSpec == TransferInit /\ [][TransferNext]_transferVars /\ WF_transferVars(Program)
-----------------------------------------------------------------------------
(* Properties *)

\* What a get finds under a name: a file that is missing reads as an empty one.
File(n) == IF disk[n] = Missing THEN <<>> ELSE disk[n]

\* A put that ends has copied the file, whatever transfers were cut short
\* before it and wherever they were; a get that ends has copied it behind what
\* was left of earlier gets.
TransfersDeliver ==
    pc = "exit" => /\ program = "put" => disk[name] = sent
                   /\ program = "get" => host[file_name_for_write] = before \o File(name)

\* There is something left, and ordinary accesses of 0x3fff are swallowed, only
\* after a transfer in the same direction has been cut short and until one has
\* ended.
LeftoversOwed == pc = "off" => /\ dummy_io_cnt # Closed => "put" \in owed
                               /\ dummy_io_write_cnt # Closed => "get" \in owed
                               /\ queue_for_write # <<>> => "get" \in owed

\* A transfer ends: the program sees the end of its file in spite of whatever
\* was left in the queues, or the process ends.
Ended == {"off", "dead"}
TransferEnds == pc \notin Ended ~> pc \in Ended
-----------------------------------------------------------------------------
(* What makes TransfersDeliver and LeftoversOwed inductive *)

PutSteps == {"delete", "open", "ask", "fetch", "write", "close", "exit"}
GetSteps == {"open", "read", "signal", "send", "stop", "close", "exit"}

TransferTypeOK ==
    /\ host \in [Names -> FileBytes \cup {Missing}]
    /\ disk \in [Names -> FileBytes \cup {Missing}]
    /\ handle \in [name : Names \cup {Missing}, position : Nat]
    /\ \/ program = "none" /\ pc \in Ended
       \/ program = "put" /\ pc \in PutSteps /\ name \in Names
       \/ program = "get" /\ pc \in GetSteps /\ {name, file_name_for_write} \subseteq Names
    /\ buffer \in 0 .. 255
    /\ {queue, queue_for_write, sent, before} \subseteq FileBytes
    /\ {dummy_io_cnt, dummy_io_write_cnt} \subseteq {Closed, 0, 1}

\* The file is what the guest has written, then the byte it holds, then what
\* is left of the queue; and 0x3fff is in step with the program.
PutProgress ==
    program = "put" =>
      /\ pc \in {"delete", "open", "ask", "write"} => dummy_io_cnt = 0
      /\ pc = "fetch" => dummy_io_cnt = 1 /\ queue # <<>>
      /\ pc \in {"close", "exit"} => dummy_io_cnt = Closed /\ queue = <<>>
      /\ IF pc \in {"delete", "open"} THEN queue = sent
         ELSE /\ disk[name] \in FileBytes
              /\ sent = disk[name] \o (IF pc = "write" THEN <<buffer>> \o queue ELSE queue)
      /\ pc \in {"ask", "fetch", "write"} => handle.name = name

\* What the emulator has collected is what an earlier get left and the part of
\* the file that has been read, up to the byte the guest holds.
GetProgress ==
    program = "get" =>
      LET file == File(name)
          read == handle.position
      IN  /\ file \in FileBytes
          /\ pc \in {"open", "read", "signal", "stop"} => dummy_io_write_cnt = 0
          /\ pc = "send" => dummy_io_write_cnt = 1
          /\ pc \in {"close", "exit"} => dummy_io_write_cnt = Closed /\ queue_for_write = <<>>
          /\ pc = "open" => queue_for_write = before
          /\ pc \in {"read", "signal", "send", "stop", "close"} =>
               /\ \/ handle.name = name /\ disk[name] = file
                  \/ handle = NoFile /\ file = <<>>
               /\ read \in 0 .. Len(file)
          /\ pc = "read" => queue_for_write = before \o SubSeq(file, 1, read)
          /\ pc \in {"signal", "send"} =>
               /\ read > 0 /\ buffer = file[read]
               /\ queue_for_write = before \o SubSeq(file, 1, read - 1)
          /\ pc = "stop" => read = Len(file) /\ queue_for_write = before \o file
          /\ pc = "close" => read = Len(file)
          /\ pc \in {"close", "exit"} => host[file_name_for_write] = before \o file

LeftoversKept ==
    pc # "dead" =>
      /\ dummy_io_cnt # Closed => "put" \in owed \/ program = "put"
      /\ dummy_io_write_cnt # Closed \/ queue_for_write # <<>> => "get" \in owed \/ program = "get"

TransferInv == TransferTypeOK /\ PutProgress /\ GetProgress /\ LeftoversKept
=============================================================================
