----------------------------- MODULE NandDriver -----------------------------
(***************************************************************************)
(* The NAND driven the way the guest's system software drives it: whole    *)
(* operations on pages and blocks, each a fixed sequence of command,       *)
(* address and data bytes.  The user may reset the emulated machine in the *)
(* middle of one: the processor starts again, while the NAND's queues,     *)
(* static variables of nand.cpp that no reset touches, keep what they      *)
(* hold.                                                                   *)
(*                                                                         *)
(* "expected" is the content the operations should have left, computed     *)
(* from page numbers and never from address bytes.                         *)
(***************************************************************************)
EXTENDS NandFlash

CONSTANTS UsedPages,   \* pages the guest reads and programs
          UsedBlocks   \* first pages of the blocks it erases

ASSUME DriverAssumption == /\ UsedPages \subseteq 0 .. Pages - 1
                           /\ UsedBlocks \subseteq {p \in 0 .. Pages - 1 : p % BlockPages = 0}

VARIABLES todo,     \* bus cycles left of the operation in progress
          op,       \* that operation
          expected, \* history: the content the flash should have, as zeros
          disturbed \* history: an operation was cut short, or a wild program
                    \* has used the port

driverVars == <<nandVars, todo, op, expected, disturbed>>
-----------------------------------------------------------------------------
(* Operations and their bus cycles: <<line, value>> *)

Cle(v) == <<"CLE", v>>
Ale(v) == <<"ALE", v>>
DataIn(bits) == [i \in 1 .. Len(bits) |-> <<"data", bits[i]>>]
DataOut(n) == [i \in 1 .. n |-> <<"read", 0>>]

\* The three bytes of a row number, least significant first.
RowBytes(page) == <<Ale(page % Base), Ale((page \div Base) % Base), Ale(page \div (Base * Base))>>

StatusCycles == <<Cle(ReadStatus)>> \o DataOut(1)

Cycles(o) ==
    CASE o.kind = "read" -> <<Cle(o.area), Ale(o.column)>> \o RowBytes(o.page) \o DataOut(o.length)
      [] o.kind = "program" ->
           <<Cle(o.area), Cle(ProgramSetup), Ale(0)>> \o RowBytes(o.page) \o DataIn(o.bits)
             \o <<Cle(ProgramConfirm)>> \o StatusCycles
      [] o.kind = "erase" -> <<Cle(EraseSetup)>> \o RowBytes(o.page)
                               \o <<Cle(EraseConfirm)>> \o StatusCycles
      [] o.kind = "id" -> <<Cle(ReadId), Ale(0)>> \o DataOut(2)
      [] o.kind = "reset" -> <<Cle(ResetChip)>>

Idle == [kind |-> "idle"]

Offset(area) == IF area = ReadHigh THEN Half ELSE IF area = ReadSpare THEN Main ELSE 0

\* A read runs from its column to the end of the page.
Reads == {[kind |-> "read", page |-> p, area |-> a, column |-> c,
           length |-> PageLen - Offset(a) - c] :
            p \in UsedPages, a \in ReadCommands, c \in 0 .. Base - 1}
Programs == [kind : {"program"}, page : UsedPages, area : {ReadLow}, bits : [1 .. PageLen -> {0, 1}]]
            \cup [kind : {"program"}, page : UsedPages, area : {ReadSpare}, bits : [1 .. Spare -> {0, 1}]]
Erases == [kind : {"erase"}, page : UsedBlocks]
Operations == {o \in Reads : o.length > 0} \cup Programs \cup Erases
              \cup {[kind |-> "id"], [kind |-> "reset"]}

\* What the confirm byte of an operation should do to the content.
Effect(o, content) ==
    CASE o.kind = "program" ->
           LET first == o.page * PageLen + Offset(o.area)
               written == {first + i - 1 : i \in {j \in 1 .. Len(o.bits) : o.bits[j] = 0}}
           IN  written \cup (content \ (IF ForcedErase THEN Run(first, Len(o.bits)) ELSE {}))
      [] o.kind = "erase" -> content \ Run(o.page * PageLen, BlockPages * PageLen)
-----------------------------------------------------------------------------
DriverInit == NandInit /\ todo = <<>> /\ op = Idle /\ expected = zeros /\ disturbed = FALSE

Begin == /\ todo = <<>> /\ process # "aborted"
         /\ op' \in Operations
         /\ todo' = Cycles(op')
         /\ UNCHANGED <<nandVars, expected, disturbed>>

\* The next bus cycle of the operation, unless it only remains to be seen that
\* the process is gone.
Cycle ==
    /\ todo # <<>>
    /\ LET line == Head(todo)[1]
           value == Head(todo)[2]
       IN  \/ line = "CLE" /\ write_cle(value)
           \/ line = "ALE" /\ write_ale(value)
           \/ line = "data" /\ write_data(value)
           \/ line = "read" /\ read_nand
    /\ todo' = Tail(todo)
    /\ expected' = IF Head(todo) \in {Cle(ProgramConfirm), Cle(EraseConfirm)}
                     THEN Effect(op, expected) ELSE expected
    /\ UNCHANGED <<op, disturbed>>

\* A cold or a warm reset, from the keyboard or a command.
MachineReset == /\ process # "aborted"
                /\ todo' = <<>> /\ op' = Idle
                /\ disturbed' = (disturbed \/ todo # <<>>)
                /\ UNCHANGED <<nandVars, expected>>

\* Any bus cycle at all, before the system software starts; what it does to the
\* content is its own business.
StrayCycle == /\ op = Idle /\ Fresh
              /\ GuestWritesCommand \/ GuestWritesAddress \/ GuestWritesData \/ GuestReads
              /\ expected' = zeros' /\ disturbed' = TRUE
              /\ UNCHANGED <<todo, op>>

DriverNext == Begin \/ Cycle \/ MachineReset \/ StrayCycle

DriverSpec == DriverInit /\ [][DriverNext]_driverVars
-----------------------------------------------------------------------------
(* Properties *)

\* No assertion of nand.cpp ends a Debug build before an operation has been
\* cut short or the port has been used wildly.
NoAbort == process = "aborted" => disturbed

\* Every program and erase takes effect at its confirm byte, completely, at
\* its own page, and nothing else changes the array: a reset that cuts an
\* operation short leaves either none or all of it, and whatever it, or a wild
\* program, left in the queues does not spoil the operations that follow.
ArrayAsExpected == process = "aborted" \/ zeros = expected

\* The k-th byte of a read is the k-th byte of what it asked for.
ReadsBack ==
    op.kind = "read" /\ Len(todo) < op.length /\ process # "aborted" =>
      LET k == op.length - Len(todo)
          cell == op.page * PageLen + Offset(op.area) + op.column + k - 1
      IN  out = <<"data", IF cell \in expected THEN 0 ELSE 1>>

\* So an operation does what the guest asked for, whatever came before it in
\* the queues, and a checked build lets it (read_nand, nand_write).
OperationsWork == NoAbort /\ ArrayAsExpected /\ ReadsBack
-----------------------------------------------------------------------------
(* What makes OperationsWork inductive *)

\* A queue holds the first k of the values.
Holds(queue, values, k) == /\ queue \in Seq(Nat) /\ Len(queue) = k
                           /\ \A i \in 1 .. k : queue[i] = values[i]
Clip(n, most) == IF n < 0 THEN 0 ELSE IF n > most THEN most ELSE n

Row(page) == <<page % Base, (page \div Base) % Base, page \div (Base * Base)>>
Address(column, page) == <<column, Row(page)[1], Row(page)[2], Row(page)[3]>>

\* The NAND after n cycles of an operation: the queues hold what they have
\* carried, until the operation is complete.
ReadInStep(o, n) ==
    /\ nand_cmd = <<o.area>> /\ nand_data = <<>>
    /\ Holds(nand_addr, Address(o.column, o.page), Clip(n - 1, 4))
    /\ nand_read_cnt = Clip(n - 5, o.length)
    /\ n > 5 => LET cell == o.page * PageLen + Offset(o.area) + o.column + n - 6
                IN  out = <<"data", IF cell \in zeros THEN 0 ELSE 1>>

StatusInStep(n) == CASE n = 1 -> nand_cmd = <<ReadStatus>> /\ nand_addr = <<>> /\ nand_data = <<>>
                     [] n = 2 -> nand_cmd = <<>>

ProgramInStep(o, n) ==
    LET length == Len(o.bits)
    IN  IF n <= 6 + length
        THEN /\ nand_cmd = IF n = 1 THEN <<o.area>> ELSE <<o.area, ProgramSetup>>
             /\ Holds(nand_addr, Address(0, o.page), Clip(n - 2, 4))
             /\ Holds(nand_data, o.bits, Clip(n - 6, length))
        ELSE IF n = 7 + length THEN nand_cmd = <<>> ELSE StatusInStep(n - 7 - length)

EraseInStep(o, n) ==
    IF n <= 5 THEN /\ nand_cmd = IF n < 5 THEN <<EraseSetup>> ELSE <<EraseSetup, EraseConfirm>>
                   /\ Holds(nand_addr, Row(o.page), Clip(n - 1, 3)) /\ nand_data = <<>>
    ELSE StatusInStep(n - 5)

IdInStep(n) == IF n = 4 THEN nand_cmd = <<>>
               ELSE /\ nand_cmd = <<ReadId>> /\ nand_data = <<>> /\ Holds(nand_addr, <<0>>, Clip(n - 1, 1))
                    /\ nand_read_cnt = Clip(n - 2, 1)

InStep(o, n) == CASE o.kind = "read" -> ReadInStep(o, n)
                  [] o.kind = "program" -> ProgramInStep(o, n)
                  [] o.kind = "erase" -> EraseInStep(o, n)
                  [] o.kind = "id" -> IdInStep(n)
                  [] o.kind = "reset" -> nand_cmd = <<>>

\* The cycles that are left after n of them.
Left(o, n) == SubSeq(Cycles(o), n + 1, Len(Cycles(o)))

DriverInv ==
    /\ disturbed \in BOOLEAN /\ process \in {"debug", "release", "aborted"}
    /\ process = "aborted" => disturbed
    /\ process # "aborted" =>
         /\ zeros = expected
         /\ \/ op = Idle /\ todo = <<>>
            \/ \E o \in Operations : \E n \in 0 .. Len(Cycles(o)) :
                 op = o /\ todo = Left(o, n) /\ (n > 0 => InStep(o, n))
         /\ ~disturbed /\ (todo = <<>> \/ todo = Cycles(op)) => NothingHalfDone
=============================================================================
