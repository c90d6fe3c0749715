----------------------------- MODULE MCCommands -----------------------------
(***************************************************************************)
(* The console and what its commands do, one part to a behaviour: the      *)
(* line editor; put and get; saving, and starting again.                   *)
(*                                                                         *)
(* Lines have at most MaxLine characters, texts one or two, the history    *)
(* two lines.  The transferred files have the bytes that 0x3fff gives a    *)
(* meaning, and stray ones a third.                                        *)
(***************************************************************************)
EXTENDS Console, FileTransfer, SaveRestore

CONSTANT MaxLine   \* bound: longest line

MCTexts == {<<1>>, <<2, 2>>}
MCContents == {<<0, 1>>, <<>>}
\* A start without the state; one that swaps the NOR's halves and sets the clock;
\* one that does not, and resets.
Start(load, sync, reset, order) ==
    [load_state |-> load, sync_time |-> sync, warm_reset |-> reset, nor |-> <<order, order>>]
MCOptions == {Start(FALSE, TRUE, FALSE, 0), Start(TRUE, TRUE, FALSE, 1), Start(TRUE, FALSE, TRUE, 0)}

VARIABLE part
vars == <<part, consoleVars, transferVars, saveVars>>

\* One state of the other parts is enough.
Init == /\ part \in {"console", "transfer", "save"}
        /\ ConsoleInit /\ TransferInit /\ SaveInit
        /\ part # "transfer" => \A n \in Names : host[n] = Missing /\ disk[n] = Missing

ConsolePart == part = "console" /\ ConsoleNext /\ UNCHANGED <<part, transferVars, saveVars>>
TransferPart(A) == part = "transfer" /\ A /\ UNCHANGED <<part, consoleVars, saveVars>>
SavePart == part = "save" /\ SaveNext /\ UNCHANGED <<part, consoleVars, transferVars>>

Next == ConsolePart \/ TransferPart(TransferNext) \/ SavePart

\* The fairness of TransferSpec.
Spec == Init /\ [][Next]_vars /\ WF_vars(TransferPart(Program))

ShortLines == Len(console_input) <= MaxLine
=============================================================================
