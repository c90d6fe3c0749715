----------------------------- MODULE NorProtocol -----------------------------
(***************************************************************************)
(* An observer of the NOR that knows nothing of its command state machine: *)
(* it follows how much of each unlock sequence the stores that the chip    *)
(* took have gone through since the chip was last reset or modified, and   *)
(* asks that every modification was asked for by its own, complete         *)
(* sequence.  The chip tolerates unrelated stores inside a sequence, so    *)
(* the sequence need not be contiguous.  In the same way it follows the    *)
(* three stores that select any command, without which no read may be      *)
(* answered by anything but the array.                                     *)
(***************************************************************************)
EXTENDS NorFlash, Sequences

\* The stores that must come before the one that modifies, in order.
Unlock1 == Addr5555 \X {UnlockAA}
Unlock2 == {<<AddrAAAA, Unlock55>>}
Command(v) == Addr5555 \X {v}

Sequence == [program |-> <<Unlock1, Unlock2, Command(160)>>,
             infoProgram |-> <<Unlock1, Unlock2, Command(168)>>,
             erase |-> <<Unlock1, Unlock2, Command(128), Unlock1, Unlock2>>,
             infoErase |-> <<Unlock1, Unlock2, Command(136), Unlock1, Unlock2>>]

\* The stores that select a command, whichever it is.
Selection == <<Unlock1, Unlock2, Addr5555 \X CommandValues>>

VARIABLES matched,  \* history: stores of each sequence seen, in its order
          asked     \* history: stores of Selection seen since the last reset

protocolVars == <<norVars, matched, asked>>

Nothing == [s \in DOMAIN Sequence |-> 0]
Complete(s) == matched[s] = Len(Sequence[s])

Init == NorInit /\ matched = Nothing /\ asked = 0

ObservedStore ==
    \E w \in Writes :
      /\ write_nor(w[1], w[2])
      /\ matched' = IF w[2] = ResetF0 \/ zeros' # zeros THEN Nothing
                    ELSE [s \in DOMAIN Sequence |->
                            IF ~Complete(s) /\ w \in Sequence[s][matched[s] + 1]
                              THEN matched[s] + 1 ELSE matched[s]]
      /\ asked' = IF w[2] = ResetF0
                    THEN IF Complete("program") \/ Complete("infoProgram") THEN asked ELSE 0
                    ELSE IF asked < 3 /\ w \in Selection[asked + 1] THEN asked + 1 ELSE asked

Next == \/ ObservedStore
        \/ (SwitchBank \/ WarmReset) /\ UNCHANGED <<matched, asked>>
        \/ ColdReset /\ matched' = Nothing /\ asked' = 0

Spec == Init /\ [][Next]_protocolVars
-----------------------------------------------------------------------------
\* No cell changes without the unlock sequence of its own command: bytes of
\* the array need 0xa0 and the double-unlocked 0x80 or 0x88, the information
\* block needs 0xa8 and 0x88.  In particular a command that was abandoned, by
\* a reset command or a cold reset, cannot be completed later, and stores that
\* were swallowed while the bank register pointed elsewhere do not count.
ModificationsAreUnlocked ==
    [][LET programmed == zeros' \ zeros
           erased == zeros \ zeros'
       IN  /\ programmed \cap NorCells # {} => Complete("program")
           /\ programmed \cap InfoCells # {} => Complete("infoProgram")
           /\ erased \cap NorCells # {} => Complete("erase") \/ Complete("infoErase")
           /\ erased \cap InfoCells # {} => Complete("infoErase")]_protocolVars

\* A read that the chip answers itself, with its status, its identification or
\* the information block, follows three stores that selected a command, and no
\* cold reset nor reset command since, unless that one was the data of a
\* program.  So a boot vector comes from the array after every cold reset, and
\* after a warm one, which leaves the chip alone (cpu_loop_new.cpp 190), unless
\* it hit between the selection of a command and the reset command.
BootVector == 65532
ReadAddresses == {w[1] : w \in Writes} \cup {32768, BootVector}
AnswersAreAskedFor == \A a \in ReadAddresses : read_nor(fp, a) # "memory" => asked = 3
=============================================================================
