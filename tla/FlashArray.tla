----------------------------- MODULE FlashArray -----------------------------
(***************************************************************************)
(* What a flash chip promises, whatever command protocol drives it.  One   *)
(* bit of every byte is observed: "zeros" is the set of cells whose bit    *)
(* reads 0.  Programming can only clear bits, inside one program unit (a   *)
(* NOR byte, a NAND page); only erasing sets bits back to 1, and it does   *)
(* so for a whole erase unit (a NOR sector, a NAND block) at once.  The    *)
(* emulator's --no-nand-forced-erase switch (settings.cpp) trades the      *)
(* first promise away: with Overwrite a program unit is replaced.          *)
(***************************************************************************)
CONSTANTS Cell,          \* the byte cells of the chip
          ProgramUnits,  \* sets of cells one program operation may change
          EraseUnits,    \* sets of cells one erase operation sets to ones
          Overwrite      \* TRUE iff a program may also set bits

VARIABLE zeros

\* The power-on content is whatever the flash image file holds.
Init == zeros \subseteq Cell

\* Cells outside the unit keep their bit; inside it bits are only cleared,
\* unless the chip overwrites.
Program(unit) ==
    /\ zeros' \in SUBSET Cell
    /\ zeros' \ unit = zeros \ unit
    /\ Overwrite \/ zeros \subseteq zeros'

Erase(unit) == zeros' = zeros \ unit

Next == \/ \E unit \in ProgramUnits : Program(unit)
        \/ \E unit \in EraseUnits : Erase(unit)

Spec == Init /\ [][Next]_zeros
=============================================================================
