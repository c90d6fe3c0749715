---------------------------- MODULE MCNandFlash ----------------------------
(***************************************************************************)
(* A NAND of 32 pages of 4 + 1 bytes in blocks of 4, plus one block of     *)
(* extra pages.  The guest's addresses reach an aligned and an unaligned   *)
(* column, four pages in three blocks, and a last byte with bits beyond    *)
(* the one the code uses.                                                  *)
(***************************************************************************)
EXTENDS NandFlash

MCAddrBytes == <<{0, 1}, {0, 1}, {0}, {0, 3}, {0}>>

\* A blank chip, one with every byte programmed, one with every third.
MCImages == {{}, Cell, {c \in Cell : c % 3 = 0}}
=============================================================================
