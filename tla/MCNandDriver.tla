---------------------------- MODULE MCNandDriver ----------------------------
(***************************************************************************)
(* A NAND of 8 pages of 2 + 1 bytes in blocks of 2.  The guest uses both   *)
(* pages of the last block, whose row numbers need every address byte, and *)
(* erases it and the first one, so that one erase takes two used pages and *)
(* the other none.                                                         *)
(***************************************************************************)
EXTENDS NandDriver

MCUsedPages == {6, 7}
MCUsedBlocks == {0, 6}
MCImages == {{}}

\* The addresses of a wild program, which has some use for each.
MCAddrBytes == <<{1}, {1}, {0}, {0}>>
=============================================================================
