---------------------------- MODULE MCMemoryMap ----------------------------
(***************************************************************************)
(* Register values for TLC: every bit the switch code looks at takes both  *)
(* values, and the bank numbers include the first and last NOR bank, the   *)
(* first number above it, the largest below 0x80, and both ends of the     *)
(* upper half.                                                             *)
(***************************************************************************)
EXTENDS MemoryMap

MCModels == AllModels
MCBanks == {0, 1, 31, 127, 255}
MCRoaBbs == {0, 6, 129}
MCRambVol == {0, 1, 6}
MCZp == {0, 13}
=============================================================================
