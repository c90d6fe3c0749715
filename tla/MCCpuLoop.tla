----------------------------- MODULE MCCpuLoop -----------------------------
(***************************************************************************)
(* The loop with a second of four ticks.  MCAll is every instruction that  *)
(* concerns interrupts; MCSleeping is a guest that turns the clock off.    *)
(***************************************************************************)
EXTENDS CpuLoop

MCAll == InstructionKinds
MCSleeping == {"other", "CLI", "BRK", "RTI", "status", "ack", "rcr0", "clk_off", "nmi_mask"}
=============================================================================
