----------------------------- MODULE MCCpuCores -----------------------------
(***************************************************************************)
(* Registers and operands at the edges: signs, zero, a full byte, decimal  *)
(* digits with and without a carry, the ends of pages and of the address   *)
(* space.  In page 0 memory holds its own addresses.                       *)
(***************************************************************************)
EXTENDS CpuCores

MCContent(address) == (address + address \div 256) % 256
MCStart == \h4f0
MCOperands == {\h037f, \h0380, \h03ff, \hfffe}
MCValues == {\h00, \hff}
MCAddValues == {\h00, \h01, \h05, \h09, \h0f, \h10, \h19, \h50, \h7f, \h80, \h81, \h90, \h99, \hff}
MCIndices == {<<\h00, \hff, \hff>>, <<\h01, \h80, \h01>>, <<\hff, \h00, \h02>>}
MCFlagSets == {{}, {"C", "Z", "N"}, {"D", "C"}, {"D", "V", "I"}}
=============================================================================
