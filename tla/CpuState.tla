------------------------------ MODULE CpuState ------------------------------
(***************************************************************************)
(* What the two CPU cores have in common: registers, flags, the 64 KB the  *)
(* guest sees, and the table of opcodes that are skipped (cpu.cpp,         *)
(* ansi/w65c02.h, compare/ibus6502.h).                                     *)
(*                                                                         *)
(* A machine is a record: registers A, X, Y, SP, PC; the set P of flags    *)
(* that are set; mem, the bytes that differ from the content the memory    *)
(* starts with; irq and nmi, the interrupts that are pending; clk, the     *)
(* time the current call of execute() has taken; wai, asleep.  The memory  *)
(* is plain memory: what the I/O addresses and banks do is in other        *)
(* modules.                                                                *)
(***************************************************************************)
EXTENDS Integers, TLC

CONSTANT Content(_)  \* what memory holds at an address before anything is written

Flags == {"N", "V", "B", "D", "I", "Z", "C"}
Registers == {"A", "X", "Y", "SP", "PC"}

NmiVector == \hfffa
IrqVector == \hfffe

\* Addresses and values are cut to 16 and 8 bits by the parameters of Load()
\* and Store().
Peek(m, address) == LET a == address % 65536
                    IN  IF a \in DOMAIN m.mem THEN m.mem[a] ELSE Content(a)
Poke(m, address, value) == [m EXCEPT !.mem = (address % 65536 :> value % 256) @@ @]

PeekWord(m, address) == Peek(m, address) + 256 * Peek(m, address + 1)

Bit(value, n) == (value \div 2^n) % 2 = 1
LowDigit(value) == value % 16
HighDigit(value) == 16 * ((value \div 16) % 16)
Number(condition) == IF condition THEN 1 ELSE 0

\* A flag is set iff the condition holds.
Put(m, flag, condition) == [m EXCEPT !.P = (@ \ {flag}) \cup (IF condition THEN {flag} ELSE {})]
PutNZ(m, value) == Put(Put(m, "N", Bit(value, 7)), "Z", value = 0)

\* The status byte holds the flags in this order of bits.
BitOf == [C |-> 0, Z |-> 1, I |-> 2, D |-> 3, B |-> 4, V |-> 6, N |-> 7]
Packed(flags) ==
    32 + Number("C" \in flags) + 2 * Number("Z" \in flags) + 4 * Number("I" \in flags)
       + 8 * Number("D" \in flags) + 16 * Number("B" \in flags)
       + 64 * Number("V" \in flags) + 128 * Number("N" \in flags)
Unpacked(byte) == {f \in Flags : Bit(byte, BitOf[f])}

\* Opcodes an NMOS 6502 does not document are skipped, WAI and STP of the 65C02
\* among them: <<bytes, cycles>>.
Skips(bytes, cycles, codes) == [code \in codes |-> <<bytes, cycles>>]

SkippedImmediate ==
    Skips(2, 2, {\h0b, \h2b, \h4b, \h6b, \h80, \h82, \h89, \h8b, \hab, \hc2, \hcb, \he2, \heb})

Skipped ==
    Skips(1, 2, {\h1a, \h3a, \h5a, \h7a, \hda, \hfa})
    @@ Skips(1, 6, {\h02, \h12, \h22, \h32, \h42, \h52, \h62, \h72, \h92, \hb2, \hd2, \hf2})
    @@ SkippedImmediate
    @@ Skips(2, 3, {\h04, \h44, \h64, \h87, \ha7})
    @@ Skips(2, 4, {\h14, \h34, \h54, \h74, \h97, \hb7, \hd4, \hf4})
    @@ Skips(2, 5, {\h07, \h27, \h47, \h67, \hb3, \hc7, \he7})
    @@ Skips(2, 6, {\h17, \h37, \h57, \h77, \h83, \h93, \ha3, \hd7, \hf7})
    @@ Skips(2, 8, {\h03, \h13, \h23, \h33, \h43, \h53, \h63, \h73, \hc3, \hd3, \he3, \hf3})
    @@ Skips(3, 4, {\h0c, \h1c, \h3c, \h5c, \h7c, \h8f, \haf, \hbb, \hbf, \hdc, \hfc})
    @@ Skips(3, 5, {\h9b, \h9c, \h9e, \h9f})
    @@ Skips(3, 6, {\h0f, \h2f, \h4f, \h6f, \hcf, \hef})
    @@ Skips(3, 7, {\h1b, \h1f, \h3b, \h3f, \h5b, \h5f, \h7b, \h7f, \hdb, \hdf, \hfb, \hff})
=============================================================================
