------------------------------- MODULE EmuxCpu -------------------------------
(***************************************************************************)
(* The other CPU, compare/c6502.cpp, the NMOS 6502 of another emulator,    *)
(* "mainly used for comparing" the default one; a switch selects it.  It   *)
(* is driven by emux_exec_helper() in cpu.cpp and counts time in twelfths  *)
(* of a cycle.  It never holds the B flag and knows no decimal mode.       *)
(***************************************************************************)
EXTENDS CpuState, Bitwise

\* Opcodes of the instructions that work on A, whose eight modes follow a
\* pattern, and of those that shift.
EightModes(op, base) ==
    base + \h09 :> <<op, "imm", 24>> @@ base + \h05 :> <<op, "zp", 36>>
    @@ base + \h15 :> <<op, "zpx", 48>> @@ base + \h0d :> <<op, "abs", 48>>
    @@ base + \h1d :> <<op, "abx", 48>> @@ base + \h19 :> <<op, "aby", 48>>
    @@ base + \h01 :> <<op, "indx", 72>> @@ base + \h11 :> <<op, "indy", 60>>
FourModes(op, base) ==
    base + \h06 :> <<op, "zp", 60>> @@ base + \h16 :> <<op, "zpx", 72>>
    @@ base + \h0e :> <<op, "abs", 72>> @@ base + \h1e :> <<op, "abx", 84>>
Implied(op, code, clk) == code :> <<op, "imp", clk>>
ShiftModes(op, base) == FourModes(op, base) @@ Implied(op, base + \h0a, 24)

LDA == EightModes("LDA", \ha0)
LDX == \ha2 :> <<"LDX", "imm", 24>> @@ \ha6 :> <<"LDX", "zp", 36>> @@ \hb6 :> <<"LDX", "zpy", 48>>
       @@ \hae :> <<"LDX", "abs", 48>> @@ \hbe :> <<"LDX", "aby", 48>>
LDY == \ha0 :> <<"LDY", "imm", 24>> @@ \ha4 :> <<"LDY", "zp", 36>> @@ \hb4 :> <<"LDY", "zpx", 48>>
       @@ \hac :> <<"LDY", "abs", 48>> @@ \hbc :> <<"LDY", "abx", 48>>
STA == \h85 :> <<"STA", "zp", 36>> @@ \h95 :> <<"STA", "zpx", 48>> @@ \h8d :> <<"STA", "abs", 48>>
       @@ \h9d :> <<"STA", "abx", 60>> @@ \h99 :> <<"STA", "aby", 60>>
       @@ \h81 :> <<"STA", "indx", 72>> @@ \h91 :> <<"STA", "indy", 72>>
STX == \h86 :> <<"STX", "zp", 36>> @@ \h96 :> <<"STX", "zpy", 48>> @@ \h8e :> <<"STX", "abs", 48>>
STY == \h84 :> <<"STY", "zp", 36>> @@ \h94 :> <<"STY", "zpx", 48>> @@ \h8c :> <<"STY", "abs", 48>>
DEC == FourModes("DEC", \hc0)
INC == FourModes("INC", \he0)
CMP == EightModes("CMP", \hc0)
CPX == \he0 :> <<"CPX", "imm", 24>> @@ \he4 :> <<"CPX", "zp", 36>> @@ \hec :> <<"CPX", "abs", 48>>
CPY == \hc0 :> <<"CPY", "imm", 24>> @@ \hc4 :> <<"CPY", "zp", 36>> @@ \hcc :> <<"CPY", "abs", 48>>
AND == EightModes("AND", \h20)
EOR == EightModes("EOR", \h40)
ORA == EightModes("ORA", \h00)
ROL == ShiftModes("ROL", \h20)
ROR == ShiftModes("ROR", \h60)
ASL == ShiftModes("ASL", \h00)
LSR == ShiftModes("LSR", \h40)
ADC == EightModes("ADC", \h60)
SBC == EightModes("SBC", \he0)
BIT == \h24 :> <<"BIT", "zp", 36>> @@ \h2c :> <<"BIT", "abs", 48>>
Registers2 == Implied("TAX", \haa, 24) @@ Implied("TAY", \ha8, 24) @@ Implied("TSX", \hba, 24)
              @@ Implied("TXA", \h8a, 24) @@ Implied("TXS", \h9a, 24) @@ Implied("TYA", \h98, 24)
              @@ Implied("INX", \he8, 24) @@ Implied("INY", \hc8, 24) @@ Implied("DEX", \hca, 24)
              @@ Implied("DEY", \h88, 24)
Branches == \h10 :> <<"BPL", "imm", 24>> @@ \h30 :> <<"BMI", "imm", 24>> @@ \h90 :> <<"BCC", "imm", 24>>
            @@ \hb0 :> <<"BCS", "imm", 24>> @@ \hd0 :> <<"BNE", "imm", 24>> @@ \hf0 :> <<"BEQ", "imm", 24>>
            @@ \h50 :> <<"BVC", "imm", 24>> @@ \h70 :> <<"BVS", "imm", 48>>
FlagCodes == Implied("CLC", \h18, 24) @@ Implied("CLD", \hd8, 24) @@ Implied("CLI", \h58, 24)
             @@ Implied("CLV", \hb8, 24) @@ Implied("SEC", \h38, 24) @@ Implied("SED", \hf8, 24)
             @@ Implied("SEI", \h78, 24)
Jumps == \h4c :> <<"JMP", "abs", 36>> @@ \h6c :> <<"JMP", "ind", 60>> @@ \h20 :> <<"JSR", "abs", 72>>
         @@ Implied("RTI", \h40, 72) @@ Implied("RTS", \h60, 72) @@ Implied("BRK", \h00, 84)
         @@ Implied("NOP", \hea, 24)
StackCodes == Implied("PHA", \h48, 36) @@ Implied("PHP", \h08, 36)
              @@ Implied("PLA", \h68, 48) @@ Implied("PLP", \h28, 48)

Opcodes == LDA @@ LDX @@ LDY @@ STA @@ STX @@ STY @@ DEC @@ INC @@ CMP @@ CPX @@ CPY @@ AND @@ EOR
           @@ ORA @@ ROL @@ ROR @@ ASL @@ LSR @@ ADC @@ SBC @@ BIT @@ Registers2 @@ Branches
           @@ FlagCodes @@ Jumps @@ StackCodes
-----------------------------------------------------------------------------
(* Operands *)

Size(mode) == CASE mode = "imp" -> 0 [] mode \in {"abs", "abx", "aby", "ind"} -> 2 [] OTHER -> 1

\* The word a zero page pointer holds: its high byte stays in page 0.
ZeroPageWord(m, z) == Peek(m, z) + 256 * Peek(m, (z + 1) % 256)

\* The address that is indexed, and by what.
Indexed(m, mode) == CASE mode \in {"abx", "aby"} -> PeekWord(m, m.PC)
                      [] mode = "indy" -> ZeroPageWord(m, Peek(m, m.PC))
Index(m, mode) == IF mode = "abx" THEN m.X ELSE m.Y
IndexedModes == {"abx", "aby", "indy"}

\* The high byte behind a pointer at the end of a page comes from its start.
Indirect(m, t) == Peek(m, t) + 256 * (IF t % 256 = 255 THEN Peek(m, t - 255) ELSE Peek(m, t + 1))

EA(m, mode) ==
    CASE mode = "imm" -> m.PC
      [] mode = "zp" -> Peek(m, m.PC)
      [] mode = "zpx" -> (Peek(m, m.PC) + m.X) % 256
      [] mode = "zpy" -> (Peek(m, m.PC) + m.Y) % 256
      [] mode = "abs" -> PeekWord(m, m.PC)
      [] mode \in IndexedModes -> (Indexed(m, mode) + Index(m, mode)) % 65536
      [] mode = "indx" -> ZeroPageWord(m, (Peek(m, m.PC) + m.X) % 256)
      [] mode = "ind" -> Indirect(m, PeekWord(m, m.PC))
      [] mode = "imp" -> 0

PageClk(m, mode) == IF mode \in IndexedModes /\ Bit(EA(m, mode), 8) # Bit(Indexed(m, mode), 8)
                      THEN 12 ELSE 0
-----------------------------------------------------------------------------
(* The stack and interrupts *)

push(m, value) == [Poke(m, 256 + m.SP, value) EXCEPT !.SP = (@ - 1) % 256]
pushW(m, word) == push(push(m, word \div 256), word % 256)
popped(m) == [m EXCEPT !.SP = (@ + 1) % 256]
pop(m) == Peek(m, 256 + popped(m).SP)
popW(m) == pop(m) + 256 * pop(popped(m))

\* P has only six bits.
popP(m) == [popped(m) EXCEPT !.P = Unpacked(pop(m)) \ {"B"}]

Vectored(m, vector, flags) ==
    LET pushed == push(pushW(m, m.PC), Packed(flags))
    IN  [pushed EXCEPT !.PC = PeekWord(pushed, vector), !.P = @ \cup {"I"}, !.clk = @ + 84]

doNMI(m) == Vectored([m EXCEPT !.nmi = FALSE], NmiVector, m.P)
doIRQ(m) == Vectored([m EXCEPT !.irq = FALSE], IrqVector, m.P)
TakeIrq(m) == IF m.irq /\ "I" \notin m.P THEN doIRQ(m) ELSE m
-----------------------------------------------------------------------------
(* Instructions *)

SetRegister(m, r, value) == PutNZ([m EXCEPT ![r] = value], value)

add(m, value) == LET j == m.A + value + Number("C" \in m.P)
                 IN  SetRegister(Put(Put(m, "V", Bit(m.A, 7) = Bit(value, 7) /\ Bit(m.A, 7) # Bit(j, 7)),
                                     "C", Bit(j, 8)), "A", j % 256)

sub(m, value) == LET j == m.A - value - Number("C" \notin m.P)
                 IN  SetRegister(Put(Put(m, "V", Bit(m.A, 7) # Bit(value, 7) /\ Bit(m.A, 7) # Bit(j, 7)),
                                     "C", j >= 0), "A", j % 256)

\* Mutant: equal values leave the carry clear.
cmpStrict(m, i, j) == PutNZ(Put(m, "C", i - j > 0), (i - j) % 256)

cmp(m, i, j) == PutNZ(Put(m, "C", i - j >= 0), (i - j) % 256)

bit(m, dt) == Put(Put(Put(m, "N", Bit(dt, 7)), "V", Bit(dt, 6)), "Z", (m.A & dt) = 0)

Shifted(m, op, dt) ==
    CASE op = "ASL" -> <<(2 * dt) % 256, Bit(dt, 7)>>
      [] op = "LSR" -> <<dt \div 2, Bit(dt, 0)>>
      [] op = "ROL" -> <<(2 * dt + Number("C" \in m.P)) % 256, Bit(dt, 7)>>
      [] op = "ROR" -> <<dt \div 2 + 128 * Number("C" \in m.P), Bit(dt, 0)>>

\* Without an address the shift is of A.
shift(m, op, mode, ea) ==
    LET result == Shifted(m, op, IF mode = "imp" THEN m.A ELSE Peek(m, ea))
        stored == IF mode = "imp" THEN [m EXCEPT !.A = result[1]] ELSE Poke(m, ea, result[1])
    IN  PutNZ(Put(stored, "C", result[2]), result[1])

step(m, ea, by) == LET dt == (Peek(m, ea) + by) % 256
                   IN  PutNZ(Poke(m, ea, dt), dt)

rel_jmp(m, offset, flag, value) ==
    LET target == m.PC + (IF offset >= 128 THEN offset - 256 ELSE offset)
    IN  IF (flag \in m.P) = value
          THEN [m EXCEPT !.PC = target % 65536,
                         !.clk = @ + 12 + (IF Bit(m.PC, 8) # Bit(target, 8) THEN 12 ELSE 0)]
          ELSE m

BRK_00(m) == LET pushed == push(pushW(m, m.PC + 1), Packed(m.P \cup {"B"}))
             IN  [pushed EXCEPT !.PC = PeekWord(pushed, IrqVector), !.P = @ \cup {"I"}]

RTI_40(m) == LET p == popP(m)
             IN  TakeIrq([popped(popped(p)) EXCEPT !.PC = popW(p)])

\* A pending IRQ is taken at once when CLI clears I.
CLI_58(m) == LET enabled == Put(m, "I", FALSE)
             IN  IF m.irq THEN doIRQ(enabled) ELSE enabled

\* The target is read behind the push, which may have overwritten it.
JSR_20(m) == LET pushed == pushW(m, m.PC - 1)
             IN  [pushed EXCEPT !.PC = PeekWord(pushed, m.PC - 2)]

Code(m, op, mode, ea) ==
    LET dt == Peek(m, ea)
    IN  CASE op = "LDA" -> SetRegister(m, "A", dt)
          [] op = "LDX" -> SetRegister(m, "X", dt)
          [] op = "LDY" -> SetRegister(m, "Y", dt)
          [] op = "STA" -> Poke(m, ea, m.A)
          [] op = "STX" -> Poke(m, ea, m.X)
          [] op = "STY" -> Poke(m, ea, m.Y)
          [] op = "TAX" -> SetRegister(m, "X", m.A)
          [] op = "TAY" -> SetRegister(m, "Y", m.A)
          [] op = "TSX" -> SetRegister(m, "X", m.SP)
          [] op = "TXA" -> SetRegister(m, "A", m.X)
          [] op = "TXS" -> [m EXCEPT !.SP = m.X]
          [] op = "TYA" -> SetRegister(m, "A", m.Y)
          [] op = "INX" -> SetRegister(m, "X", (m.X + 1) % 256)
          [] op = "INY" -> SetRegister(m, "Y", (m.Y + 1) % 256)
          [] op = "DEX" -> SetRegister(m, "X", (m.X - 1) % 256)
          [] op = "DEY" -> SetRegister(m, "Y", (m.Y - 1) % 256)
          [] op = "DEC" -> step(m, ea, -1)
          [] op = "INC" -> step(m, ea, 1)
          [] op = "CMP" -> cmp(m, m.A, dt)
          [] op = "CPX" -> cmp(m, m.X, dt)
          [] op = "CPY" -> cmp(m, m.Y, dt)
          [] op = "AND" -> SetRegister(m, "A", m.A & dt)
          [] op = "EOR" -> SetRegister(m, "A", m.A ^^ dt)
          [] op = "ORA" -> SetRegister(m, "A", m.A | dt)
          [] op \in {"ROL", "ROR", "ASL", "LSR"} -> shift(m, op, mode, ea)
          [] op = "ADC" -> add(m, dt)
          [] op = "SBC" -> sub(m, dt)
          [] op = "BIT" -> bit(m, dt)
          [] op = "BPL" -> rel_jmp(m, dt, "N", FALSE)
          [] op = "BMI" -> rel_jmp(m, dt, "N", TRUE)
          [] op = "BCC" -> rel_jmp(m, dt, "C", FALSE)
          [] op = "BCS" -> rel_jmp(m, dt, "C", TRUE)
          [] op = "BNE" -> rel_jmp(m, dt, "Z", FALSE)
          [] op = "BEQ" -> rel_jmp(m, dt, "Z", TRUE)
          [] op = "BVC" -> rel_jmp(m, dt, "V", FALSE)
          [] op = "BVS" -> rel_jmp(m, dt, "V", TRUE)
          [] op = "CLC" -> Put(m, "C", FALSE)
          [] op = "CLD" -> Put(m, "D", FALSE)
          [] op = "CLI" -> CLI_58(m)
          [] op = "CLV" -> Put(m, "V", FALSE)
          [] op = "SEC" -> Put(m, "C", TRUE)
          [] op = "SED" -> Put(m, "D", TRUE)
          [] op = "SEI" -> Put(m, "I", TRUE)
          [] op = "JMP" -> [m EXCEPT !.PC = ea]
          [] op = "JSR" -> JSR_20(m)
          [] op = "RTS" -> [popped(popped(m)) EXCEPT !.PC = popW(m) + 1]
          [] op = "RTI" -> RTI_40(m)
          [] op = "BRK" -> BRK_00(m)
          [] op = "PHA" -> push(m, m.A)
          [] op = "PHP" -> push(m, Packed(m.P \cup {"B"}))
          [] op = "PLA" -> SetRegister(popped(m), "A", pop(m))
          [] op = "PLP" -> popP(m)
          [] op = "NOP" -> m

\* Skipped opcodes take their cycles as twelfths; others would take no time.
XXX_xx(m, code) == IF code \in DOMAIN Skipped
                     THEN [m EXCEPT !.PC = @ + Skipped[code][1] - 1, !.clk = @ + Skipped[code][2]]
                     ELSE m

doCode(m, code) ==
    IF code \notin DOMAIN Opcodes THEN XXX_xx(m, code)
    ELSE LET op == Opcodes[code][1]
             mode == Opcodes[code][2]
         IN  Code([m EXCEPT !.PC = @ + Size(mode), !.clk = @ + Opcodes[code][3] + PageClk(m, mode)],
                  op, mode, EA(m, mode))

\* emux_exec_helper(0): pending interrupts are taken, then one instruction
\* executed.
execute(m) ==
    LET started == [m EXCEPT !.clk = 0]
        n == TakeIrq(IF started.nmi THEN doNMI(started) ELSE started)
    IN  doCode([n EXCEPT !.PC = @ + 1], Peek(n, n.PC))
=============================================================================
