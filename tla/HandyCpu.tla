------------------------------ MODULE HandyCpu ------------------------------
(***************************************************************************)
(* The default CPU: the 65C02 of the Handy emulator, ansi/w65c02op.cpp and *)
(* ansi/w65c02macro.h, and the part of CPUInterface::execute() in cpu.cpp  *)
(* that drives it.  Each row of the opcode table names, for an opcode, the *)
(* macro that executes it, the macro that finds its operand and the cycles *)
(* it takes.  The 65C02 opcodes of the table are left out: all of them are *)
(* skipped, but WAI and STP are kept to show that they are.  No opcode     *)
(* writes g_wai_saved anything but a copy of g_wai, so that wai stands for *)
(* both.                                                                   *)
(***************************************************************************)
EXTENDS CpuState, Bitwise

Row0 == \h00 :> <<"BRK", "imp", 7>> @@ \h01 :> <<"ORA", "indx", 6>> @@ \h05 :> <<"ORA", "zp", 3>>
   @@ \h06 :> <<"ASL", "zp", 5>> @@ \h08 :> <<"PHP", "imp", 3>> @@ \h09 :> <<"ORA", "imm", 2>>
   @@ \h0a :> <<"ASLA", "imp", 2>> @@ \h0d :> <<"ORA", "abs", 4>> @@ \h0e :> <<"ASL", "abs", 6>>
Row1 == \h10 :> <<"BPL", "rel", 2>> @@ \h11 :> <<"ORA", "indy2", 5>>
   @@ \h15 :> <<"ORA", "zpx", 4>> @@ \h16 :> <<"ASL", "zpx", 6>> @@ \h18 :> <<"CLC", "imp", 2>>
   @@ \h19 :> <<"ORA", "aby", 4>> @@ \h1d :> <<"ORA", "abx", 4>> @@ \h1e :> <<"ASL", "abx", 7>>
Row2 == \h20 :> <<"JSR", "abs", 6>> @@ \h21 :> <<"AND", "indx", 6>> @@ \h24 :> <<"BIT", "zp", 3>>
   @@ \h25 :> <<"AND", "zp", 3>> @@ \h26 :> <<"ROL", "zp", 5>> @@ \h28 :> <<"PLP", "imp", 4>>
   @@ \h29 :> <<"AND", "imm", 2>> @@ \h2a :> <<"ROLA", "imp", 2>> @@ \h2c :> <<"BIT", "abs", 4>>
   @@ \h2d :> <<"AND", "abs", 4>> @@ \h2e :> <<"ROL", "abs", 6>>
Row3 == \h30 :> <<"BMI", "rel", 2>> @@ \h31 :> <<"AND", "indy2", 5>>
   @@ \h35 :> <<"AND", "zpx", 4>> @@ \h36 :> <<"ROL", "zpx", 6>> @@ \h38 :> <<"SEC", "imp", 2>>
   @@ \h39 :> <<"AND", "aby", 4>> @@ \h3d :> <<"AND", "abx", 4>> @@ \h3e :> <<"ROL", "abx", 7>>
Row4 == \h40 :> <<"RTI", "imp", 6>> @@ \h41 :> <<"EOR", "indx", 6>> @@ \h45 :> <<"EOR", "zp", 3>>
   @@ \h46 :> <<"LSR", "zp", 5>> @@ \h48 :> <<"PHA", "imp", 3>> @@ \h49 :> <<"EOR", "imm", 2>>
   @@ \h4a :> <<"LSRA", "imp", 2>> @@ \h4c :> <<"JMP", "abs", 3>> @@ \h4d :> <<"EOR", "abs", 4>>
   @@ \h4e :> <<"LSR", "abs", 6>>
Row5 == \h50 :> <<"BVC", "rel", 2>> @@ \h51 :> <<"EOR", "indy2", 5>>
   @@ \h55 :> <<"EOR", "zpx", 4>> @@ \h56 :> <<"LSR", "zpx", 6>> @@ \h58 :> <<"CLI", "imp", 2>>
   @@ \h59 :> <<"EOR", "aby", 4>> @@ \h5d :> <<"EOR", "abx", 4>> @@ \h5e :> <<"LSR", "abx", 7>>
Row6 == \h60 :> <<"RTS", "imp", 6>> @@ \h61 :> <<"ADC", "indx", 6>> @@ \h65 :> <<"ADC", "zp", 3>>
   @@ \h66 :> <<"ROR", "zp", 5>> @@ \h68 :> <<"PLA", "imp", 4>> @@ \h69 :> <<"ADC", "imm", 2>>
   @@ \h6a :> <<"RORA", "imp", 2>> @@ \h6c :> <<"JMP", "ind", 5>> @@ \h6d :> <<"ADC", "abs", 4>>
   @@ \h6e :> <<"ROR", "abs", 6>>
Row7 == \h70 :> <<"BVS", "rel", 2>> @@ \h71 :> <<"ADC", "indy2", 5>>
   @@ \h75 :> <<"ADC", "zpx", 4>> @@ \h76 :> <<"ROR", "zpx", 6>> @@ \h78 :> <<"SEI", "imp", 2>>
   @@ \h79 :> <<"ADC", "aby", 4>> @@ \h7d :> <<"ADC", "abx", 4>> @@ \h7e :> <<"ROR", "abx", 7>>
Row8 == \h81 :> <<"STA", "indx", 6>> @@ \h84 :> <<"STY", "zp", 3>> @@ \h85 :> <<"STA", "zp", 3>>
   @@ \h86 :> <<"STX", "zp", 3>> @@ \h88 :> <<"DEY", "imp", 2>> @@ \h8a :> <<"TXA", "imp", 2>>
   @@ \h8c :> <<"STY", "abs", 4>> @@ \h8d :> <<"STA", "abs", 4>> @@ \h8e :> <<"STX", "abs", 4>>
Row9 == \h90 :> <<"BCC", "rel", 2>> @@ \h91 :> <<"STA", "indy", 6>> @@ \h94 :> <<"STY", "zpx", 4>>
   @@ \h95 :> <<"STA", "zpx", 4>> @@ \h96 :> <<"STX", "zpy", 4>> @@ \h98 :> <<"TYA", "imp", 2>>
   @@ \h99 :> <<"STA", "aby", 5>> @@ \h9a :> <<"TXS", "imp", 2>> @@ \h9d :> <<"STA", "abx", 5>>
RowA == \ha0 :> <<"LDY", "imm", 2>> @@ \ha1 :> <<"LDA", "indx", 6>> @@ \ha2 :> <<"LDX", "imm", 2>>
   @@ \ha4 :> <<"LDY", "zp", 3>> @@ \ha5 :> <<"LDA", "zp", 3>> @@ \ha6 :> <<"LDX", "zp", 3>>
   @@ \ha8 :> <<"TAY", "imp", 2>> @@ \ha9 :> <<"LDA", "imm", 2>> @@ \haa :> <<"TAX", "imp", 2>>
   @@ \hac :> <<"LDY", "abs", 4>> @@ \had :> <<"LDA", "abs", 4>> @@ \hae :> <<"LDX", "abs", 4>>
RowB == \hb0 :> <<"BCS", "rel", 2>> @@ \hb1 :> <<"LDA", "indy2", 5>>
   @@ \hb4 :> <<"LDY", "zpx", 4>> @@ \hb5 :> <<"LDA", "zpx", 4>> @@ \hb6 :> <<"LDX", "zpy", 4>>
   @@ \hb8 :> <<"CLV", "imp", 2>> @@ \hb9 :> <<"LDA", "aby", 4>> @@ \hba :> <<"TSX", "imp", 2>>
   @@ \hbc :> <<"LDY", "abx", 4>> @@ \hbd :> <<"LDA", "abx", 4>> @@ \hbe :> <<"LDX", "aby", 4>>
RowC == \hc0 :> <<"CPY", "imm", 2>> @@ \hc1 :> <<"CMP", "indx", 6>> @@ \hc4 :> <<"CPY", "zp", 3>>
   @@ \hc5 :> <<"CMP", "zp", 3>> @@ \hc6 :> <<"DEC", "zp", 5>> @@ \hc8 :> <<"INY", "imp", 2>>
   @@ \hc9 :> <<"CMP", "imm", 2>> @@ \hca :> <<"DEX", "imp", 2>> @@ \hcb :> <<"WAI", "imp", 2>>
   @@ \hcc :> <<"CPY", "abs", 4>> @@ \hcd :> <<"CMP", "abs", 4>> @@ \hce :> <<"DEC", "abs", 6>>
RowD == \hd0 :> <<"BNE", "rel", 2>> @@ \hd1 :> <<"CMP", "indy2", 5>>
   @@ \hd5 :> <<"CMP", "zpx", 4>> @@ \hd6 :> <<"DEC", "zpx", 6>> @@ \hd8 :> <<"CLD", "imp", 2>>
   @@ \hd9 :> <<"CMP", "aby", 4>> @@ \hdb :> <<"STP", "imp", 2>> @@ \hdd :> <<"CMP", "abx", 4>>
   @@ \hde :> <<"DEC", "abx", 7>>
RowE == \he0 :> <<"CPX", "imm", 2>> @@ \he1 :> <<"SBC", "indx", 6>> @@ \he4 :> <<"CPX", "zp", 3>>
   @@ \he5 :> <<"SBC", "zp", 3>> @@ \he6 :> <<"INC", "zp", 5>> @@ \he8 :> <<"INX", "imp", 2>>
   @@ \he9 :> <<"SBC", "imm", 2>> @@ \hea :> <<"NOP", "imp", 2>> @@ \hec :> <<"CPX", "abs", 4>>
   @@ \hed :> <<"SBC", "abs", 4>> @@ \hee :> <<"INC", "abs", 6>>
RowF == \hf0 :> <<"BEQ", "rel", 2>> @@ \hf1 :> <<"SBC", "indy2", 5>>
   @@ \hf5 :> <<"SBC", "zpx", 4>> @@ \hf6 :> <<"INC", "zpx", 6>> @@ \hf8 :> <<"SED", "imp", 2>>
   @@ \hf9 :> <<"SBC", "aby", 4>> @@ \hfd :> <<"SBC", "abx", 4>> @@ \hfe :> <<"INC", "abx", 7>>

Opcodes == Row0 @@ Row1 @@ Row2 @@ Row3 @@ Row4 @@ Row5 @@ Row6 @@ Row7
           @@ Row8 @@ Row9 @@ RowA @@ RowB @@ RowC @@ RowD @@ RowE @@ RowF
-----------------------------------------------------------------------------
(* Operands.  PC is at the first byte behind the opcode. *)

Size(mode) == CASE mode = "imp" -> 0 [] mode \in {"abs", "abx", "aby", "ind"} -> 2 [] OTHER -> 1

\* What is indexed, and by what.
Base(m, mode) == CASE mode \in {"abx", "aby"} -> PeekWord(m, m.PC)
                   [] mode \in {"indy", "indy2"} -> PeekWord(m, Peek(m, m.PC))
Index(m, mode) == IF mode = "abx" THEN m.X ELSE m.Y

Operand(m, mode) ==
    CASE mode \in {"imm", "rel"} -> m.PC
      [] mode = "zp" -> Peek(m, m.PC)
      [] mode = "zpx" -> (Peek(m, m.PC) + m.X) % 256
      [] mode = "zpy" -> (Peek(m, m.PC) + m.Y) % 256
      [] mode = "abs" -> PeekWord(m, m.PC)
      [] mode \in {"abx", "aby", "indy", "indy2"} -> (Base(m, mode) + Index(m, mode)) % 65536
      [] mode = "indx" -> PeekWord(m, (Peek(m, m.PC) + m.X) % 256)
      [] mode = "ind" -> PeekWord(m, PeekWord(m, m.PC))
      [] mode = "imp" -> 0

\* Crossing a page takes a cycle, except where a store has counted it.
Crossing(m, mode) ==
    IF mode \in {"abx", "aby", "indy2"}
      THEN Number(Base(m, mode) \div 256 # (Base(m, mode) + Index(m, mode)) \div 256)
      ELSE 0
-----------------------------------------------------------------------------
(* The stack *)

Push(m, value) == [Poke(m, 256 + m.SP, value) EXCEPT !.SP = (@ - 1) % 256]
PushWord(m, word) == Push(Push(m, word \div 256), word % 256)

Popped(m) == [m EXCEPT !.SP = (@ + 1) % 256]
Top(m) == Peek(m, 256 + Popped(m).SP)
PopPC(m) == [Popped(Popped(m)) EXCEPT !.PC = Top(m) + 256 * Top(Popped(m))]
-----------------------------------------------------------------------------
(* Instructions *)

SetRegister(m, r, value) == PutNZ([m EXCEPT ![r] = value], value)

\* Mutant: a half carry at 9 already.
AddDecimalAtNine(m, value) ==
    LET low == LowDigit(m.A) + LowDigit(value) + Number("C" \in m.P)
        half == low >= 9
        sum == HighDigit(m.A) + HighDigit(value) + (IF half THEN 16 ELSE 0)
        high == IF sum > \h90 THEN sum + \h60 ELSE sum
        A == LowDigit(IF half THEN low + 6 ELSE low) + HighDigit(high)
    IN  SetRegister(Put(Put(m, "V", Bit(m.A, 7) = Bit(value, 7) /\ Bit(m.A, 7) # Bit(sum, 7)),
                        "C", high >= 256), "A", A)

AddDecimal(m, value) ==
    LET low == LowDigit(m.A) + LowDigit(value) + Number("C" \in m.P)
        half == low > 9
        sum == HighDigit(m.A) + HighDigit(value) + (IF half THEN 16 ELSE 0)
        high == IF sum > \h90 THEN sum + \h60 ELSE sum
        A == LowDigit(IF half THEN low + 6 ELSE low) + HighDigit(high)
    IN  SetRegister(Put(Put(m, "V", Bit(m.A, 7) = Bit(value, 7) /\ Bit(m.A, 7) # Bit(sum, 7)),
                        "C", high >= 256), "A", A)

AddBinary(m, value) ==
    LET sum == m.A + value + Number("C" \in m.P)
    IN  SetRegister(Put(Put(m, "V", Bit(m.A, 7) = Bit(value, 7) /\ Bit(m.A, 7) # Bit(sum, 7)),
                        "C", sum >= 256), "A", sum % 256)

Add(m, value) == IF "D" \in m.P THEN AddDecimal(m, value) ELSE AddBinary(m, value)

\* A in decimal mode: the two digits are subtracted apart and corrected.
DecimalDifference(m, value) ==
    LET low == LowDigit(m.A) - LowDigit(value) - Number("C" \notin m.P)
        tens == HighDigit(m.A) - HighDigit(value) - (IF low < 0 THEN 16 ELSE 0)
        high == IF tens < 0 THEN tens - \h60 ELSE tens
    IN  LowDigit(IF low < 0 THEN low - 6 ELSE low) + HighDigit(high)

\* The flags are those of the binary difference in both modes.
Subtract(m, value) ==
    LET difference == m.A - value - Number("C" \notin m.P)
        A == IF "D" \in m.P THEN DecimalDifference(m, value) ELSE difference % 256
    IN  SetRegister(Put(Put(m, "V", Bit(m.A, 7) # Bit(value, 7) /\ Bit(m.A, 7) # Bit(difference, 7)),
                        "C", difference >= 0), "A", A)

Compare(m, register, value) == PutNZ(Put(m, "C", register >= value), (register - value) % 256)

TestBits(m, value) == Put(Put(Put(m, "Z", (m.A & value) = 0), "N", Bit(value, 7)), "V", Bit(value, 6))

\* What a read-modify-write makes of a value, and the carry it leaves.
Modified(m, op, value) ==
    CASE op = "ASL" -> <<(2 * value) % 256, Bit(value, 7)>>
      [] op = "LSR" -> <<value \div 2, Bit(value, 0)>>
      [] op = "ROL" -> <<(2 * value + Number("C" \in m.P)) % 256, Bit(value, 7)>>
      [] op = "ROR" -> <<value \div 2 + 128 * Number("C" \in m.P), Bit(value, 0)>>
      [] op = "INC" -> <<(value + 1) % 256, "C" \in m.P>>
      [] op = "DEC" -> <<(value - 1) % 256, "C" \in m.P>>

ModifyMemory(m, op, address) ==
    LET result == Modified(m, op, Peek(m, address))
    IN  PutNZ(Put(Poke(m, address, result[1]), "C", result[2]), result[1])

ModifyA(m, op) == LET result == Modified(m, op, m.A)
                  IN  SetRegister(Put(m, "C", result[2]), "A", result[1])

\* A branch over the end of a page takes two more cycles, another taken one one.
Branch(m, taken) ==
    LET offset == Peek(m, m.PC - 1)
        target == m.PC + (IF offset >= 128 THEN offset - 256 ELSE offset)
    IN  IF taken THEN [m EXCEPT !.PC = target % 65536,
                                !.clk = @ + (IF m.PC \div 256 = target \div 256 THEN 1 ELSE 2)]
                 ELSE [m EXCEPT !.PC = @ % 65536]

BranchIf == [BPL |-> <<"N", FALSE>>, BMI |-> <<"N", TRUE>>, BVC |-> <<"V", FALSE>>, BVS |-> <<"V", TRUE>>,
             BCC |-> <<"C", FALSE>>, BCS |-> <<"C", TRUE>>, BNE |-> <<"Z", FALSE>>, BEQ |-> <<"Z", TRUE>>]
FlagOps == [CLC |-> <<"C", FALSE>>, SEC |-> <<"C", TRUE>>, CLI |-> <<"I", FALSE>>, SEI |-> <<"I", TRUE>>,
            CLD |-> <<"D", FALSE>>, SED |-> <<"D", TRUE>>, CLV |-> <<"V", FALSE>>]
Loads == [LDA |-> "A", LDX |-> "X", LDY |-> "Y"]
Stores == [STA |-> "A", STX |-> "X", STY |-> "Y"]
Compares == [CMP |-> "A", CPX |-> "X", CPY |-> "Y"]
Transfers == [TAX |-> <<"A", "X">>, TAY |-> <<"A", "Y">>, TXA |-> <<"X", "A">>,
              TYA |-> <<"Y", "A">>, TSX |-> <<"SP", "X">>]
Counts == [INX |-> <<"X", 1>>, INY |-> <<"Y", 1>>, DEX |-> <<"X", -1>>, DEY |-> <<"Y", -1>>]
OnA == [ASLA |-> "ASL", LSRA |-> "LSR", ROLA |-> "ROL", RORA |-> "ROR"]

Break(m) == LET pushed == Push(PushWord(m, m.PC + 1), Packed(m.P \cup {"B"}))
            IN  [pushed EXCEPT !.P = (@ \ {"D"}) \cup {"I"}, !.PC = PeekWord(pushed, IrqVector)]

\* Mutant: RTS does not step over the last byte of the JSR.
ReturnShort(m) == PopPC(m)

Return(m) == [PopPC(m) EXCEPT !.PC = @ + 1]

ReturnFromInterrupt(m) == PopPC([Popped(m) EXCEPT !.P = Unpacked(Top(m))])

\* PC is behind the instruction.
Effect(m, op, address) ==
    LET value == Peek(m, address)
    IN  CASE op \in DOMAIN Loads -> SetRegister(m, Loads[op], value)
          [] op \in DOMAIN Stores -> Poke(m, address, m[Stores[op]])
          [] op \in DOMAIN Compares -> Compare(m, m[Compares[op]], value)
          [] op \in DOMAIN Transfers -> SetRegister(m, Transfers[op][2], m[Transfers[op][1]])
          [] op = "TXS" -> [m EXCEPT !.SP = m.X]
          [] op \in DOMAIN Counts ->
               SetRegister(m, Counts[op][1], (m[Counts[op][1]] + Counts[op][2]) % 256)
          [] op = "ADC" -> Add(m, value)
          [] op = "SBC" -> Subtract(m, value)
          [] op = "AND" -> SetRegister(m, "A", m.A & value)
          [] op = "ORA" -> SetRegister(m, "A", m.A | value)
          [] op = "EOR" -> SetRegister(m, "A", m.A ^^ value)
          [] op = "BIT" -> TestBits(m, value)
          [] op \in {"ASL", "LSR", "ROL", "ROR", "INC", "DEC"} -> ModifyMemory(m, op, address)
          [] op \in DOMAIN OnA -> ModifyA(m, OnA[op])
          [] op \in DOMAIN BranchIf ->
               Branch(m, (BranchIf[op][1] \in m.P) = BranchIf[op][2])
          [] op \in DOMAIN FlagOps -> Put(m, FlagOps[op][1], FlagOps[op][2])
          [] op = "JMP" -> [m EXCEPT !.PC = address]
          [] op = "JSR" -> [PushWord(m, m.PC - 1) EXCEPT !.PC = address]
          [] op = "RTS" -> Return(m)
          [] op = "BRK" -> Break(m)
          [] op = "RTI" -> ReturnFromInterrupt(m)
          [] op = "PHA" -> Push(m, m.A)
          [] op = "PHP" -> Push(m, Packed(m.P \cup {"B"}))
          [] op = "PLA" -> SetRegister(Popped(m), "A", Top(m))
          [] op = "PLP" -> [Popped(m) EXCEPT !.P = Unpacked(Top(m)) \ {"B"}]
          [] op \in {"WAI", "STP"} -> [m EXCEPT !.wai = TRUE]
          [] op = "NOP" -> m

CpuExecuteOP(m) ==
    LET code == Peek(m, m.PC)
        fetched == [m EXCEPT !.PC = @ + 1]
    IN  IF code \in DOMAIN Skipped
          THEN [m EXCEPT !.PC = @ + Skipped[code][1], !.clk = @ + Skipped[code][2]]
          ELSE LET op == Opcodes[code][1]
                   mode == Opcodes[code][2]
               IN  Effect([fetched EXCEPT !.PC = @ + Size(mode),
                                          !.clk = @ + Opcodes[code][3] + Crossing(fetched, mode)],
                          op, Operand(fetched, mode))
-----------------------------------------------------------------------------
(* Interrupts *)

\* An NMI pushes with mSP-- and no mask; execute() then sets I.
CpuExecuteNMI(m) ==
    LET pushed == Poke(Poke(Poke(m, 256 + m.SP, m.PC \div 256), 255 + m.SP, m.PC % 256),
                       254 + m.SP, Packed(m.P))
    IN  [pushed EXCEPT !.SP = @ - 3, !.PC = PeekWord(pushed, NmiVector), !.clk = @ + 7,
                       !.P = @ \cup {"I"}, !.nmi = FALSE]

CpuExecuteIRQ(m) ==
    LET pushed == Push(PushWord(m, m.PC), Packed(m.P \ {"B"}))
    IN  [pushed EXCEPT !.P = (@ \ {"D"}) \cup {"I"}, !.PC = PeekWord(pushed, IrqVector),
                       !.clk = @ + 7, !.irq = FALSE, !.wai = FALSE]

AfterNmi(m) == IF m.nmi THEN CpuExecuteNMI(m) ELSE m
Interrupted(m) == LET n == AfterNmi(m)
                  IN  IF n.irq /\ "I" \notin n.P THEN CpuExecuteIRQ(n) ELSE n

\* execute(0): pending interrupts are taken, then one instruction executed.  A
\* sleeping CPU lets a cycle pass.
execute(m) == LET n == Interrupted([m EXCEPT !.clk = 0])
              IN  IF n.wai THEN [n EXCEPT !.clk = 1] ELSE CpuExecuteOP(n)
=============================================================================
