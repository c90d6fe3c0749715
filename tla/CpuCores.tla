------------------------------ MODULE CpuCores ------------------------------
(***************************************************************************)
(* The two CPU cores side by side: the same program, the same interrupts.  *)
(* The program is an arbitrary instruction, on operands and registers from *)
(* the edges of their ranges, and whatever the memory holds behind it; the *)
(* handlers of both interrupts and the subroutines it calls only return.   *)
(***************************************************************************)
EXTENDS CpuState

CONSTANTS Start,      \* where the program is
          Operands,   \* operands of the instruction, as words
          Values,     \* values of A, and
          AddValues,  \* its values and the operands of ADC # and SBC #
          Indices,    \* values of X, Y and SP, as triples
          FlagSets,   \* flags that are set
          MaxSteps    \* bound: instructions executed

Handy == INSTANCE HandyCpu
Emux == INSTANCE EmuxCpu

Returns == [address \in {\h600, \h610} |-> \h40]
Vectors == \hfffa :> \h00 @@ \hfffb :> \h06 @@ \hfffe :> \h10 @@ \hffff :> \h06

\* The subroutine a JSR calls, an RTS.
Subroutine(code, operand) == IF code = \h20 THEN operand :> \h60 ELSE <<>>

VARIABLES handy, emux,
          back,   \* history: what the instruction that comes next, if it is the
                  \* return of the call before, should restore
          steps

vars == <<handy, emux, back, steps>>

NoCall == [by |-> -1]

Immediate == {\h69, \he9}

Started(code, operand, A, index, flags) ==
    [A |-> A, X |-> index[1], Y |-> index[2], SP |-> index[3], PC |-> Start, P |-> flags,
     mem |-> (Start :> code) @@ (Start + 1 :> operand % 256) @@ (Start + 2 :> operand \div 256)
             @@ Returns @@ Vectors @@ Subroutine(code, operand),
     irq |-> FALSE, nmi |-> FALSE, clk |-> 0, wai |-> FALSE]

Init == /\ \E code \in 0 .. 255, index \in Indices, flags \in FlagSets :
             \E A \in (IF code \in Immediate THEN AddValues ELSE Values),
                operand \in (IF code \in Immediate THEN AddValues ELSE Operands) :
               handy = Started(code, operand, A, index, flags)
        /\ emux = handy
        /\ back = NoCall /\ steps = 0

Code(m) == Peek(m, m.PC)
Taken(m) == m.nmi \/ (m.irq /\ "I" \notin m.P)

\* What the return of a call should find.
Called(m) == CASE Taken(m) -> NoCall
               [] Code(m) = \h20 -> [by |-> \h60, PC |-> m.PC + 3, SP |-> m.SP, P |-> m.P]
               [] Code(m) = \h00 -> [by |-> \h40, PC |-> m.PC + 2, SP |-> m.SP, P |-> m.P]
               [] OTHER -> NoCall

Execute == /\ steps < MaxSteps
           /\ handy' = Handy!execute(handy)
           /\ emux' = Emux!execute(emux)
           /\ back' = Called(handy)
           /\ steps' = steps + 1

\* set_irq_pending() and set_nmi_pending() of whichever core is in use.
SetIrqPending == /\ ~handy.irq /\ ~emux.irq /\ steps < MaxSteps
                 /\ handy' = [handy EXCEPT !.irq = TRUE]
                 /\ emux' = [emux EXCEPT !.irq = TRUE]
                 /\ UNCHANGED <<back, steps>>
SetNmiPending == /\ ~handy.nmi /\ ~emux.nmi /\ steps < MaxSteps
                 /\ handy' = [handy EXCEPT !.nmi = TRUE]
                 /\ emux' = [emux EXCEPT !.nmi = TRUE]
                 /\ UNCHANGED <<back, steps>>

Next == Execute \/ SetIrqPending \/ SetNmiPending

Spec == Init /\ [][Next]_vars
-----------------------------------------------------------------------------
(* Where the cores differ *)

Same(h, e) == /\ <<h.A, h.X, h.Y, h.SP, h.PC % 65536, h.mem>> = <<e.A, e.X, e.Y, e.SP, e.PC % 65536, e.mem>>
              /\ h.P \ {"B"} = e.P \ {"B"}
              /\ h.irq = e.irq /\ h.nmi = e.nmi

\* The instruction that execute() comes to, as the default core decodes it.
Reached(m) == Handy!Interrupted(m)
Op(m) == LET code == Code(Reached(m)) IN IF code \in DOMAIN Skipped THEN "skipped" ELSE Handy!Opcodes[code][1]
Mode(m) == LET code == Code(Reached(m)) IN IF code \in DOMAIN Skipped THEN "none" ELSE Handy!Opcodes[code][2]
Pointer(m) == LET r == Reached(m) IN Peek(r, r.PC + 1)

\* Only the default core has a decimal mode, and leaves it in an interrupt.
Decimal(m) == /\ "D" \in m.P
              /\ \/ Op(m) \in {"ADC", "SBC", "BRK"}
                 \/ "D" \notin Reached(m).P /\ Op(m) # "RTI"

\* A word in two pages: the high byte is in the next page for the default core,
\* in the same one for the other.
WordInTwoPages(m) == LET pointer == Pointer(m)
                     IN  \/ Mode(m) \in {"ind", "indy", "indy2"} /\ pointer = 255
                         \/ Mode(m) = "indx" /\ (pointer + m.X) % 256 = 255

\* Only the other core takes a pending IRQ at the end of CLI and RTI.
IrqAtOnce(m) == m.irq /\ Op(m) \in {"CLI", "RTI"}

\* An NMI of the default core pushes below page 1 when the stack is at its end,
\* and pushes the B flag that an RTI has pulled.
NmiPushes(m) == m.nmi /\ (m.SP < 2 \/ "B" \in m.P)

Different(m) == Decimal(m) \/ WordInTwoPages(m) \/ IrqAtOnce(m) \/ NmiPushes(m)

\* The other core counts twelfths of what it should for skipped opcodes, two
\* cycles too many for BVS, and one for a store through a pointer and a page.
ClockOff(m) == Op(m) \in {"skipped", "BVS"} \/ (Op(m) = "STA" /\ Mode(m) = "indy")
-----------------------------------------------------------------------------
(* Properties *)

Executed == steps' # steps

\* In equal states both cores do the same to registers, flags and memory, for
\* every opcode and interrupt, and take the same time, but for the differences
\* named above.
CoresAgree ==
    [][Executed /\ Same(handy, emux) /\ ~Different(handy) =>
         /\ Same(handy', emux')
         /\ ~ClockOff(handy) => emux'.clk = 12 * handy'.clk]_vars

\* Addition and subtraction are those of numbers: of bytes, of bytes with a
\* sign for V, and of two decimal digits in decimal mode.
Signed(byte) == IF byte >= 128 THEN byte - 256 ELSE byte
IsDecimal(byte) == LowDigit(byte) <= 9 /\ byte \div 16 <= 9
Decimals(byte) == 10 * (byte \div 16) + LowDigit(byte)

SumOf(code, x, y, c) == IF code = \h69 THEN x + y + c ELSE x - y - (1 - c)
InRange(code, value, bound) == IF code = \h69 THEN value >= bound ELSE value >= 0

RightSum(m, n, code, value) ==
    LET c == Number("C" \in m.P)
        decimal == "D" \in m.P
        sum == IF decimal THEN SumOf(code, Decimals(m.A), Decimals(value), c)
                          ELSE SumOf(code, m.A, value, c)
        signed == SumOf(code, Signed(m.A), Signed(value), c)
        base == IF decimal THEN 100 ELSE 256
    IN  /\ (IF decimal THEN Decimals(n.A) ELSE n.A) = sum % base
        /\ ("C" \in n.P) = InRange(code, sum, base)
        /\ ~decimal => ("V" \in n.P) = (signed \notin -128 .. 127)

ArithmeticRight ==
    [][LET code == Code(handy)
           value == Peek(handy, handy.PC + 1)
       IN  Executed /\ ~Taken(handy) /\ code \in Immediate
             /\ ("D" \in handy.P => IsDecimal(handy.A) /\ IsDecimal(value))
           => RightSum(handy, handy', code, value)]_vars

\* What comes back from a subroutine, a software interrupt or an interrupt
\* finds what it left: where it was, the stack and the flags.  (An interrupt
\* whose handler only returns is over when execute() ends.)
HandlersReturn(m) == \A vector \in {NmiVector, IrqVector} : Peek(m, PeekWord(m, vector)) = \h40
Restored(m, n) == /\ n.PC % 65536 = m.PC % 65536 /\ n.SP = m.SP
                  /\ n.P \ {"B"} = m.P \ {"B"}

Interrupts(m) == Taken(m) /\ HandlersReturn(m)

ReturnsRestore ==
    [][Executed => /\ Interrupts(handy) /\ ~NmiPushes(handy) => Restored(handy, handy')
                   /\ Interrupts(emux) /\ ~(emux.irq /\ emux.nmi) => Restored(emux, emux')
                   /\ ~Taken(handy) /\ back.by = Code(handy) => Restored(back, handy')]_vars
=============================================================================
