------------------------------- MODULE CpuLoop -------------------------------
(***************************************************************************)
(* The emulator's main loop, cpu_run3() of src/src/cpu_loop_new.cpp, with  *)
(* the interrupt logic of the default CPU (cpu.cpp, ansi/w65c02op.cpp) and *)
(* the interrupt vectors of the RTC (iv_uart.cpp).  One iteration takes a  *)
(* command, executes a batch of guest instructions, and raises the         *)
(* interrupts whose time has come.  Keys and commands arrive in between;   *)
(* commands come from other threads.                                       *)
(*                                                                         *)
(* The guest's program is not modelled: an instruction is any of those     *)
(* that touch the interrupt logic, or one that does not ("other").  WAI    *)
(* and STP are among the others: both tables of illegal opcodes skip them, *)
(* so that g_wai stays FALSE.  With Disciplined the guest follows the      *)
(* rules of an ordinary operating system (see Allowed).                    *)
(***************************************************************************)
EXTENDS Integers, Sequences

CONSTANTS Quarter,      \* 1/256 s ticks of a quarter of a second, 64 in the code
          Vectors,      \* interrupt vectors in use, of 2HZ, SAMPLE and ALARM
          Sources,      \* timer interrupts, as bits of the status register 0x01
          Instructions, \* kinds of instruction the guest uses
          Disciplined,  \* TRUE iff the guest is an orderly operating system
          CommandKinds, \* kinds of command that arrive
          MaxBatch,     \* bound: instructions of one batch
          MaxTicks,     \* bound: 1/256 s ticks of one iteration
          MaxFrames,    \* bound: depth of interrupts and software interrupts;
                        \* older ones are forgotten, as when the stack wraps
          MaxCommands   \* bound: commands waiting

InstructionKinds == {"other", "SEI", "CLI", "BRK", "RTI", "status", "ack",
                     "rcr0", "clk_off", "clk_on", "nmi_mask"}
AllCommands == {"gated", "plain", "warm_reset", "cold_reset"}

ASSUME LoopAssumption == /\ Quarter \in Nat \ {0}
                         /\ Vectors \subseteq {"2HZ", "SAMPLE", "ALARM"}
                         /\ Instructions \subseteq InstructionKinds
                         /\ Disciplined \in BOOLEAN
                         /\ CommandKinds \subseteq AllCommands
                         /\ MaxBatch \in Nat \ {0} /\ MaxTicks \in Nat
                         /\ MaxFrames \in Nat \ {0} /\ MaxCommands \in Nat

VARIABLES g_irq, g_nmi, mI,
          frames,        \* what interrupts have pushed, innermost first
          clk_off,       \* register 0x05 selects clock 7, "off"
          int_status,    \* register 0x01
          nmi_masked,    \* bit 4 of inner_interrupt_control
          RCR0,          \* vectors the guest has enabled
          iv_set, TR_ms,
          do_warm_reset, udp_msgs,
          at, left, due, \* where cpu_run3() is; instructions and ticks to go
          fresh          \* history: no instruction since a reset

cpuVars == <<g_irq, g_nmi, mI, frames>>
ioVars == <<clk_off, int_status, nmi_masked, RCR0>>
rtcVars == <<iv_set, TR_ms>>
loopVars == <<do_warm_reset, udp_msgs, at, left, due>>
vars == <<cpuVars, ioVars, rtcVars, loopVars, fresh>>
-----------------------------------------------------------------------------
(* Resets *)

\* CpuInitialize(): nothing pending, I set.
CpuInitialize == /\ g_irq' = FALSE /\ g_nmi' = FALSE
                 /\ mI' = TRUE
                 /\ frames' = <<>>
                 /\ fresh' = TRUE

\* Mutant: a warm reset clears the pending vectors, as a cold one does.
WarmResetClearsIv == /\ clk_off' = FALSE
                     /\ iv_set' = {}
                     /\ UNCHANGED <<int_status, nmi_masked, RCR0, TR_ms>>
                     /\ CpuInitialize

\* The vectors stay pending, or an alarm would not wake the machine.
WarmReset == /\ clk_off' = FALSE
             /\ UNCHANGED <<int_status, nmi_masked, RCR0, iv_set, TR_ms>>
             /\ CpuInitialize

ColdReset == /\ clk_off' = FALSE /\ int_status' = {} /\ nmi_masked' = FALSE /\ RCR0' = {}
             /\ iv_set' = {}
             /\ UNCHANGED TR_ms
             /\ CpuInitialize

Init == /\ g_irq = FALSE /\ g_nmi = FALSE
        /\ mI = TRUE /\ frames = <<>>
        /\ clk_off = FALSE /\ int_status = {} /\ nmi_masked = FALSE /\ RCR0 = {}
        /\ iv_set = {} /\ TR_ms = 0
        /\ do_warm_reset = FALSE /\ udp_msgs = <<>>
        /\ at = "top" /\ left = 0 /\ due = 0
        /\ fresh = TRUE
-----------------------------------------------------------------------------
(* The start of cpu_run3(): a pending warm reset, then a command *)

\* A file transfer waits until the guest's I flag is clear; other commands do
\* not.  get_message() throws away the commands behind the one it takes.
Handled(disabled) == /\ udp_msgs # <<>>
                     /\ ~(Head(udp_msgs) = "gated" /\ disabled)

StartLoop ==
    LET handled == Handled(mI \/ do_warm_reset)
        command == IF handled THEN Head(udp_msgs) ELSE "none"
    IN  /\ at = "top" /\ at' = "execute"
        /\ do_warm_reset' = FALSE
        /\ udp_msgs' = IF handled THEN <<>> ELSE udp_msgs
        /\ CASE command = "cold_reset" -> ColdReset
             [] command # "cold_reset" /\ (do_warm_reset \/ command = "warm_reset") -> WarmReset
             [] OTHER -> UNCHANGED <<cpuVars, ioVars, rtcVars, fresh>>
        /\ UNCHANGED <<left, due>>
-----------------------------------------------------------------------------
(* CPUInterface::execute() *)

\* The status an interrupt pushes, and the stack with it.
Frame(kind) == [kind |-> kind, I |-> mI]
Push(frame) == <<frame>> \o SubSeq(frames, 1, IF Len(frames) < MaxFrames THEN Len(frames) ELSE MaxFrames - 1)

\* Mutant: the handler of an NMI runs with I as it was.
StartBatchKeepsI ==
    /\ at = "execute" /\ ~clk_off
    /\ at' = "batch" /\ left' \in 1 .. MaxBatch
    /\ g_nmi' = FALSE /\ UNCHANGED mI
    /\ frames' = IF g_nmi THEN Push(Frame("nmi")) ELSE frames
    /\ UNCHANGED <<g_irq, ioVars, rtcVars, do_warm_reset, udp_msgs, due, fresh>>

\* A pending NMI is taken first.  Its handler runs with I set.
StartBatch ==
    /\ at = "execute" /\ ~clk_off
    /\ at' = "batch" /\ left' \in 1 .. MaxBatch
    /\ IF g_nmi THEN /\ g_nmi' = FALSE /\ mI' = TRUE
                     /\ frames' = Push(Frame("nmi"))
                ELSE UNCHANGED <<g_nmi, mI, frames>>
    /\ UNCHANGED <<g_irq, ioVars, rtcVars, do_warm_reset, udp_msgs, due, fresh>>

\* With the clock off time passes and nothing is executed.
SkipBatch == /\ at = "execute" /\ clk_off
             /\ at' = "batch" /\ left' = 0
             /\ UNCHANGED <<cpuVars, ioVars, rtcVars, do_warm_reset, udp_msgs, due, fresh>>

InBatch == at = "batch" /\ left > 0
IrqTaken == g_irq /\ ~mI

TakeIrq == /\ InBatch /\ IrqTaken
           /\ g_irq' = FALSE
           /\ frames' = Push(Frame("irq"))
           /\ mI' = TRUE
           /\ UNCHANGED <<g_nmi, ioVars, rtcVars, loopVars, fresh>>
-----------------------------------------------------------------------------
(* Instructions.  Each says what it changes; Execute adds the rest. *)

noFlags == UNCHANGED <<mI, frames>>
noIo == UNCHANGED <<ioVars, iv_set>>

SetI(value) == mI' = value /\ UNCHANGED frames /\ noIo

\* The guest's calls to its own operating system.
SoftwareInterrupt == /\ frames' = Push(Frame("brk"))
                     /\ mI' = TRUE
                     /\ noIo

\* RTI pulls what the innermost frame holds; past the last one, anything.
ReturnFromInterrupt ==
    /\ mI' \in (IF frames = <<>> THEN BOOLEAN ELSE {Head(frames).I})
    /\ frames' = IF frames = <<>> THEN <<>> ELSE Tail(frames)
    /\ noIo

\* How far the handler of an orderly guest has come: "irq", then "read", then
\* "served".
HandlerReaches(stage) == frames' = IF Disciplined THEN [frames EXCEPT ![1].kind = stage] ELSE frames

\* Reading 0x01 clears it.
ReadIntStatus == /\ int_status' = {}
                 /\ HandlerReaches("read")
                 /\ UNCHANGED <<mI, clk_off, nmi_masked, RCR0, iv_set>>
write_rcr1(vectors) == /\ iv_set' = iv_set \ vectors
                       /\ HandlerReaches("served")
                       /\ UNCHANGED <<mI, ioVars>>
write_rcr0(vectors) == RCR0' = vectors /\ noFlags
                       /\ UNCHANGED <<clk_off, int_status, nmi_masked, iv_set>>
WriteClockCtrl(off) == clk_off' = off /\ noFlags
                       /\ UNCHANGED <<int_status, nmi_masked, RCR0, iv_set>>
WriteIntControl(masked) == nmi_masked' = masked /\ noFlags
                           /\ UNCHANGED <<clk_off, int_status, RCR0, iv_set>>

InHandler(kind) == frames # <<>> /\ Head(frames).kind = kind
InMain == frames = <<>>

\* What an orderly guest does next.  Its interrupt handler reads the status,
\* acknowledges the pending vectors and returns, with interrupts disabled
\* throughout.  Its main program enables interrupts first, and turns the clock
\* off only when no vector is pending.
Allowed(kind) ==
    \/ ~Disciplined
    \/ kind = "other"
    \/ InHandler("irq") /\ kind = "status"
    \/ InHandler("read") /\ kind = "ack"
    \/ (InHandler("served") \/ InHandler("nmi") \/ InHandler("brk")) /\ kind = "RTI"
    \/ /\ InMain
       /\ \/ kind = "CLI"
          \/ kind \in {"rcr0", "nmi_mask", "BRK"} /\ ~mI
          \/ kind = "clk_off" /\ ~mI /\ iv_set = {}

Acknowledgements == IF Disciplined THEN {iv_set} ELSE SUBSET Vectors

Effect(kind) ==
    \/ kind = "other" /\ noFlags /\ noIo
    \/ kind = "SEI" /\ SetI(TRUE)
    \/ kind = "CLI" /\ SetI(FALSE)
    \/ kind = "BRK" /\ SoftwareInterrupt
    \/ kind = "RTI" /\ ReturnFromInterrupt
    \/ kind = "status" /\ ReadIntStatus
    \/ kind = "ack" /\ \E vectors \in Acknowledgements : write_rcr1(vectors)
    \/ kind = "rcr0" /\ \E vectors \in SUBSET Vectors : write_rcr0(vectors)
    \/ kind = "clk_off" /\ WriteClockCtrl(TRUE)
    \/ kind = "clk_on" /\ WriteClockCtrl(FALSE)
    \/ kind = "nmi_mask" /\ \E masked \in BOOLEAN : WriteIntControl(masked)

Execute(kind) ==
    /\ InBatch /\ ~IrqTaken
    /\ Allowed(kind) /\ Effect(kind)
    /\ left' = left - 1
    /\ fresh' = FALSE
    /\ UNCHANGED <<g_irq, g_nmi, TR_ms, do_warm_reset, udp_msgs, at, due>>
-----------------------------------------------------------------------------
(* The rest of cpu_run3(): timers and the 1/256 s ticks *)

\* Bound: the NMI handler of an orderly guest takes less than a tick.
TicksDue == IF Disciplined /\ \E i \in DOMAIN frames : frames[i].kind = "nmi"
              THEN {0} ELSE 0 .. MaxTicks

\* Mutant: an interrupt raised while I is set is forgotten.
RaiseTimersMasked ==
    /\ at = "batch" /\ left = 0
    /\ \E raised \in SUBSET Sources :
         /\ int_status' = int_status \cup raised
         /\ g_irq' = (g_irq \/ (raised # {} /\ ~mI))
    /\ due' \in TicksDue
    /\ at' = "tick"
    /\ UNCHANGED <<g_nmi, mI, frames, clk_off, nmi_masked, RCR0, rtcVars,
                   do_warm_reset, udp_msgs, left, fresh>>

\* Timers 0 and 1 and the time base run whether or not the clock is off.
RaiseTimers ==
    /\ at = "batch" /\ left = 0
    /\ \E raised \in SUBSET Sources :
         /\ int_status' = int_status \cup raised
         /\ g_irq' = (g_irq \/ raised # {})
    /\ due' \in TicksDue
    /\ at' = "tick"
    /\ UNCHANGED <<g_nmi, mI, frames, clk_off, nmi_masked, RCR0, rtcVars,
                   do_warm_reset, udp_msgs, left, fresh>>

\* Mutant: nothing wakes a machine whose clock is off.
warm_reset_never(pending) == UNCHANGED do_warm_reset

\* Mutant: any pending vector resets the machine.
warm_reset_always(pending) == do_warm_reset' = (do_warm_reset \/ pending)

warm_reset_if_clkoff(pending) == do_warm_reset' = (do_warm_reset \/ (pending /\ clk_off))

\* The vectors a tick raises: 2HZ every half second, ALARM on a full second
\* if the alarm time has come, SAMPLE at its own rate.
Raised(ms, alarm, sample) ==
    RCR0 \cap ( (IF ms % (2 * Quarter) = 0 THEN {"2HZ"} ELSE {})
                \cup (IF ms = 0 /\ alarm THEN {"ALARM"} ELSE {})
                \cup (IF sample THEN {"SAMPLE"} ELSE {}) )

Tick ==
    /\ at = "tick" /\ due > 0
    /\ TR_ms' = (TR_ms + 1) % (4 * Quarter)
    /\ \E alarm, sample \in BOOLEAN : iv_set' = iv_set \cup Raised(TR_ms', alarm, sample)
    /\ g_nmi' = (g_nmi \/ (TR_ms' % (2 * Quarter) = Quarter /\ ~nmi_masked))
    /\ g_irq' = (g_irq \/ iv_set' # {})
    /\ warm_reset_if_clkoff(iv_set' # {})
    /\ due' = due - 1
    /\ UNCHANGED <<mI, frames, ioVars, udp_msgs, at, left, fresh>>

EndLoop == /\ at = "tick" /\ due = 0
           /\ at' = "top"
           /\ UNCHANGED <<cpuVars, ioVars, rtcVars, do_warm_reset, udp_msgs, left, due, fresh>>
-----------------------------------------------------------------------------
(* Between two iterations: keys; at any time: commands *)

\* A key of the first columns, or on/off.
SetKeyWayback == /\ at = "top"
                 /\ warm_reset_if_clkoff(TRUE)
                 /\ UNCHANGED <<cpuVars, ioVars, rtcVars, udp_msgs, at, left, due, fresh>>

\* Shift, Ctrl and F12.
KeyColdReset == /\ at = "top"
                /\ ColdReset
                /\ UNCHANGED loopVars

push_message == /\ Len(udp_msgs) < MaxCommands
                /\ \E kind \in CommandKinds : udp_msgs' = Append(udp_msgs, kind)
                /\ UNCHANGED <<cpuVars, ioVars, rtcVars, do_warm_reset, at, left, due, fresh>>

Loop == \/ StartLoop \/ StartBatch \/ SkipBatch \/ TakeIrq
        \/ \E kind \in Instructions : Execute(kind)
        \/ RaiseTimers \/ Tick \/ EndLoop
User == SetKeyWayback \/ KeyColdReset \/ push_message
Next == Loop \/ User

Spec == Init /\ [][Next]_vars

\* RunTimeSlice() calls cpu_run3() for ever; every iteration advances the cycle
\* counter, so ticks keep coming.
LoopFairness == WF_vars(Loop) /\ SF_vars(RaiseTimers /\ due' > 0)

\* An orderly guest gets to the end of each handler.
GuestFairness == /\ \A kind \in {"CLI", "status", "ack"} : SF_vars(Execute(kind))
                 /\ \A handler \in {"served", "nmi", "brk"} :
                      SF_vars(InHandler(handler) /\ Execute("RTI"))

LiveSpec == Spec /\ LoopFairness /\ GuestFairness
-----------------------------------------------------------------------------
(* Properties *)

TypeOK == /\ {g_irq, g_nmi, mI} \subseteq BOOLEAN
          /\ frames \in Seq([kind : {"irq", "read", "served", "nmi", "brk"}, I : BOOLEAN])
          /\ {clk_off, nmi_masked} \subseteq BOOLEAN
          /\ int_status \subseteq Sources
          /\ RCR0 \subseteq Vectors /\ iv_set \subseteq Vectors
          /\ TR_ms \in 0 .. 4 * Quarter - 1
          /\ do_warm_reset \in BOOLEAN /\ udp_msgs \in Seq(CommandKinds)
          /\ at \in {"top", "execute", "batch", "tick"}
          /\ left \in 0 .. MaxBatch /\ due \in 0 .. MaxTicks
          /\ fresh \in BOOLEAN

\* A key or an alarm asks for a warm reset only to wake a machine whose clock
\* is off; by the time the request is carried out the clock may be on again,
\* but then no instruction has been executed since another reset, so no
\* running program is ever thrown away.
WakeIsSafe == do_warm_reset => clk_off \/ fresh

\* A pending vector goes away only by the guest's acknowledgement, or by a
\* cold reset, which disables them all: not by the warm reset that wakes the
\* machine for it.
VectorsKept == [][iv_set \subseteq iv_set' \/ InBatch \/ (fresh' /\ RCR0' = {})]_vars

\* A timer interrupt is signalled when its status bit comes with a pending IRQ
\* or with a handler that has yet to read the status.  With an orderly guest it
\* stays signalled until the guest reads the status or the machine is reset,
\* whatever interrupts nest in between.
Signalled == int_status # {} => g_irq \/ \E i \in DOMAIN frames : frames[i].kind = "irq"
StatusSignalled == [][Signalled => Signalled' \/ fresh']_vars

\* Every vector raised reaches the guest and is acknowledged, through clock
\* off, the warm reset that wakes it, and the RTC ticks that raise the IRQ again.
VectorsServed == \A vector \in Vectors : vector \in iv_set ~> vector \notin iv_set

\* A file transfer puts a program of its own in the place of the guest's, and
\* the only check is that I is clear.  With an orderly guest that is enough:
\* no handler and no system call is ever interrupted by a transfer, and none
\* starts on a machine that has not run since it was reset.
TransfersInterruptNothing ==
    [][udp_msgs # <<>> /\ Head(udp_msgs) = "gated" /\ udp_msgs' = <<>> => InMain /\ ~fresh']_vars
=============================================================================
