--------------------------- MODULE CpuLoopProofs ---------------------------
(***************************************************************************)
(* Proofs about the main loop, for any bounds on batches, ticks, frames    *)
(* and commands, any timer sources and any set of instructions: a warm     *)
(* reset never throws a running program away, no pending vector is         *)
(* dropped, no timer interrupt is lost to an orderly guest, and no file    *)
(* transfer starts inside one of its handlers.                             *)
(***************************************************************************)
EXTENDS CpuLoop, TLAPS

-----------------------------------------------------------------------------
(* Any guest *)

\* The inductive strengthening of WakeIsSafe: the request is taken down at the
\* start of an iteration and raised only by the ticks at its end.
RequestsAtTheEnd == /\ WakeIsSafe
                    /\ at \in {"top", "execute", "batch", "tick"}
                    /\ at \in {"execute", "batch"} => ~do_warm_reset

\* A key or an alarm never throws a running program away.
THEOREM WakeAlwaysSafe == Spec => []WakeIsSafe
<1>1. Init => RequestsAtTheEnd
  BY DEF Init, RequestsAtTheEnd, WakeIsSafe
<1>2. RequestsAtTheEnd /\ [Next]_vars => RequestsAtTheEnd'
  <2> SUFFICES ASSUME RequestsAtTheEnd, [Next]_vars PROVE RequestsAtTheEnd'
    OBVIOUS
  <2> USE DEF RequestsAtTheEnd, WakeIsSafe
  <2>1. CASE StartLoop
    BY <2>1 DEF StartLoop
  <2>2. CASE StartBatch
    BY <2>2 DEF StartBatch, ioVars
  <2>3. CASE SkipBatch
    BY <2>3 DEF SkipBatch, ioVars
  <2>4. CASE TakeIrq
    BY <2>4 DEF TakeIrq, ioVars, loopVars
  <2>6. ASSUME NEW kind \in Instructions, Execute(kind) PROVE RequestsAtTheEnd'
    BY <2>6 DEF Execute, InBatch
  <2>7. CASE RaiseTimers
    BY <2>7 DEF RaiseTimers
  <2>8. CASE Tick
    BY <2>8 DEF Tick, warm_reset_if_clkoff, ioVars
  <2>9. CASE EndLoop
    BY <2>9 DEF EndLoop, ioVars
  <2>10. CASE SetKeyWayback
    BY <2>10 DEF SetKeyWayback, warm_reset_if_clkoff, ioVars
  <2>11. CASE KeyColdReset
    BY <2>11 DEF KeyColdReset, ColdReset, CpuInitialize, loopVars
  <2>12. CASE push_message
    BY <2>12 DEF push_message, ioVars
  <2>13. CASE UNCHANGED vars
    BY <2>13 DEF vars, ioVars, loopVars
  <2> QED BY <2>1, <2>2, <2>3, <2>4, <2>6, <2>7, <2>8, <2>9, <2>10, <2>11, <2>12, <2>13
          DEF Next, Loop, User
<1>3. RequestsAtTheEnd => WakeIsSafe
  BY DEF RequestsAtTheEnd
<1> QED BY <1>1, <1>2, <1>3, PTL DEF Spec

LEMMA ResetsAreFresh == WarmReset \/ ColdReset => fresh'
BY DEF WarmReset, ColdReset, CpuInitialize

\* An instruction is executed, and so a vector acknowledged, only inside a
\* batch; of all else only a cold reset drops a pending vector.
THEOREM PendingVectorsKept == Spec => VectorsKept
<1>1. ASSUME [Next]_vars PROVE iv_set \subseteq iv_set' \/ InBatch \/ (fresh' /\ RCR0' = {})
  <2> USE <1>1
  <2>1. CASE StartLoop
    <3>1. CASE ColdReset
      BY <3>1 DEF ColdReset, CpuInitialize
    <3>2. CASE WarmReset
      BY <3>2 DEF WarmReset
    <3>3. CASE UNCHANGED rtcVars
      BY <3>3 DEF rtcVars
    <3> QED BY <2>1, <3>1, <3>2, <3>3 DEF StartLoop
  <2>2. CASE StartBatch \/ SkipBatch \/ RaiseTimers \/ EndLoop \/ SetKeyWayback \/ push_message
    BY <2>2 DEF StartBatch, SkipBatch, RaiseTimers, EndLoop, SetKeyWayback, push_message, rtcVars
  <2>3. CASE TakeIrq \/ \E kind \in Instructions : Execute(kind)
    BY <2>3 DEF TakeIrq, Execute
  <2>4. CASE Tick
    BY <2>4 DEF Tick
  <2>5. CASE KeyColdReset
    BY <2>5 DEF KeyColdReset, ColdReset, CpuInitialize
  <2>6. CASE UNCHANGED vars
    BY <2>6 DEF vars, rtcVars
  <2> QED BY <2>1, <2>2, <2>3, <2>4, <2>5, <2>6 DEF Next, Loop, User
<1> QED BY <1>1, PTL DEF Spec, VectorsKept

-----------------------------------------------------------------------------
(* Types *)

FrameType == [kind : {"irq", "read", "served", "nmi", "brk"}, I : BOOLEAN]

\* What an instruction may touch keeps its type.
GuestTypes == /\ mI \in BOOLEAN
              /\ frames \in Seq(FrameType)
              /\ clk_off \in BOOLEAN /\ nmi_masked \in BOOLEAN
              /\ int_status \subseteq Sources
              /\ RCR0 \subseteq Vectors /\ iv_set \subseteq Vectors

LEMMA PushTypes ==
    ASSUME frames \in Seq(FrameType), NEW frame \in FrameType
    PROVE  Push(frame) \in Seq(FrameType)
<1> DEFINE n == IF Len(frames) < MaxFrames THEN Len(frames) ELSE MaxFrames - 1
<1>1. n \in Nat /\ n <= Len(frames)
  BY LoopAssumption
<1>2. SubSeq(frames, 1, n) \in Seq(FrameType)
  BY <1>1
<1> QED BY <1>2 DEF Push

LEMMA HandlerTypes ==
    ASSUME frames \in Seq(FrameType), Disciplined => frames # <<>>,
           NEW stage \in {"read", "served"}, HandlerReaches(stage)
    PROVE  frames' \in Seq(FrameType)
<1>1. CASE ~Disciplined
  BY <1>1 DEF HandlerReaches
<1>2. CASE Disciplined
  <2>1. frames[1] \in FrameType /\ frames' = [frames EXCEPT ![1].kind = stage]
    BY <1>2 DEF HandlerReaches
  <2>2. [frames[1] EXCEPT !.kind = stage] \in FrameType
    BY <2>1 DEF FrameType
  <2>3. frames' = [frames EXCEPT ![1] = [frames[1] EXCEPT !.kind = stage]]
    BY <2>1
  <2>4. frames \in [1 .. Len(frames) -> FrameType] /\ Len(frames) \in Nat
    OBVIOUS
  <2>5. frames' \in [1 .. Len(frames) -> FrameType]
    BY <2>2, <2>3, <2>4
  <2> QED BY <2>4, <2>5
<1> QED BY <1>1, <1>2

LEMMA EffectTypes ==
    ASSUME GuestTypes, NEW kind, Allowed(kind), Effect(kind)
    PROVE  GuestTypes'
<1> USE DEF GuestTypes, noFlags, noIo, ioVars
<1>1. CASE kind = "other" /\ noFlags /\ noIo
  BY <1>1
<1>2. ASSUME NEW value \in BOOLEAN, SetI(value) PROVE GuestTypes'
  BY <1>2 DEF SetI
<1>4. CASE SoftwareInterrupt
  <2>1. Frame("brk") \in FrameType
    BY DEF Frame, FrameType
  <2> QED BY <1>4, <2>1, PushTypes DEF SoftwareInterrupt
<1>5. CASE ReturnFromInterrupt
  <2>1. CASE frames = <<>>
    BY <1>5, <2>1 DEF ReturnFromInterrupt
  <2>2. CASE frames # <<>>
    <3>1. Head(frames) \in FrameType /\ Tail(frames) \in Seq(FrameType)
      BY <2>2
    <3>2. mI' \in BOOLEAN
      BY <1>5, <2>2, <3>1 DEF ReturnFromInterrupt, FrameType
    <3> QED BY <1>5, <2>2, <3>1, <3>2 DEF ReturnFromInterrupt
  <2> QED BY <2>1, <2>2
<1>6. CASE kind = "status" /\ ReadIntStatus
  <2>1. Disciplined => frames # <<>>
    BY <1>6 DEF Allowed, InHandler, InMain
  <2> QED BY <1>6, <2>1, HandlerTypes DEF ReadIntStatus
<1>7. CASE kind = "ack" /\ \E vectors \in Acknowledgements : write_rcr1(vectors)
  <2>1. Disciplined => frames # <<>>
    BY <1>7 DEF Allowed, InHandler, InMain
  <2> QED BY <1>7, <2>1, HandlerTypes DEF write_rcr1
<1>8. CASE \E vectors \in SUBSET Vectors : write_rcr0(vectors)
  BY <1>8 DEF write_rcr0
<1>9. ASSUME NEW off \in BOOLEAN, WriteClockCtrl(off) PROVE GuestTypes'
  BY <1>9 DEF WriteClockCtrl
<1>10. CASE \E masked \in BOOLEAN : WriteIntControl(masked)
  BY <1>10 DEF WriteIntControl
<1> QED BY <1>1, <1>2, <1>4, <1>5, <1>6, <1>7, <1>8, <1>9, <1>10 DEF Effect

\* The whole of TypeOK in the provers' form.
AllTypes == /\ GuestTypes
            /\ g_irq \in BOOLEAN /\ g_nmi \in BOOLEAN
            /\ TR_ms \in 0 .. 4 * Quarter - 1
            /\ do_warm_reset \in BOOLEAN /\ udp_msgs \in Seq(CommandKinds)
            /\ at \in {"top", "execute", "batch", "tick"}
            /\ left \in 0 .. MaxBatch /\ due \in 0 .. MaxTicks
            /\ fresh \in BOOLEAN

LEMMA ResetTypes ==
    ASSUME AllTypes, WarmReset \/ ColdReset
    PROVE  /\ GuestTypes' /\ fresh' \in BOOLEAN
           /\ g_irq' \in BOOLEAN /\ g_nmi' \in BOOLEAN
           /\ TR_ms' \in 0 .. 4 * Quarter - 1
<1>1. <<>> \in Seq(FrameType)
  OBVIOUS
<1> QED BY <1>1 DEF AllTypes, GuestTypes, WarmReset, ColdReset, CpuInitialize

LEMMA TypesKept == (Init => AllTypes) /\ (AllTypes /\ [Next]_vars => AllTypes')
<1>1. Init => AllTypes
  <2>1. <<>> \in Seq(FrameType) /\ <<>> \in Seq(CommandKinds)
    OBVIOUS
  <2>2. 0 \in 0 .. 4 * Quarter - 1 /\ 0 \in 0 .. MaxBatch /\ 0 \in 0 .. MaxTicks
    BY LoopAssumption
  <2> QED BY <2>1, <2>2 DEF Init, AllTypes, GuestTypes
<1>2. AllTypes /\ [Next]_vars => AllTypes'
  <2> SUFFICES ASSUME AllTypes, [Next]_vars PROVE AllTypes'
    OBVIOUS
  <2> USE DEF AllTypes
  <2>1. CASE StartLoop
    <3>1. udp_msgs' \in Seq(CommandKinds)
      BY <2>1 DEF StartLoop
    <3>2. CASE WarmReset \/ ColdReset
      BY <2>1, <3>1, <3>2, ResetTypes DEF StartLoop
    <3>3. CASE UNCHANGED <<cpuVars, ioVars, rtcVars, fresh>>
      BY <2>1, <3>1, <3>3 DEF StartLoop, GuestTypes, cpuVars, ioVars, rtcVars
    <3> QED BY <2>1, <3>2, <3>3 DEF StartLoop
  <2>2. CASE StartBatch
    <3>1. Frame("nmi") \in FrameType
      BY DEF Frame, FrameType, GuestTypes
    <3>2. frames' \in Seq(FrameType) /\ g_nmi' \in BOOLEAN /\ mI' \in BOOLEAN
      BY <2>2, <3>1, PushTypes DEF StartBatch, GuestTypes
    <3> QED BY <2>2, <3>2 DEF StartBatch, GuestTypes, ioVars, rtcVars
  <2>3. CASE SkipBatch
    BY <2>3, LoopAssumption DEF SkipBatch, GuestTypes, cpuVars, ioVars, rtcVars
  <2>4. CASE TakeIrq
    <3>1. Frame("irq") \in FrameType
      BY DEF Frame, FrameType, GuestTypes
    <3> QED BY <2>4, <3>1, PushTypes DEF TakeIrq, GuestTypes, ioVars, rtcVars, loopVars
  <2>6. ASSUME NEW kind \in Instructions, Execute(kind) PROVE AllTypes'
    <3>1. GuestTypes'
      BY <2>6, EffectTypes DEF Execute
    <3>2. left' \in 0 .. MaxBatch
      BY <2>6, LoopAssumption DEF Execute, InBatch
    <3> QED BY <2>6, <3>1, <3>2 DEF Execute
  <2>7. CASE RaiseTimers
    <3>1. PICK raised \in SUBSET Sources : /\ int_status' = int_status \cup raised
                                           /\ g_irq' = (g_irq \/ raised # {})
      BY <2>7 DEF RaiseTimers
    <3>2. due' \in 0 .. MaxTicks
      BY <2>7, LoopAssumption DEF RaiseTimers, TicksDue
    <3> QED BY <2>7, <3>1, <3>2 DEF RaiseTimers, GuestTypes, rtcVars
  <2>8. CASE Tick
    <3>1. TR_ms' \in 0 .. 4 * Quarter - 1
      BY <2>8, LoopAssumption DEF Tick
    <3>2. iv_set' \subseteq Vectors
      BY <2>8 DEF Tick, Raised, GuestTypes
    <3>3. due' \in 0 .. MaxTicks
      BY <2>8, LoopAssumption DEF Tick
    <3>4. do_warm_reset' \in BOOLEAN /\ g_nmi' \in BOOLEAN /\ g_irq' \in BOOLEAN
      BY <2>8 DEF Tick, warm_reset_if_clkoff, GuestTypes
    <3> QED BY <2>8, <3>1, <3>2, <3>3, <3>4 DEF Tick, GuestTypes, ioVars
  <2>9. CASE EndLoop
    BY <2>9 DEF EndLoop, GuestTypes, cpuVars, ioVars, rtcVars
  <2>10. CASE SetKeyWayback
    BY <2>10 DEF SetKeyWayback, warm_reset_if_clkoff, GuestTypes, cpuVars, ioVars, rtcVars
  <2>11. CASE KeyColdReset
    BY <2>11, ResetTypes DEF KeyColdReset, loopVars
  <2>12. CASE push_message
    <3>1. udp_msgs' \in Seq(CommandKinds)
      BY <2>12 DEF push_message
    <3> QED BY <2>12, <3>1 DEF push_message, GuestTypes, cpuVars, ioVars, rtcVars
  <2>13. CASE UNCHANGED vars
    BY <2>13 DEF vars, GuestTypes, cpuVars, ioVars, rtcVars, loopVars
  <2> QED BY <2>1, <2>2, <2>3, <2>4, <2>6, <2>7, <2>8, <2>9, <2>10, <2>11, <2>12, <2>13
          DEF Next, Loop, User
<1> QED BY <1>1, <1>2

\* Every variable keeps its type; the frames stay a stack of what interrupts
\* and software interrupts push, and the RTC's counter wraps.
THEOREM LoopTypeCorrect == Spec => []TypeOK
<1>1. AllTypes => TypeOK
  BY DEF AllTypes, GuestTypes, TypeOK, FrameType
<1> QED BY <1>1, TypesKept, PTL DEF Spec

-----------------------------------------------------------------------------
(* An orderly guest *)

\* The inductive strengthening behind StatusSignalled.  Handlers run with I
\* set, so that an NMI is the only interrupt that finds a frame on the stack,
\* and it is on top; while its handler runs no other is pending.  The stack
\* never needs more than two frames.
Nesting ==
    /\ Len(frames) <= 2
    /\ frames # <<>> => mI
    /\ \A i \in 1 .. Len(frames) : frames[i].kind = "nmi" => i = 1
    /\ Len(frames) = 2 => frames[1].kind = "nmi" /\ frames[1].I
    /\ InHandler("nmi") => ~g_nmi /\ (at = "tick" => due = 0)

OrderlyInv == AllTypes /\ Nesting

\* With room for two frames nothing is forgotten.
LEMMA PushKeeps ==
    ASSUME frames \in Seq(FrameType), Len(frames) <= 1, MaxFrames >= 2, NEW frame
    PROVE  /\ Push(frame) = <<frame>> \o frames
           /\ Len(Push(frame)) = Len(frames) + 1
           /\ Push(frame)[1] = frame
           /\ \A i \in 1 .. Len(frames) : Push(frame)[i + 1] = frames[i]
<1>1. SubSeq(frames, 1, Len(frames)) = frames
  OBVIOUS
<1>2. Len(frames) < MaxFrames
  BY LoopAssumption
<1>3. Push(frame) = <<frame>> \o frames
  BY <1>1, <1>2 DEF Push
<1> QED BY <1>3

\* Between two instructions.
LEMMA ExecuteNests ==
    ASSUME Disciplined, MaxFrames >= 2, OrderlyInv, NEW kind \in Instructions, Execute(kind)
    PROVE  Nesting' /\ (Signalled => Signalled')
<1> USE DEF OrderlyInv, noFlags, noIo, ioVars
<1>1. /\ Allowed(kind) /\ Effect(kind) /\ UNCHANGED <<g_irq, g_nmi, at, due>>
      /\ frames \in Seq(FrameType) /\ mI \in BOOLEAN /\ at = "batch"
  BY DEF Execute, InBatch, AllTypes, GuestTypes
<1>2. CASE InMain
  <2>1. frames = <<>> /\ Len(frames) = 0 /\ ~(\E i \in DOMAIN frames : frames[i].kind = "irq")
    BY <1>2 DEF InMain
  <2>2. CASE kind = "BRK"
    <3>1. frames' = Push(Frame("brk")) /\ mI' = TRUE /\ UNCHANGED int_status
      BY <1>1, <2>2 DEF Effect, SoftwareInterrupt
    <3>2. Len(frames') = 1 /\ frames'[1].kind = "brk"
      BY <1>1, <2>1, <3>1, PushKeeps DEF Frame
    <3>3. Len(frames') <= 2 /\ Len(frames') # 2 /\ \A i \in 1 .. Len(frames') : i = 1
      BY <3>2
    <3>4. ~InHandler("nmi")'
      <4>1. frames' = <<Frame("brk")>>
        BY <1>1, <2>1, <3>1, PushKeeps
      <4>2. Head(frames') = Frame("brk")
        BY <4>1
      <4> QED BY <4>2 DEF InHandler, Frame
    <3>5. Nesting'
      BY <3>1, <3>3, <3>4 DEF Nesting
    <3> QED BY <1>1, <2>1, <3>1, <3>5 DEF Signalled
  <2>3. CASE kind # "BRK"
    <3>1. kind \notin {"status", "ack", "RTI"}
      BY <1>1, <2>1 DEF Allowed, InHandler, InMain
    <3>2. UNCHANGED <<frames, int_status>>
      BY <1>1, <2>3, <3>1 DEF Effect, SetI, write_rcr0, WriteClockCtrl, WriteIntControl
    <3>3. Nesting'
      BY <1>1, <2>1, <3>2 DEF Nesting, InHandler
    <3> QED BY <1>1, <3>2, <3>3 DEF Signalled
  <2> QED BY <2>2, <2>3
<1>3. CASE ~InMain
  <2>1. frames # <<>> /\ mI /\ Head(frames) = frames[1] /\ frames[1] \in FrameType /\ Len(frames) \in 1 .. 2
    <3>1. frames # <<>>
      BY <1>3 DEF InMain
    <3>2. Head(frames) = frames[1] /\ frames[1] \in FrameType /\ Len(frames) \in Nat \ {0}
      BY <1>1, <3>1
    <3>3. mI /\ Len(frames) <= 2
      BY <3>1 DEF Nesting
    <3>4. ASSUME NEW n \in Nat \ {0}, n <= 2 PROVE n \in 1 .. 2
      BY <3>4
    <3>5. Len(frames) \in 1 .. 2
      BY <3>2, <3>3, <3>4
    <3> QED BY <3>1, <3>2, <3>3, <3>5
  <2>2. kind \in {"other", "status", "ack", "RTI"}
    BY <1>1, <1>3 DEF Allowed
  <2>3. CASE kind = "other"
    <3>1. UNCHANGED <<frames, int_status, mI>>
      BY <1>1, <2>3 DEF Effect
    <3> QED BY <1>1, <3>1 DEF Nesting, InHandler, Signalled
  <2>4. ASSUME NEW stage \in {"read", "served"}, HandlerReaches(stage), UNCHANGED mI,
               frames[1].kind # "nmi"
        PROVE  Nesting'
    <3>1. frames' = [frames EXCEPT ![1] = [frames[1] EXCEPT !.kind = stage]]
      BY <2>4 DEF HandlerReaches
    <3>2. Len(frames) = 1
      BY <2>1, <2>4 DEF Nesting
    <3>3. frames'[1].kind = stage /\ Len(frames') = 1
      BY <1>1, <2>1, <3>1, <3>2 DEF FrameType
    <3> QED BY <1>1, <2>1, <2>4, <3>3 DEF Nesting, InHandler
  <2>5. CASE kind = "status"
    <3>1. ReadIntStatus /\ frames[1].kind = "irq"
      BY <1>1, <1>3, <2>1, <2>5 DEF Effect, Allowed, InHandler
    <3>2. Nesting'
      BY <2>4, <3>1 DEF ReadIntStatus
    <3> QED BY <3>1, <3>2 DEF ReadIntStatus, Signalled
  <2>6. CASE kind = "ack"
    <3>1. frames[1].kind = "read"
      BY <1>1, <1>3, <2>1, <2>6 DEF Allowed, InHandler
    <3>2. PICK vectors \in Acknowledgements : write_rcr1(vectors)
      BY <1>1, <2>6 DEF Effect
    <3>3. Nesting'
      BY <2>4, <3>1, <3>2 DEF write_rcr1
    <3>4. Len(frames) = 1
      BY <2>1, <3>1 DEF Nesting
    <3>5. ~(\E i \in DOMAIN frames : frames[i].kind = "irq")
      BY <1>1, <3>1, <3>4
    <3>6. UNCHANGED int_status
      BY <3>2 DEF write_rcr1
    <3> QED BY <1>1, <3>3, <3>5, <3>6 DEF Signalled
  <2>7. CASE kind = "RTI"
    <3>1. frames[1].kind \in {"served", "nmi", "brk"}
      BY <1>1, <1>3, <2>1, <2>7 DEF Allowed, InHandler
    <3>2. mI' = frames[1].I /\ frames' = Tail(frames) /\ UNCHANGED int_status
      BY <1>1, <2>1, <2>7 DEF Effect, ReturnFromInterrupt
    <3>3. Len(frames') = Len(frames) - 1 /\ \A i \in 1 .. Len(frames') : frames'[i] = frames[i + 1]
      BY <1>1, <2>1, <3>2
    <3>4. \A i \in 1 .. Len(frames') : frames'[i].kind # "nmi"
      BY <2>1, <3>3 DEF Nesting
    <3>5. frames' # <<>> => mI'
      <4>1. CASE Len(frames) = 1
        BY <1>1, <3>2, <4>1
      <4>2. CASE Len(frames) = 2
        BY <3>2, <4>2 DEF Nesting
      <4> QED BY <2>1, <4>1, <4>2
    <3>6. ~InHandler("nmi")'
      <4>1. frames' # <<>> => 1 \in 1 .. Len(frames') /\ Head(frames') = frames'[1]
        BY <1>1, <2>1, <3>2
      <4> QED BY <3>4, <4>1 DEF InHandler
    <3>7. Nesting'
      BY <2>1, <3>3, <3>4, <3>5, <3>6 DEF Nesting
    <3>8. ASSUME NEW i \in DOMAIN frames, frames[i].kind = "irq"
          PROVE  \E j \in DOMAIN frames' : frames'[j].kind = "irq"
      <4>1. i = 2 /\ Len(frames) = 2
        BY <1>1, <2>1, <3>1, <3>8
      <4>2. frames'[1] = frames[2] /\ 1 \in DOMAIN frames'
        <5>1. 1 \in 1 .. Len(frames') /\ frames'[1] = frames[1 + 1]
          BY <3>3, <4>1
        <5>2. 1 + 1 = 2 /\ DOMAIN frames' = 1 .. Len(frames')
          BY <1>1, <2>1, <3>2
        <5> QED BY <5>1, <5>2
      <4> QED BY <3>8, <4>1, <4>2
    <3> QED BY <1>1, <3>2, <3>7, <3>8 DEF Signalled
  <2> QED BY <2>2, <2>3, <2>5, <2>6, <2>7
<1> QED BY <1>2, <1>3

LEMMA ResetNests == WarmReset \/ ColdReset => Nesting' /\ fresh'
<1>1. Len(<<>>) = 0
  OBVIOUS
<1> QED BY <1>1 DEF WarmReset, ColdReset, CpuInitialize, Nesting, InHandler

LEMMA StepNests ==
    ASSUME Disciplined, MaxFrames >= 2, OrderlyInv, [Next]_vars
    PROVE  Nesting' /\ (Signalled => Signalled' \/ fresh')
<1> USE DEF OrderlyInv
<1>0. frames \in Seq(FrameType) /\ mI \in BOOLEAN /\ g_irq \in BOOLEAN
  BY DEF AllTypes, GuestTypes
<1>1. CASE StartLoop
  <2>1. CASE WarmReset \/ ColdReset
    BY <2>1, ResetNests
  <2>2. CASE UNCHANGED <<cpuVars, ioVars, rtcVars, fresh>>
    BY <1>1, <2>2 DEF StartLoop, cpuVars, ioVars, Nesting, InHandler, Signalled
  <2> QED BY <1>1, <2>1, <2>2 DEF StartLoop
<1>2. CASE StartBatch
  <2>1. at' = "batch" /\ UNCHANGED <<g_irq, int_status>>
    BY <1>2 DEF StartBatch, ioVars
  <2>2. CASE g_nmi
    <3>1. g_nmi' = FALSE /\ mI' = TRUE /\ frames' = Push(Frame("nmi"))
      BY <1>2, <2>2 DEF StartBatch
    <3>2. Len(frames) <= 1 /\ \A i \in 1 .. Len(frames) : frames[i].kind # "nmi"
      <4>1. ~InHandler("nmi")
        BY <2>2 DEF Nesting
      <4>2. frames # <<>> => Head(frames) = frames[1] /\ frames[1].kind # "nmi"
        BY <1>0, <4>1 DEF InHandler
      <4>3. Len(frames) # 2
        <5> SUFFICES ASSUME Len(frames) = 2 PROVE FALSE
          OBVIOUS
        <5>1. frames # <<>> /\ frames[1].kind = "nmi"
          BY <1>0 DEF Nesting
        <5> QED BY <4>2, <5>1
      <4>4. Len(frames) \in Nat /\ Len(frames) <= 2
        BY <1>0 DEF Nesting
      <4>5. Len(frames) <= 1
        <5>1. \A n \in Nat : n <= 2 /\ n # 2 => n <= 1
          OBVIOUS
        <5> HIDE DEF OrderlyInv
        <5> QED BY ONLY <4>3, <4>4, <5>1
      <4>6. \A i \in 1 .. Len(frames) : i = 1
        BY <4>4, <4>5
      <4>7. \A i \in 1 .. Len(frames) : frames # <<>> /\ frames[i] = frames[1]
        BY <1>0, <4>6
      <4> QED BY <4>2, <4>5, <4>7
    <3>3. /\ Len(frames') = Len(frames) + 1
          /\ frames'[1] = Frame("nmi")
          /\ \A i \in 1 .. Len(frames) : frames'[i + 1] = frames[i]
      BY <1>0, <3>1, <3>2, PushKeeps
    <3>4. \A i \in 1 .. Len(frames') : frames'[i].kind = "nmi" => i = 1
      <4> SUFFICES ASSUME NEW i \in 1 .. Len(frames'), i # 1 PROVE frames'[i].kind # "nmi"
        OBVIOUS
      <4>1. i - 1 \in 1 .. Len(frames) /\ frames'[(i - 1) + 1] = frames[i - 1]
        BY <1>0, <3>3
      <4>2. (i - 1) + 1 = i
        BY <1>0, <3>3
      <4> QED BY <3>2, <4>1, <4>2
    <3>5. Len(frames') = 2 => frames'[1].kind = "nmi" /\ frames'[1].I
      <4>1. Len(frames') = 2 => mI
        BY <1>0, <3>3 DEF Nesting
      <4>2. Frame("nmi").kind = "nmi" /\ Frame("nmi").I = mI
        BY DEF Frame
      <4> QED BY <3>3, <4>1, <4>2
    <3>6. Nesting'
      BY <1>0, <2>1, <3>1, <3>2, <3>3, <3>4, <3>5 DEF Nesting
    <3>7. ASSUME NEW i \in DOMAIN frames, frames[i].kind = "irq"
          PROVE  \E j \in DOMAIN frames' : frames'[j].kind = "irq"
      <4>1. frames' = <<Frame("nmi")>> \o frames
        BY <1>0, <3>1, <3>2, PushKeeps
      <4>2. i + 1 \in DOMAIN frames' /\ frames'[i + 1] = frames[i]
        BY <1>0, <3>3, <4>1
      <4> QED BY <3>7, <4>2
    <3> QED BY <2>1, <3>6, <3>7 DEF Signalled
  <2>3. CASE ~g_nmi
    <3>1. UNCHANGED <<g_nmi, mI, frames>>
      BY <1>2, <2>3 DEF StartBatch
    <3> QED BY <2>1, <3>1 DEF Nesting, InHandler, Signalled
  <2> QED BY <2>2, <2>3
<1>3. CASE SkipBatch \/ EndLoop
  BY <1>3 DEF SkipBatch, EndLoop, cpuVars, ioVars, Nesting, InHandler, Signalled
<1>4. CASE TakeIrq
  <2>1. frames = <<>> /\ Len(frames) = 0
    BY <1>4 DEF TakeIrq, IrqTaken, Nesting
  <2>2. frames' = Push(Frame("irq")) /\ mI' = TRUE
    BY <1>4 DEF TakeIrq
  <2>3. frames' = <<Frame("irq")>>
    BY <1>0, <2>1, <2>2, PushKeeps
  <2>4. Len(frames') = 1 /\ frames'[1].kind = "irq" /\ 1 \in DOMAIN frames' /\ Head(frames') = frames'[1]
    BY <2>3 DEF Frame
  <2>5. ~InHandler("nmi")'
    BY <2>4 DEF InHandler
  <2>6. \A i \in 1 .. Len(frames') : frames'[i].kind # "nmi"
    BY <2>4
  <2>7. Nesting'
    BY <2>2, <2>4, <2>5, <2>6 DEF Nesting
  <2>8. Signalled'
    BY <2>4 DEF Signalled
  <2> QED BY <2>7, <2>8
<1>5. ASSUME NEW kind \in Instructions, Execute(kind)
      PROVE  Nesting' /\ (Signalled => Signalled' \/ fresh')
  BY <1>5, ExecuteNests
<1>6. CASE RaiseTimers
  <2>1. UNCHANGED <<g_nmi, mI, frames>>
    BY <1>6 DEF RaiseTimers
  <2>2. PICK raised \in SUBSET Sources : /\ int_status' = int_status \cup raised
                                         /\ g_irq' = (g_irq \/ raised # {})
    BY <1>6 DEF RaiseTimers
  <2>3. InHandler("nmi") => due' = 0
    <3>1. InHandler("nmi") => 1 \in DOMAIN frames /\ frames[1].kind = "nmi"
      BY <1>0 DEF InHandler
    <3> QED BY <1>6, <3>1 DEF RaiseTimers, TicksDue
  <2>4. Nesting'
    BY <2>1, <2>3 DEF Nesting, InHandler
  <2> QED BY <1>0, <2>1, <2>2, <2>4 DEF Signalled
<1>7. CASE Tick
  <2>1. ~InHandler("nmi")
    BY <1>7 DEF Tick, Nesting
  <2>2. UNCHANGED <<mI, frames, int_status>> /\ (g_irq => g_irq')
    BY <1>7 DEF Tick, ioVars
  <2>3. Nesting'
    BY <2>1, <2>2 DEF Nesting, InHandler
  <2> QED BY <2>2, <2>3 DEF Signalled
<1>8. CASE SetKeyWayback \/ push_message
  <2>1. UNCHANGED <<cpuVars, ioVars, at, due>>
    BY <1>8 DEF SetKeyWayback, push_message
  <2> QED BY <2>1 DEF cpuVars, ioVars, Nesting, InHandler, Signalled
<1>9. CASE KeyColdReset
  BY <1>9, ResetNests DEF KeyColdReset
<1>10. CASE UNCHANGED vars
  BY <1>10 DEF vars, cpuVars, ioVars, loopVars, Nesting, InHandler, Signalled
<1> QED BY <1>1, <1>2, <1>3, <1>4, <1>5, <1>6, <1>7, <1>8, <1>9, <1>10 DEF Next, Loop, User

LEMMA OrderlyGuest ==
    ASSUME Disciplined, MaxFrames >= 2
    PROVE  Spec => []OrderlyInv
<1>1. Init => OrderlyInv
  <2>1. Init => Len(frames) = 0 /\ frames = <<>>
    BY DEF Init
  <2> QED BY <2>1, TypesKept DEF OrderlyInv, Nesting, InHandler
<1>2. OrderlyInv /\ [Next]_vars => OrderlyInv'
  BY TypesKept, StepNests DEF OrderlyInv
<1> QED BY <1>1, <1>2, PTL DEF Spec

\* No timer interrupt is lost to an orderly guest, whatever NMIs and software
\* interrupts come in between: its status bit waits with a pending IRQ or a
\* handler that will read it, until it is read or the machine is reset.
THEOREM TimersStaySignalled ==
    ASSUME Disciplined, MaxFrames >= 2
    PROVE  Spec => StatusSignalled
<1>1. OrderlyInv /\ [Next]_vars => (Signalled => Signalled' \/ fresh')
  BY StepNests
<1> QED BY <1>1, OrderlyGuest, PTL DEF Spec, StatusSignalled

\* A reset sets I, and the flag is clear again only by an instruction.
FreshMasked == fresh => mI

LEMMA FreshMaskedKept == (Init => FreshMasked) /\ (FreshMasked /\ [Next]_vars => FreshMasked')
<1>1. Init => FreshMasked
  BY DEF Init, FreshMasked
<1>2. ASSUME FreshMasked, [Next]_vars PROVE FreshMasked'
  <2> USE <1>2 DEF FreshMasked
  <2>1. ASSUME WarmReset \/ ColdReset PROVE FreshMasked'
    BY <2>1 DEF WarmReset, ColdReset, CpuInitialize
  <2>2. CASE StartLoop
    BY <2>1, <2>2 DEF StartLoop, cpuVars
  <2>3. CASE StartBatch \/ SkipBatch \/ RaiseTimers \/ Tick \/ EndLoop \/ SetKeyWayback \/ push_message
    BY <2>3 DEF StartBatch, SkipBatch, RaiseTimers, Tick, EndLoop, SetKeyWayback, push_message, cpuVars
  <2>4. CASE TakeIrq
    BY <2>4 DEF TakeIrq
  <2>5. ASSUME NEW kind \in Instructions, Execute(kind) PROVE FreshMasked'
    BY <2>5 DEF Execute
  <2>6. CASE KeyColdReset
    BY <2>1, <2>6 DEF KeyColdReset
  <2>7. CASE UNCHANGED vars
    BY <2>7 DEF vars, cpuVars
  <2> QED BY <2>2, <2>3, <2>4, <2>5, <2>6, <2>7 DEF Next, Loop, User
<1> QED BY <1>1, <1>2

\* An orderly guest found with I clear is in its main program, and has run
\* since its last reset: that is where a file transfer starts, with nothing
\* of an interrupt, a system call or a reset left to be undone.
THEOREM TransfersStartInMain ==
    ASSUME Disciplined, MaxFrames >= 2
    PROVE  Spec => TransfersInterruptNothing
<1>1. ASSUME OrderlyInv, FreshMasked, [Next]_vars,
             udp_msgs # <<>>, Head(udp_msgs) = "gated", udp_msgs' = <<>>
      PROVE  InMain /\ ~fresh'
  <2>1. StartLoop
    <3>1. udp_msgs' # udp_msgs /\ (push_message => udp_msgs' # <<>>)
      <4>1. push_message => Len(udp_msgs') = Len(udp_msgs) + 1
        BY <1>1 DEF push_message, OrderlyInv, AllTypes
      <4>2. Len(udp_msgs) \in Nat /\ Len(<<>>) = 0
        BY <1>1 DEF OrderlyInv, AllTypes
      <4> QED BY <1>1, <4>1, <4>2
    <3>2. ~UNCHANGED udp_msgs
      BY <3>1
    <3> QED BY <1>1, <3>1, <3>2 DEF Next, Loop, User, StartBatch, SkipBatch, TakeIrq, Execute,
            RaiseTimers, Tick, EndLoop, SetKeyWayback, KeyColdReset, loopVars, vars
  <2>2. ~mI /\ ~do_warm_reset
    BY <1>1, <2>1 DEF StartLoop, Handled
  <2>3. UNCHANGED fresh
    BY <1>1, <2>1, <2>2 DEF StartLoop, Handled
  <2> QED BY <1>1, <2>2, <2>3 DEF OrderlyInv, Nesting, InMain, FreshMasked
<1> QED BY <1>1, OrderlyGuest, FreshMaskedKept, PTL DEF Spec, TransfersInterruptNothing

=============================================================================
