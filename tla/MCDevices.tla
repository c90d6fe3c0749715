------------------------------ MODULE MCDevices ------------------------------
(***************************************************************************)
(* The clock, the timers, the time base and the UART, one to a behaviour:  *)
(* they share no state, so each part is checked by itself.                 *)
(*                                                                         *)
(* The clock has a byte of 4 values, so that a time out of range and its   *)
(* wrap take few steps; the timers count to 3 in a byte; a second has 32   *)
(* cycles, and the time base's rate does not divide it.                    *)
(***************************************************************************)
EXTENDS Clock, Timers, TimeBase, Uart

MCMask == [f \in Fields |-> 2]
MCSpeedFix == <<2, 3>>
\* The vectors of a pending interrupt and none, as values of the registers.
MCUartBytes == {{2, 3, 4, 5}, {}}

VARIABLE part
vars == <<part, clockVars, timersVars, baseVars, uartVars>>

Init == /\ part \in {"clock", "timers", "base", "uart"}
        /\ ClockInit /\ TimersInit /\ BaseInit /\ UartInit

ClockPart(A) == part = "clock" /\ A /\ UNCHANGED <<part, timersVars, baseVars, uartVars>>
TimersPart(A) == part = "timers" /\ A /\ UNCHANGED <<part, clockVars, baseVars, uartVars>>
BasePart == part = "base" /\ BaseNext /\ UNCHANGED <<part, clockVars, timersVars, uartVars>>
UartPart == part = "uart" /\ UartNext /\ UNCHANGED <<part, clockVars, timersVars, baseVars>>

Next == ClockPart(ClockNext) \/ TimersPart(TimersNext) \/ BasePart \/ UartPart

\* The fairness of ClockSpec and of TimersSpec.
Spec == /\ Init /\ [][Next]_vars
        /\ WF_vars(ClockPart(Tick))
        /\ WF_vars(TimersPart(\E d \in Deltas : KeepTimer01(d)))
=============================================================================
