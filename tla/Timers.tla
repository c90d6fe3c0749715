------------------------------- MODULE Timers -------------------------------
(***************************************************************************)
(* Timers 0 and 1: KeepTimer01(), which cpu_run3() calls with the cycles   *)
(* of each batch (cpu_loop.cpp), and the registers by which the guest      *)
(* starts, stops and sets them (NekoDriverIO.cpp, io_new.cpp).             *)
(*                                                                         *)
(* In mode 1 they are two timers of a byte each, with prescalers of their  *)
(* own.  In mode 2 timer 1 is the high byte of timer 0.  In mode 3 it is,  *)
(* if it runs, and each of the two raises its interrupt.  Mode 0 is timer  *)
(* 0 with timer 1 as the value to reload.                                  *)
(***************************************************************************)
EXTENDS Integers

CONSTANTS Width,       \* values of a timer, 256
          Selections0, \* prescaler selections of timer 0, 0 .. 7; 0 .. 3 in mode 1
          Selections1, \* prescaler selections of timer 1, 0 .. 3
          Deltas,      \* cycles of a batch
          TimerBytes   \* bound: values the guest writes into a timer

TimerModes == 0 .. 3

\* 1 << (1 + TMS), and 1 << (TM1S + 1) * 2.
Prescale0 == [tms \in Selections0 |-> 2 ^ (1 + tms)]
Prescale1 == [tm1s \in Selections1 |-> 2 ^ (2 * (tm1s + 1))]

ASSUME TimersAssumption ==
    /\ Width \in Nat \ {0, 1}
    /\ 0 \in Selections0 /\ 0 \in Selections1 /\ Deltas \subseteq Nat
    /\ \A s \in Selections0 : Prescale0[s] \in Nat \ {0}
    /\ \A s \in Selections1 : Prescale1[s] \in Nat \ {0}
    /\ TimerBytes \subseteq 0 .. Width - 1
    \* the sum of a batch fits the 16 bits it is made in
    /\ \A d \in Deltas : d <= Width * Width - Width

VARIABLES timer0_val, timer1_val,      \* registers 0x02 and 0x03
          timer0ticks, timer1ticks,    \* cycles not yet counted
          timer0run, timer1run_tmie,
          TMODESL, TM0S, TM1S, TMS,    \* register 0x0c
          int_status,                  \* register 0x01: TM0I and TM1I
          quiet                        \* history: the guest leaves the timers alone

settings == <<timer0run, timer1run_tmie, TMODESL, TM0S, TM1S, TMS>>
counters == <<timer0_val, timer1_val, timer0ticks, timer1ticks>>
timersVars == <<counters, settings, int_status, quiet>>

TimersInit == /\ timer0_val = 0 /\ timer1_val = 0
              /\ timer0ticks = 0 /\ timer1ticks = 0
              /\ timer0run = FALSE /\ timer1run_tmie = FALSE
              /\ TMODESL = 0 /\ TM0S = 0 /\ TM1S = 0 /\ TMS = 0
              /\ int_status = {} /\ quiet = FALSE
-----------------------------------------------------------------------------
(* KeepTimer01() *)

Scale0 == Prescale0[IF TMODESL = 1 THEN TM0S ELSE TMS]
Scale1 == Prescale1[TM1S]

\* Timer 1 counts timer 0's overflows.
Cascaded == TMODESL = 2 \/ (TMODESL = 3 /\ timer1run_tmie)

\* What timer 0 becomes, with the whole carry of its sum.
Sum0(d) == timer0_val + (timer0ticks + d) \div Scale0
Sum1(d) == timer1_val + (IF Cascaded THEN Sum0(d) \div Width
                         ELSE (timer1ticks + d) \div Scale1)

Counts0 == timer0run

\* Mutant: the high byte counts only if timer 1 has been started.
Counts1Started == timer1run_tmie /\ (TMODESL = 1 \/ (timer0run /\ Cascaded))

Counts1 == (timer0run /\ Cascaded) \/ (timer1run_tmie /\ TMODESL = 1)

\* Mode 0 raises nothing unless timer 1 is on, mode 2 only the high byte's.
Raises0 == TMODESL \in {1, 3} \/ (TMODESL = 0 /\ timer1run_tmie)

Overflows(d) ==
    (IF Counts0 /\ Raises0 /\ Sum0(d) >= Width THEN {"TM0I"} ELSE {})
      \cup (IF Counts1 /\ Sum1(d) >= Width THEN {"TM1I"} ELSE {})

\* Mutant: the cycles that the prescaler has not passed on are lost.
Keep0Forgets(d) ==
    IF ~Counts0 THEN UNCHANGED <<timer0_val, timer0ticks>>
    ELSE /\ timer0ticks' = IF timer0ticks + d < Scale0 THEN timer0ticks + d ELSE 0
         /\ timer0_val' = (Sum0(d) + (IF TMODESL = 0 THEN timer1_val ELSE 0)) % Width

\* In mode 0 the value to reload is added every time, overflow or not.
Keep0(d) ==
    IF ~Counts0 THEN UNCHANGED <<timer0_val, timer0ticks>>
    ELSE /\ timer0ticks' = (timer0ticks + d) % Scale0
         /\ timer0_val' = (Sum0(d) + (IF TMODESL = 0 THEN timer1_val ELSE 0)) % Width

Keep1(d) ==
    IF ~Counts1 THEN UNCHANGED <<timer1_val, timer1ticks>>
    ELSE /\ timer1ticks' = IF Cascaded THEN timer1ticks ELSE (timer1ticks + d) % Scale1
         /\ timer1_val' = Sum1(d) % Width

KeepTimer01(d) == /\ Keep0(d) /\ Keep1(d)
                  /\ int_status' = int_status \cup Overflows(d)
                  /\ UNCHANGED <<settings, quiet>>
-----------------------------------------------------------------------------
(* The guest's accesses *)

Guest == ~quiet /\ UNCHANGED quiet
sameSetup == UNCHANGED <<TMODESL, TM0S, TM1S, TMS>>

StartTimer0 == /\ Guest /\ timer0run' = TRUE /\ timer0ticks' = 0
               /\ sameSetup
               /\ UNCHANGED <<timer0_val, timer1_val, timer1ticks, timer1run_tmie, int_status>>
StopTimer0 == /\ Guest /\ timer0run' = FALSE
              /\ sameSetup /\ UNCHANGED <<counters, timer1run_tmie, int_status>>
StartTimer1 == /\ Guest /\ timer1run_tmie' = TRUE /\ timer1ticks' = 0
               /\ sameSetup
               /\ UNCHANGED <<timer0_val, timer1_val, timer0ticks, timer0run, int_status>>
StopTimer1 == /\ Guest /\ timer1run_tmie' = FALSE
              /\ sameSetup /\ UNCHANGED <<counters, timer0run, int_status>>

\* 0x02 and 0x03.
WriteValue0(value) == /\ Guest /\ timer0_val' = value
                      /\ UNCHANGED <<timer1_val, timer0ticks, timer1ticks, settings, int_status>>
WriteValue1(value) == /\ Guest /\ timer1_val' = value
                      /\ UNCHANGED <<timer0_val, timer0ticks, timer1ticks, settings, int_status>>

\* 0x0c: mode 1 keeps the other modes' prescaler, and they keep mode 1's.
TimerControl(mode, tm0s, tm1s) ==
    /\ Guest /\ TMODESL' = mode
    /\ IF mode = 1 THEN /\ TM0S' = tm0s /\ TM1S' = tm1s /\ UNCHANGED TMS
                   ELSE /\ TMS' = tm0s /\ UNCHANGED <<TM0S, TM1S>>
    /\ UNCHANGED <<counters, timer0run, timer1run_tmie, int_status>>

\* Reading 0x01 clears the bits of both.
ReadStatus == /\ int_status' = {} /\ UNCHANGED <<counters, settings, quiet>>

Leave == /\ ~quiet /\ quiet' = TRUE
         /\ UNCHANGED <<counters, settings, int_status>>

TimersNext == \/ \E d \in Deltas : KeepTimer01(d)
              \/ StartTimer0 \/ StopTimer0 \/ StartTimer1 \/ StopTimer1
              \/ \E value \in TimerBytes : WriteValue0(value) \/ WriteValue1(value)
              \/ \E mode \in TimerModes, tm0s \in Selections0, tm1s \in Selections1 :
                    TimerControl(mode, tm0s, tm1s)
              \/ ReadStatus
              \/ Leave

\* cpu_run3() goes on, and each of its batches takes cycles.
TimersFairness == WF_timersVars(\E d \in Deltas : KeepTimer01(d))
TimersSpec == TimersInit /\ [][TimersNext]_timersVars /\ TimersFairness
-----------------------------------------------------------------------------
(* Properties *)

TimersTypeOK ==
    /\ timer0_val \in 0 .. Width - 1 /\ timer1_val \in 0 .. Width - 1
    /\ timer0ticks \in Nat /\ timer1ticks \in Nat
    /\ timer0run \in BOOLEAN /\ timer1run_tmie \in BOOLEAN /\ quiet \in BOOLEAN
    /\ TMODESL \in TimerModes /\ TM0S \in Selections0 /\ TMS \in Selections0 /\ TM1S \in Selections1
    /\ int_status \subseteq {"TM0I", "TM1I"}

\* The cycles that timer 0, with its prescaler and the byte above it if there
\* is one, has counted; and at how many it starts anew.
Count0 == (timer0_val + (IF Cascaded THEN timer1_val * Width ELSE 0)) * Scale0 + timer0ticks
Limit0 == (IF Cascaded THEN Width * Width ELSE Width) * Scale0

\* The same for timer 1 on its own.
Count1 == timer1_val * Scale1 + timer1ticks
Limit1 == Width * Scale1

\* The interrupt that the last overflow raises.
Last0 == IF Cascaded THEN "TM1I" ELSE "TM0I"

\* No cycle is lost between the prescaler, the low byte and the high byte: each
\* batch adds its cycles to the count, and raises the timer's interrupt exactly
\* if the count starts anew.  (In mode 0 only when there is nothing to reload.)
NoTickLost ==
    [][\A d \in Deltas : KeepTimer01(d) =>
         /\ (timer0run /\ (TMODESL = 0 => timer1_val = 0)) =>
              /\ Count0' = (Count0 + d) % Limit0
              /\ (Cascaded \/ Raises0) =>
                    (Last0 \in Overflows(d) <=> Count0 + d >= Limit0)
         /\ (timer1run_tmie /\ TMODESL = 1) =>
              /\ Count1' = (Count1 + d) % Limit1
              /\ "TM1I" \in Overflows(d) <=> Count1 + d >= Limit1]_timersVars

\* A timer that runs raises its interrupt again and again once the guest has
\* set it up and leaves it alone, in whatever state it was left.
TimerFires ==
    /\ (quiet /\ timer0run /\ TMODESL \in {1, 3}) ~> "TM0I" \in int_status
    /\ (quiet /\ timer0run /\ Cascaded) ~> "TM1I" \in int_status
    /\ (quiet /\ timer1run_tmie /\ TMODESL = 1) ~> "TM1I" \in int_status
=============================================================================
