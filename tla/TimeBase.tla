------------------------------ MODULE TimeBase ------------------------------
(***************************************************************************)
(* How cpu_run3() turns cycles into events (cpu_loop_new.cpp): each batch  *)
(* adds the cycles it took, and an event that happens x times per second   *)
(* has come if a multiple of CYCLES_SECOND / x lies in the batch.  So the  *)
(* clock's 1/256 s steps, the time base interrupt, the sample interrupt    *)
(* and the cycles that the timers are given all follow from two counters,  *)
(* cycles and last_cycles.  What the steps do is in Clock and Timers.      *)
(***************************************************************************)
EXTENDS Integers

CONSTANTS CYCLES_SECOND,    \* 5120000
          StepRate,         \* 256: steps of the clock
          BaseRate,         \* 185: time base interrupts
          SampleRates,      \* 2^0 .. 2^13: what the high bits of RCR0 select
          SpeedFix,         \* <<n, d>>: timer01_speed_fix is n / d; <<1, 1>> if
                            \* the machine is not overclocked
          Batches,          \* cycles that a batch may take
          BatchOff,         \* cpu_batch: what it takes with the clock off
          MaxCycles         \* bound: cycles

NoRate == 0
Target(rate) == CYCLES_SECOND \div rate
Multiples(rate, c) == c \div Target(rate)

ASSUME TimeBaseAssumption ==
    /\ CYCLES_SECOND \in Nat
    /\ \A rate \in SampleRates \cup {StepRate, BaseRate} :
          rate \in Nat \ {0} /\ Target(rate) \in Nat \ {0}
    /\ SpeedFix \in Nat \X (Nat \ {0})
    /\ Batches \subseteq Nat \ {0} /\ BatchOff \in Nat \ {0} /\ MaxCycles \in Nat
    \* 256 divides 5120000, and a batch is shorter than the time base's period.
    /\ Target(StepRate) * StepRate = CYCLES_SECOND
    /\ \A taken \in Batches \cup {BatchOff} : taken <= Target(BaseRate)

VARIABLES cycles, last_cycles,
          sample_rate,   \* what RCR0 selects, or NoRate
          sampled,       \* the last batch raised IV_SAMPLE
          steps,         \* history: 1/256 s steps
          bases,         \* history: time base interrupts
          fed            \* history: cycles given to KeepTimer01()

baseVars == <<cycles, last_cycles, sample_rate, sampled, steps, bases, fed>>

BaseInit == /\ cycles = 0 /\ last_cycles = 0
            /\ sample_rate = NoRate /\ sampled = FALSE
            /\ steps = 0 /\ bases = 0 /\ fed = 0
-----------------------------------------------------------------------------
\* Mutant: time that passes with the clock off is not counted.
Advance0(taken, off) == /\ cycles' = cycles + taken
                        /\ last_cycles' = IF off THEN last_cycles ELSE cycles

\* With the clock off the batch takes its nominal time.
Advance(taken, off) == /\ cycles' = cycles + taken
                       /\ last_cycles' = cycles

trigger_x_times_per_s(rate) == Multiples(rate, cycles') - Multiples(rate, last_cycles')

\* Mutant: a second look in the same batch, once the timers have been fed.
SampledLater == /\ sample_rate # NoRate
                /\ Multiples(sample_rate, cycles') > Multiples(sample_rate, last_cycles')
                /\ Multiples(BaseRate, cycles') > Multiples(BaseRate, last_cycles')

\* The sample is looked for in the steps of the clock only.
Sampled == /\ sample_rate # NoRate
           /\ trigger_x_times_per_s(StepRate) > 0
           /\ trigger_x_times_per_s(sample_rate) > 0

Scaled(c) == (c * SpeedFix[1]) \div SpeedFix[2]

Batch(taken, off) ==
    /\ cycles + taken <= MaxCycles
    /\ Advance(taken, off)
    /\ fed' = fed + (Scaled(cycles') - Scaled(last_cycles'))
    /\ bases' = bases + (IF trigger_x_times_per_s(BaseRate) > 0 THEN 1 ELSE 0)
    /\ steps' = steps + trigger_x_times_per_s(StepRate)
    /\ sampled' = Sampled
    /\ UNCHANGED sample_rate

\* The guest writes RCR0.
SelectRate(rate) == /\ sample_rate' = rate
                    /\ UNCHANGED <<cycles, last_cycles, sampled, steps, bases, fed>>

BaseNext == \/ \E taken \in Batches : Batch(taken, FALSE)
            \/ Batch(BatchOff, TRUE)
            \/ \E rate \in SampleRates \cup {NoRate} : SelectRate(rate)

BaseSpec == BaseInit /\ [][BaseNext]_baseVars
-----------------------------------------------------------------------------
(* Properties *)

\* A multiple of n in (a, b].
Crosses(n, a, b) == \E k \in a + 1 .. b : k % n = 0

\* No cycle is counted twice or forgotten, however the batches fall and whether
\* the clock is on or off: at a whole second of cycles, the clock has made its
\* 256 steps per second, the timers have had every cycle once, and the time
\* base has run at its rate or faster, by no more than its divisor's rounding
\* (CYCLES_SECOND / x; a batch is shorter than any of these).
RatesHeld ==
    /\ (cycles % CYCLES_SECOND = 0) => steps * CYCLES_SECOND = StepRate * cycles
    /\ fed = Scaled(cycles)
    /\ bases * CYCLES_SECOND > BaseRate * cycles - CYCLES_SECOND
    /\ bases * Target(BaseRate) <= cycles

\* The sample interrupt is only looked for when the clock steps.  None is lost
\* all the same if the steps' period divides the sample's, as it does for every
\* rate up to 256: then each multiple of the sample's period brings one.
SampleNotMissed ==
    [][\A taken \in Batches \cup {BatchOff} : cycles' = cycles + taken =>
         (sample_rate # NoRate /\ Target(sample_rate) % Target(StepRate) = 0 =>
            (sampled' <=> Crosses(Target(sample_rate), cycles, cycles')))]_baseVars
-----------------------------------------------------------------------------
(* What the two rest on *)

BaseTypeOK == /\ cycles \in Nat /\ last_cycles \in Nat
              /\ sample_rate \in SampleRates \cup {NoRate}

\* The histories are functions of the cycles.
Counted == /\ steps = Multiples(StepRate, cycles)
           /\ bases = Multiples(BaseRate, cycles)
           /\ fed = Scaled(cycles)

BaseInv == BaseTypeOK /\ Counted
=============================================================================
