SPECIFICATION Spec
CONSTANTS
    Byte = 4
    Ticks = 2
    Minute = 2
    Hour = 2
    Day = 2
    Mask <- MCMask
    TimeBytes = {3}
    AlarmBytes = {0, 3}
    Width = 3
    Selections0 = {0, 1}
    Selections1 = {0}
    Deltas = {1, 3}
    TimerBytes = {0, 2}
    CYCLES_SECOND = 32
    StepRate = 8
    BaseRate = 3
    SampleRates = {2, 4, 8, 16}
    SpeedFix <- MCSpeedFix
    Batches = {1, 2, 3, 5}
    BatchOff = 4
    MaxCycles = 70
    UartBytes <- MCUartBytes
    UsedRegisters = {"BSR", "GPC", "P05", "MCR"}
INVARIANTS RatesHeld HandlerLeavesNoTrace
PROPERTIES SecondsCounted ClockRecovers AlarmOnTime
PROPERTIES NoTickLost TimerFires SampleNotMissed
\* The run of TimeBase ends at its bound.
CHECK_DEADLOCK FALSE
