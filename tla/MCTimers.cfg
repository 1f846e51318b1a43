SPECIFICATION FairSpec
CONSTANTS
    MainTimers = {m1, m2}
    AioTimers = {a1}
    MaxTime = 2
    NStages = 2
INVARIANTS TypeOK SleepCoversDeadline
PROPERTIES ClockDisableReturns TimerFires
