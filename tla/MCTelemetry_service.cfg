SPECIFICATION FairSpec
CONSTANTS
    Type = {t1, t2}
    Period = {1}
    TickRate = 100
    TickModulus = 1048576
    TimerId = {i1, i2}
    None = none
    QueueLength = 10
    MaxEvents = 2
    MaxRestarts = 1
    ZeroPeriods = FALSE
    NvsFails = FALSE
CHECK_DEADLOCK FALSE
INVARIANT
    OneTimerPerType
PROPERTIES
    StartReturns
    TimersFollowList
