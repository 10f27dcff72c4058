SPECIFICATION FairSpec
CONSTANTS
    Type = {t1}
    Period = {1}
    TickRate = 100
    TickModulus = 1048576
    TimerId = {i1}
    None = none
    QueueLength = 10
    MaxEvents = 2
    MaxRestarts = 1
    ZeroPeriods = TRUE
    NvsFails = FALSE
CHECK_DEADLOCK FALSE
PROPERTIES
    StartReturns
