SPECIFICATION Spec
CONSTANTS
    Type = {t1, t2}
    Period = {1, 11}
    TickRate = 100
    TickModulus = 1048576
    TimerId = {i1, i2, i3}
    None = none
    QueueLength = 10
    MaxEvents = 3
    MaxRestarts = 1
    ZeroPeriods = TRUE
    NvsFails = FALSE
CHECK_DEADLOCK FALSE
SYMMETRY Symmetry
INVARIANTS
    RunningIsStored
    LastWordHolds
PROPERTY
    ImplementsService
