SPECIFICATION Spec
CONSTANTS
    Type = {t1, t2}
    Period = {1, 32768}
    TickRate = 100
    TickModulus = 1048576
    TimerId = {i1, i2}
    None = none
    QueueLength = 2
    MaxEvents = 2
    MaxRestarts = 1
    ZeroPeriods = FALSE
    NvsFails = TRUE
CHECK_DEADLOCK FALSE
SYMMETRY Symmetry
INVARIANTS
    TypeOK
    CallbackHasEntry
