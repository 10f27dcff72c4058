SPECIFICATION Spec
CONSTANTS
    Config = {c1, c2, c3}
    Task = {k1, k2, k3}
    None = none
    MaxRequests = 5
CHECK_DEADLOCK FALSE
SYMMETRY Symmetry
INVARIANTS
    TypeOK
    OneBlinker
    KillsLiveTask
    DarkAtRest
    ConfigLives
