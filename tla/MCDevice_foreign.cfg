SPECIFICATION Spec
CONSTANTS
    Caller = {a1}
    Key = {k1}
    Number = {n1}
    None = none
    MaxCalls = 0
    MaxScans = 2
    QueueLength = 2
    MaxRestarts = 0
    NameLengths <- Lengths
    Partitions = 2
    MaxPublications = 2
    MaxLives = 1
    MaxInputs = 3
CHECK_DEADLOCK FALSE
INVARIANT
    OnlyOwnScans
