SPECIFICATION Spec
CONSTANTS
    Caller = {a1, a2}
    Key = {k1}
    Number = {n1, n2}
    None = none
    MaxCalls = 3
    MaxScans = 2
    QueueLength = 2
    MaxRestarts = 1
    NameLengths <- Lengths
    Partitions = 2
    MaxPublications = 2
    MaxLives = 1
    MaxInputs = 3
CHECK_DEADLOCK FALSE
SYMMETRY Symmetry
INVARIANTS
    TypeOK
    StoredWasSent
    StoredIsServers
    OwnScanHasHandler
    PublishedOnce
    FieldsInOrder
    SentPathsFit
    WholeGroups
    AllOrNothing
PROPERTY
    KeptIsServers
