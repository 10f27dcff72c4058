SPECIFICATION FairSpec
CONSTANTS
    Uuid = {u1, u2}
    Slot = {s1, s2}
    FactorySlot = s1
    Factory = factory
    None = none
    MaxOtaRetry = 2
    MaxChunks = 0
    MaxCancels = 1
    MaxRestarts = 1
    MaxFaults = 0
CHECK_DEADLOCK FALSE
INVARIANTS
    TypeOK
    SuccessMeansInstalled
    VerdictIsFinal
    RestartIsRecorded
    InFlightIsRecorded
    InTimeCancelWins
PROPERTIES
    ImplementsService
    SuccessRunsImage
    AcceptedIsAnswered
    StoredIsAnswered
