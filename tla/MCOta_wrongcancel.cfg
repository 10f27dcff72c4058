SPECIFICATION Spec
CONSTANTS
    Uuid = {u1, u2}
    Slot = {s1, s2}
    FactorySlot = s1
    Factory = factory
    None = none
    MaxOtaRetry = 1
    MaxChunks = 0
    MaxCancels = 1
    MaxRestarts = 0
    MaxFaults = 0
CHECK_DEADLOCK FALSE
INVARIANT
    CanceledOnlyIfAsked
