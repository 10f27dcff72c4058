SPECIFICATION Spec
CONSTANTS
    Uuid = {u1, u2}
    Slot = {s1, s2}
    FactorySlot = s1
    Factory = factory
    None = none
    MaxOtaRetry = 2
    MaxChunks = 1
    MaxCancels = 1
    MaxRestarts = 1
    MaxFaults = 1
CHECK_DEADLOCK FALSE
SYMMETRY Symmetry
PROPERTIES
    LiveDataKept
    ProgressOrder
