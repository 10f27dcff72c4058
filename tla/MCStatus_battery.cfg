SPECIFICATION FairSpec
CONSTANTS
    Source = {s1, s2}
    Field = {level, state}
    Level = {level}
    MaxLevel = 1
    Value <- Values
    None = none
    MaxUpdates = 3
CHECK_DEADLOCK FALSE
INVARIANTS
    TypeOK
    ClearedIsPublished
PROPERTIES
    StoredIsPublished
    ImplementsService
