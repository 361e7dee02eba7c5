SPECIFICATION Spec
CONSTANTS
    Keys = {k1, k2}
    Junk = {junk}
    Purges = {p1}
    AutoVary = TRUE
    MaxPages = 2
    MaxStores = 2
CHECK_DEADLOCK FALSE
INVARIANTS
    SuspendedIsAwaited
    RetryFindsIt
PROPERTIES
    SuccessDeletes
    PurgeEnds
