SPECIFICATION Spec
CONSTANTS
    Requests = {r1, r2}
    Bounds = {FALSE}
    Lock = TRUE
    HasL2 = TRUE
    MinUses = 2
    MinUsesWindow = 0
    FreshTtls = {1}
    StaleFor = 1
    ErrorTtl = 1
    LockTtl = 1
    LockTimeout = 1
    NegTtl = 1
    MaxTime = 2
    MaxSeq = 2
SYMMETRY Symmetry
INVARIANTS
    SingleRegenerator
    ColdLeaseKept
PROPERTIES
    NoOldPageOverNew
