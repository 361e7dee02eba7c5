SPECIFICATION Spec
CONSTANTS
    Requests = {r1, r2}
    Bounds = {TRUE, FALSE}
    Lock = FALSE
    HasL2 = TRUE
    MinUses = 2
    MinUsesWindow = 1
    FreshTtls = {1}
    StaleFor = 1
    ErrorTtl = 1
    LockTtl = 1
    LockTimeout = 1
    NegTtl = 1
    MaxTime = 3
    MaxSeq = 1
SYMMETRY Symmetry
PROPERTY ServableNotBuried
