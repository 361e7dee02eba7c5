SPECIFICATION FairSpec
CONSTANTS
    Requests = {r1, r2}
    Bounds = {FALSE}
    Lock = TRUE
    HasL2 = TRUE
    MinUses = 1
    MinUsesWindow = 0
    FreshTtls = {1}
    StaleFor = 1
    ErrorTtl = 1
    LockTtl = 1
    LockTimeout = 1
    NegTtl = 0
    MaxTime = 2
    MaxSeq = 1
PROPERTY WaitEnds
