SPECIFICATION FairSpec
CONSTANTS
    Requests = {r1, r2}
    OpenFor = 1
    Lease = 1
    Threshold = 1
    Window = 1
    StampMod = 16
    Epoch = 1
    SplitLoads = FALSE
    ClockBack = FALSE
    MaxRetries = 0
    MaxTime = 3
    MaxGen = 2
    MaxKills = 1
INVARIANTS
    LeaseHonoured
PROPERTIES
    HalfOpenResolves
    OpenIsProbed
