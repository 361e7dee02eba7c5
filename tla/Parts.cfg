SPECIFICATION PartsSpec
CONSTANTS
    Keys = {k1, k2}
    Blobs = {b1, b2, b3}
    None = None
    Procs = {p1, p2}
    Versions = 2
    MaxKills = 1
    Requests = {r1}
    Confs <- AllConfs
    Headers <- AllHeaders
    TtlMax = 6
    Forever = 5
    MaxSize = 1
    MaxTime = 2
    MaxPieces = 2
    MaxVersion = 2
    PageKeys = {u1, u2}
    MarkerKeys = {m1}
    Sizes = {1, 2}
    Memory = 4
    Pcts = {0, 50}
    CapMaxEvict = 1
    PurgeBatch = 1
    Walks <- MCWalks
    Gets <- MCGets
    McGets <- MCMcGets
    Drains <- MCDrains
    MaxDepth = 3
    MaxMembers = 3
    MaxReply = 3
    MaxValue = 2
CHECK_DEADLOCK FALSE
INVARIANTS
    Accounted
    NoUseAfterFree
    StoredIsSound
    ZoneSound
    PurgeTellsTruth
    ScanIsFrame
    HeardAsMeant
PROPERTIES
    ProbationFirst
    PurgeEnds
