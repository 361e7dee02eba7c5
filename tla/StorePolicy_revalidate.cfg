SPECIFICATION PolicySpec
CONSTANTS
    Requests = {r1}
    Confs <- Honoring
    Headers <- Expiring
    TtlMax = 6
    Forever = 5
    MaxSize = 1
    MaxTime = 2
    MaxPieces = 2
    MaxVersion = 1
INVARIANTS
    RevalidateHolds
