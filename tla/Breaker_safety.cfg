SPECIFICATION Spec
CONSTANTS
    Requests = {r1, r2}
    OpenFor = 1
    Lease = 1
    Threshold = 2
    Window = 1
    StampMod = 16
    Epoch = 1
    SplitLoads = TRUE
    ClockBack = TRUE
    MaxRetries = 1
    MaxTime = 3
    MaxGen = 1
    MaxKills = 0
SYMMETRY Symmetry
INVARIANTS
    OneProbePerLease
    ClosedByItsProbe
    OneTripPerLease
PROPERTIES
    Refines
