SPECIFICATION Spec
CONSTANTS
    Requests = {r1}
    Kinds <- AllKinds
    Confs <- AllConfs
    Stored <- AllStored
    MaxBackground = 1
    MaxPolls = 1
    MaxMoves = 1
CHECK_DEADLOCK FALSE
INVARIANTS
    AnswerAllowed
    OnlyWhenOriginDown
    ProbeReachesOrigin
    CopyBeats503
    SlotsReturned
PROPERTIES
    RequestsEnd
