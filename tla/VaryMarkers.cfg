SPECIFICATION Spec
CONSTANTS
    Nodes = {n1, n2}
    Purgers = {n1}
    Requests = {r1, r2}
    Classes = {c1, c2}
    Deployments = {"tagged", "plain"}
    Gens = 3
    Window = 1
    MaxLosses = 1
    MaxTime = 1
    MaxPurges = 1
CHECK_DEADLOCK FALSE
SYMMETRY Symmetric
INVARIANTS
    RightRepresentation
    HeardBeforeServed
    
PROPERTIES
    LateAnswerDropped
