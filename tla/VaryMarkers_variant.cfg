SPECIFICATION Spec
CONSTANTS
    Nodes = {n1}
    Purgers = {n1}
    Requests = {r1, r2, r3}
    Classes = {c1, c2}
    Deployments = {"tagged"}
    Gens = 2
    Window = 0
    MaxLosses = 0
    MaxTime = 0
    MaxPurges = 1
CHECK_DEADLOCK FALSE
SYMMETRY Symmetric
INVARIANT NeverWrongVariant
