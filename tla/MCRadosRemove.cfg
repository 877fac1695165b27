SPECIFICATION Spec
CONSTANTS
    Nodes = {n1, n2}
    Callers = {p1, p2}
    Ops = {"add", "start", "remove"}
    MaxCalls = 4
    n1 = n1
    n2 = n2
    p1 = p1
    p2 = p2
SYMMETRY Symmetry
CHECK_DEADLOCK FALSE
PROPERTIES
    LiftedWhenNoneNeeds
