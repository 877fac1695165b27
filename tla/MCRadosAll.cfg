SPECIFICATION Spec
CONSTANTS
    Nodes = {n1, n2}
    Callers = {p1, p2}
    Ops = {"add", "join", "start", "lift", "remove", "enforce", "noenforce"}
    MaxCalls = 5
    n1 = n1
    n2 = n2
    p1 = p1
    p2 = p2
SYMMETRY Symmetry
CHECK_DEADLOCK FALSE
INVARIANTS
    TypeOK
    EpochsAdjacent
    VersionsTell
