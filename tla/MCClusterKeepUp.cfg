SPECIFICATION Spec
CONSTANTS
    Nodes = {n1, n2}
    Clients = {c1}
    MaxEpoch = 4
    MaxCrashes = 2
    n1 = n1
    n2 = n2
    c1 = c1
SYMMETRY Symmetry
CHECK_DEADLOCK FALSE
INVARIANTS
    SurvivorsKeepUp
