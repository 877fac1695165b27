SPECIFICATION FairSpec
CONSTANTS
    Nodes = {n1, n2}
    Clients = {c1}
    MaxEpoch = 3
    MaxCrashes = 2
    n1 = n1
    n2 = n2
    c1 = c1
CHECK_DEADLOCK FALSE
PROPERTIES
    GraceLifted
