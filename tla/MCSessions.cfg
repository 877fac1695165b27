SPECIFICATION Spec
CONSTANTS
    Workers = {w1, w2}
    Reaper = reaper
    Incs <- MCRestart
    Principal <- MCPrincipal
    MaxIds = 2
    MaxSess = 2
    MaxSeq = 1
    Kinds = {}
    w1 = w1
    w2 = w2
    reaper = reaper
CHECK_DEADLOCK FALSE
SYMMETRY MCSymmetry
INVARIANTS
    Refs
    OneConfirmed
    ExactlyOnce
    CreatedOnce
