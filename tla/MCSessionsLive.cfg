SPECIFICATION FairSpec
CONSTANTS
    Workers = {w1, w2}
    Reaper = reaper
    Incs <- MCCollision
    Principal <- MCPrincipal
    MaxIds = 2
    MaxSess = 1
    MaxSeq = 1
    Kinds = {"open", "deleg"}
    w1 = w1
    w2 = w2
    reaper = reaper
CHECK_DEADLOCK FALSE
INVARIANTS
    TypeOK
PROPERTIES
    RequestsEnd
    LeaseReaped
