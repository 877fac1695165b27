SPECIFICATION Spec
CONSTANTS
    Workers = {w1, w2}
    Reaper = reaper
    Incs <- MCRestart
    Principal <- MCPrincipal
    MaxIds = 2
    MaxSess = 1
    MaxSeq = 1
    Kinds = {"open"}
    w1 = w1
    w2 = w2
    reaper = reaper
CHECK_DEADLOCK FALSE
PROPERTIES
    DestroyedIdle
