SPECIFICATION FairSpec
CONSTANTS
    Workers = {w1, w2}
    Clients = {c1}
    GracePeriod = 1
    EnableNLM = FALSE
    Events = {"UPDATE_CLIENTS", "TAKE_IP", "JUST_GRACE", "RELEASE_IP"}
    MaxEvents = 1
    MaxRC = 0
    MaxCompletes = 1
    Clustered = FALSE
    LiftAnswers = {TRUE}
    EnforceAnswers = {TRUE}
    w1 = w1
    w2 = w2
    c1 = c1
INVARIANTS
    TypeOK
    AdmittedUnderStatus
    LiftFindsNoRefs
    DrainInv
PROPERTIES
    GraceEnds
    DbusGraceReturns
