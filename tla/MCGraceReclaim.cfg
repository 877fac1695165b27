SPECIFICATION Spec
CONSTANTS
    Workers = {w1}
    Clients = {c1, c2}
    GracePeriod = 1
    EnableNLM = FALSE
    Events = {"TAKE_IP"}
    MaxEvents = 1
    MaxRC = 1
    MaxCompletes = 2
    Clustered = TRUE
    LiftAnswers = {TRUE, FALSE}
    EnforceAnswers = {TRUE, FALSE}
    w1 = w1
    c1 = c1
    c2 = c2
SYMMETRY Symmetry
INVARIANTS
    CountInv
PROPERTIES
    LiftJustified
