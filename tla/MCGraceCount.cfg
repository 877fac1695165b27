SPECIFICATION Spec
CONSTANTS
    Workers = {w1}
    Clients = {c1, c2}
    GracePeriod = 1
    EnableNLM = FALSE
    Events = {}
    MaxEvents = 0
    MaxRC = 1
    MaxCompletes = 2
    Clustered = FALSE
    LiftAnswers = {TRUE}
    EnforceAnswers = {TRUE}
    w1 = w1
    c1 = c1
    c2 = c2
SYMMETRY Symmetry
PROPERTIES
    LiftWhenAllCompleted
