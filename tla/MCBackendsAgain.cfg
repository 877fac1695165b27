SPECIFICATION Spec
CONSTANTS
    Clients = {c1, c2}
    Backends = {"fs_ng"}
    Peer = {c1}
    MaxCrashes = 1
    MaxEvents = 1
    c1 = c1
    c2 = c2
INVARIANTS
    Recoverable
