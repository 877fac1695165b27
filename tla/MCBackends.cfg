SPECIFICATION Spec
CONSTANTS
    Clients = {c1, c2}
    Backends = {"fs", "rados_kv", "fs_ng", "rados_ng"}
    Peer = {c1}
    MaxCrashes = 3
    MaxEvents = 2
    c1 = c1
    c2 = c2
INVARIANTS
    RecoverableButTwice
    RecordsExact
