SPECIFICATION FairSpec
CONSTANTS
    r1 = r1
    r2 = r2
    r3 = r3
    k1 = k1
    x1 = x1
    x2 = x2
    Reqs = {r1, r2, r3}
    Keys = {k1}
    Xprts = {x1, x2}
    Key <- MCKey
    Xprt <- MCXprt
    MaxDupes = 1
    MaxRetries = 1
    Hiwat = 0
    MaxSize = 1
    RetwndBias = 1
PROPERTIES
    SilentOnlyIfComplete
CHECK_DEADLOCK FALSE
