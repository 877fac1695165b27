SPECIFICATION Spec
CONSTANTS
    o1 = o1
    o2 = o2
    Owners = {o1, o2}
    MaxOff = 5
    MaxFileSize = 3
    MaxLocks = 3
    MaxTaken = 1
    Ranges <- MCRanges
SYMMETRY Symmetry
INVARIANTS
    OneTypePerByte
CHECK_DEADLOCK FALSE
