CONSTANTS
    Files = {f, g}
    Outside = {g}
    Bytes = {b, c}
    Absent = Absent
    Torn = Torn
    None = None
    MaxActions = 2
    MaxEdits = 0
    MaxRewinds = 2
    MaxCrashes = 1
SPECIFICATION Spec
INVARIANTS
    RewindInv
    RewindReachesTheBoundary
    NoRecordIsLost
    NoEventIsForgotten
SYMMETRY AlikeBytes
CHECK_DEADLOCK FALSE
