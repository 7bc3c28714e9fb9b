CONSTANTS
    Files = {f}
    Outside = {}
    Bytes = {b, c}
    Absent = Absent
    Torn = Torn
    None = None
    MaxActions = 3
    MaxEdits = 2
    MaxRewinds = 1
    MaxCrashes = 0
SPECIFICATION Spec
INVARIANTS
    RewindInv
    UserWorkIsKept
    RewindReachesTheBoundary
    ConfirmedAsPreviewed
    StaleEvidenceIsFlagged
SYMMETRY AlikeBytes
CHECK_DEADLOCK FALSE
