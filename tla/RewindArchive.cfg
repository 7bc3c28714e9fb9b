CONSTANTS
    Files = {f}
    Outside = {}
    Bytes = {b, c}
    Absent = Absent
    Torn = Torn
    None = None
    MaxActions = 2
    MaxEdits = 0
    MaxRewinds = 2
    MaxCrashes = 0
SPECIFICATION Spec
INVARIANT ArchivedBranchIsComplete
CHECK_DEADLOCK FALSE
