CONSTANTS
    Files = {f}
    Outside = {}
    Bytes = {b, c}
    Absent = Absent
    Torn = Torn
    None = None
    MaxActions = 2
    MaxEdits = 1
    MaxRewinds = 1
    MaxCrashes = 0
SPECIFICATION Spec
INVARIANT EditedFilesAreLeftAlone
CHECK_DEADLOCK FALSE
