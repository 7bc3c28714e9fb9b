CONSTANTS
    Actions = {1, 2, 3}
    NeedsApproval = {}
    Denied = {1, 2, 3}
    Planning = {}
    MaxCalls = 1
    MaxIterations = 3
    MaxToolCalls = 1
    Patience = 3
    Titles = {t1}
    Stoppers = {s1}
    MaxTurns = 1
    MaxCrashes = 0
    ConfigBreaks = FALSE
SPECIFICATION Spec
PROPERTIES
    VerdictIsKept
CHECK_DEADLOCK FALSE
