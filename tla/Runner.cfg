CONSTANTS
    Actions = {1, 2, 3}
    NeedsApproval = {1}
    Denied = {}
    Planning = {2, 3}
    MaxCalls = 2
    MaxIterations = 2
    MaxToolCalls = 1
    Patience = 2
    Titles = {t1}
    Stoppers = {s1}
    MaxTurns = 2
    MaxCrashes = 0
    ConfigBreaks = FALSE
SPECIFICATION FairSpec
PROPERTIES
    StopReturns
    ExecutionSettles
CHECK_DEADLOCK FALSE
