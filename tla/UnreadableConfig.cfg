CONSTANTS
    Actions = {1}
    NeedsApproval = {}
    Denied = {}
    Planning = {}
    MaxCalls = 1
    MaxIterations = 2
    MaxToolCalls = 1
    Patience = 3
    Titles = {t1}
    Stoppers = {s1}
    MaxTurns = 2
    MaxCrashes = 1
    ConfigBreaks = TRUE
SPECIFICATION Spec
INVARIANTS
    HistoryIsSendable
CHECK_DEADLOCK FALSE
