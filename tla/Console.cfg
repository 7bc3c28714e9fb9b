CONSTANTS
    Actions = {1, 2, 3}
    NeedsApproval = {2}
    Denied = {3}
    Planning = {}
    MaxCalls = 2
    MaxIterations = 2
    MaxToolCalls = 2
    Patience = 3
    Titles = {t1}
    Stoppers = {s1}
    MaxTurns = 2
    MaxCrashes = 1
    ConfigBreaks = FALSE
SPECIFICATION Spec
INVARIANTS
    ConsoleInv
    HistoryIsSendable
    EffectsAreAccounted
    SuccessIsReal
    ConsentFirst
    PendingIsAwaited
    EventsFollowLedger
PROPERTIES
    StopPreventsTools
CHECK_DEADLOCK FALSE
