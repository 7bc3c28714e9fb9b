CONSTANTS
    Actions = {1, 2}
    NeedsApproval = {2}
    Denied = {}
    Planning = {}
    MaxCalls = 2
    MaxIterations = 2
    MaxToolCalls = 1
    Patience = 3
    Titles = {t1, t2}
    Stoppers = {s1, s2}
    MaxTurns = 2
    MaxCrashes = 1
    ConfigBreaks = TRUE
SPECIFICATION Spec
INVARIANTS
    ConsoleInv
    EffectsWithinLimit
    RenameSticks
    DeletedStaysDeleted
    LiveIsRegistered
PROPERTIES
    CompletedIsKept
    ImplementsLifecycle
SYMMETRY StoppersAreAlike
CHECK_DEADLOCK FALSE
