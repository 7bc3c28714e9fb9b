SPECIFICATION Spec
CONSTANTS
    Files = {"notes"}
    Dir = "dir"
    Length = 2
    Alike <- MCAlike
    Calls <- MCCalls
    Requests <- MCRequests
    Policies <- MCPolicies
    MaxLog = 4
    MaxGroup = 2
    MaxClock = 3
    MaxTurns = 2
    Limit = 6
    Target = 4
    KeepRecent = 2
    ExcerptUnits = 2
INVARIANTS
    TypeOK
    ReuseIsCurrent
    EssentialsReachTheModel
    UnofferedNeedsTheUser
    SearchesStayInBudget
PROPERTY
    WebWaitsForEvidence
CHECK_DEADLOCK FALSE
