SPECIFICATION Spec
CONSTANTS
    Files = {"a"}
    Plans <- MCPlans
    Requests <- MCRequests
    Tries <- MCTries
    Follows <- MCFollows
    PlanLimit = 2
    MaxRounds = 3
    MaxTurns = 2
    MaxClock = 3
INVARIANTS
    WorkflowInv
    CompletedIsDelivered
    SuccessIsNotInvented
PROPERTY
    ReachedItemsAreKept
CHECK_DEADLOCK FALSE
