SPECIFICATION FairSpec
CONSTANTS
    Tools <- SomeTools
    RepoConfigured = TRUE
    Overrides <- RepoDenied
    MaxActions = 3
    MaxIterations = 2
    MaxToolCalls = 2
    Threshold = 2
    MaxAnswer = 4
    MaxFailures = 2
INVARIANTS
    CompletedIsRecorded
    StopBoundsWork
    BudgetHolds
PROPERTIES
    StepsSpec
    CoordinatorEnds
CHECK_DEADLOCK FALSE
