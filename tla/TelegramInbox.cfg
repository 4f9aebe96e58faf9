SPECIFICATION Spec
CONSTANTS
    Updates = {"u1"}
    Requests = {1, 2, 3}
    MaxFaults = 3
    MaxCrashes = 2
INVARIANTS ProcessedWasHandled QuietIsOnce AnsweredIsApplied
PROPERTIES UpdatesAreHandled
CHECK_DEADLOCK FALSE
