SPECIFICATION Spec
CONSTANTS
    r1 = r1
    w1 = w1
    TaskRuns = {r1}
    ChatRuns = {}
    RetryRuns = {}
    SpareRuns = {}
    Workers = {w1}
    NoRun = NoRun
    NoWorker = NoWorker
    MaxApprovals = 1
    MaxEntries = 2
    MaxOwed = 1
    MaxFailures = 0
    MaxRetry = 0
    Controls = {}
    Chats = {}
    ResumesOverlap = FALSE
    EarlyDecision = TRUE
    LapseIn = {}
INVARIANTS
    WaitingIsUndecided
CHECK_DEADLOCK FALSE
