SPECIFICATION Spec
CONSTANTS
    r1 = r1
    r2 = r2
    w1 = w1
    w2 = w2
    TaskRuns = {r1}
    ChatRuns = {r1}
    RetryRuns = {r2}
    SpareRuns = {r2}
    Workers = {w1, w2}
    NoRun = NoRun
    NoWorker = NoWorker
    MaxApprovals = 2
    MaxEntries = 3
    MaxOwed = 1
    MaxFailures = 1
    MaxRetry = 1
    Controls = {}
    Chats = {}
    ResumesOverlap = FALSE
    EarlyDecision = FALSE
    LapseIn = {}
SYMMETRY Symmetry
INVARIANTS
    OneWorkerPerRun
    CompletionIsEarned
CHECK_DEADLOCK FALSE
