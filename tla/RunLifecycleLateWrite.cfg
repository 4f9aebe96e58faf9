SPECIFICATION FairSpec
CONSTANTS
    r1 = r1
    r2 = r2
    w1 = w1
    TaskRuns = {r1}
    ChatRuns = {}
    RetryRuns = {}
    SpareRuns = {r2}
    Workers = {w1}
    NoRun = NoRun
    NoWorker = NoWorker
    MaxApprovals = 1
    MaxEntries = 3
    MaxOwed = 1
    MaxFailures = 0
    MaxRetry = 1
    Controls = {}
    Chats = {}
    ResumesOverlap = FALSE
    EarlyDecision = FALSE
    LapseIn <- Continuation
PROPERTIES
    TerminalIsFinal
CHECK_DEADLOCK FALSE
