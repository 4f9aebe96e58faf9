SPECIFICATION FairSpec
CONSTANTS
    r1 = r1
    w1 = w1
    w2 = w2
    c1 = c1
    TaskRuns = {}
    ChatRuns = {r1}
    RetryRuns = {}
    SpareRuns = {}
    Workers = {w1, w2}
    NoRun = NoRun
    NoWorker = NoWorker
    MaxApprovals = 0
    MaxEntries = 2
    MaxOwed = 1
    MaxFailures = 0
    MaxRetry = 0
    Controls = {"pause", "stop"}
    Chats = {c1}
    ResumesOverlap = FALSE
    EarlyDecision = FALSE
    LapseIn = {}
PROPERTIES
    StopIsHonoured
CHECK_DEADLOCK FALSE
