SPECIFICATION FairSpec
CONSTANTS
    r1 = r1
    r2 = r2
    w1 = w1
    w2 = w2
    TaskRuns = {r1}
    ChatRuns = {}
    RetryRuns = {}
    SpareRuns = {r2}
    Workers = {w1, w2}
    NoRun = NoRun
    NoWorker = NoWorker
    MaxApprovals = 1
    MaxEntries = 4
    MaxOwed = 1
    MaxFailures = 1
    MaxRetry = 1
    Controls = {}
    Chats = {}
    ResumesOverlap = FALSE
    EarlyDecision = FALSE
    LapseIn = {}
PROPERTIES
    RunsSettle
    ApprovedIsContinued
CHECK_DEADLOCK FALSE
