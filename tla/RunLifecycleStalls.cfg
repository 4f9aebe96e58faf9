SPECIFICATION Spec
CONSTANTS
    r1 = r1
    r2 = r2
    w1 = w1
    w2 = w2
    TaskRuns = {r1}
    ChatRuns = {}
    RetryRuns = {}
    SpareRuns = {r2}
    Workers = {w1, w2}
    NoRun = NoRun
    NoWorker = NoWorker
    MaxApprovals = 1
    MaxEntries = 3
    MaxOwed = 1
    MaxFailures = 0
    MaxRetry = 1
    Controls = {}
    Chats = {}
    ResumesOverlap = FALSE
    EarlyDecision = TRUE
    LapseIn <- AnyStep
SYMMETRY Symmetry
INVARIANTS
    TypeOK
    SingleUse
    TruthfulOutcome
    QueuedHasMessage
PROPERTIES
    LedgerSpec
    StrandedByEarlyDecision
CHECK_DEADLOCK FALSE
