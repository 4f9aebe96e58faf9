SPECIFICATION FairSpec
CONSTANTS
    r1 = r1
    r2 = r2
    t1 = t1
    t2 = t2
    c1 = c1
    Runs = {r1, r2}
    Writers = {t1, t2}
    NoWriter = NoWriter
    Clients = {c1}
    Limit = 2
    MaxGlobal = 4
    MaxDrops = 2
INVARIANTS
    NothingSkipped
    SeqIsDense
PROPERTIES
    ShownOnce
    EventsArrive
CHECK_DEADLOCK FALSE
