SPECIFICATION Spec
CONSTANTS
    Sources = {"s1", "s2"}
    BackoffUntil <- SomeBackoff
    Schedulers = {1, 2}
    Hour = 1
    Page = 2
    MaxAttempts = 0
    Retries = {"r1"}
    MaxTime = 3
    MinTime = 2
    FirstAccess <- SomeAccess
    MaxFaults = 1
INVARIANTS TypeOK OneTaskPerHour NoRunIsLost
PROPERTIES RowsArePublished SourcesAreWatched
CHECK_DEADLOCK FALSE
