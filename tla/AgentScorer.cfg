SPECIFICATION Spec
CONSTANTS
    Configured = {"r1"}
    Announced = {"r2"}
    Events = "events"
    Kinds = {"calm", "unnumbered"}
    Answers <- SomeAnswers
    MaxResponse = 2
    MaxPosts = 3
    MaxTroubles = 1
INVARIANTS TypeOK CursorCoversEvaluations AlertsAreEarned
PROPERTIES StoredIsKept MessagesAreScored AnnouncedIsWatched
CHECK_DEADLOCK FALSE
