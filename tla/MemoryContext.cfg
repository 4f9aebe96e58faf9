SPECIFICATION Spec
CONSTANTS
    m1 = m1
    m2 = m2
    s1 = s1
    s2 = s2
    Items = {m1, m2}
    Confident = {m1}
    Mortal = {m1}
    Sessions = {s1, s2}
    MinRuns = 1
    Reserve = 2
    MinRoom = 4
    Boundary = 1
    Size <- Sizes
    Goals = {2, 13}
    Extras <- SomeExtras
    MaxExtras = 2
    MaxTokens = 14
    TopK = 2
SYMMETRY Symmetry
INVARIANTS
    OnlyEndorsed
    RejectionSticks
    ContextFits
    ContextIsFull
    ContextIsRanked
CHECK_DEADLOCK FALSE
