SPECIFICATION Spec
CONSTANTS
    n1 = n1
    n2 = n2
    f1 = f1
    f2 = f2
    Nodes <- OneNode
    Flushers <- TwoFlushes
    Batch = 1
    MaxBeats = 4
    MaxDbFailures = 1
    CommitsMayBeLost = TRUE
    LongOutages = TRUE
    MaxValkeyFailures = 1
    MaxCrashes = 1
SYMMETRY FlushSymmetry
CHECK_DEADLOCK FALSE
INVARIANTS
    OnlyLateOrExpiredBeatsLost
    NothingElseCountedTwice
    NothingStranded
