SPECIFICATION Spec
CONSTANTS
    n1 = n1
    n2 = n2
    f1 = f1
    f2 = f2
    Nodes <- OneNode
    Flushers <- OneFlush
    Batch = 1
    MaxBeats = 3
    MaxDbFailures = 0
    CommitsMayBeLost = FALSE
    LongOutages = FALSE
    MaxValkeyFailures = 0
    MaxCrashes = 0
CHECK_DEADLOCK FALSE
INVARIANTS
    NothingLost
