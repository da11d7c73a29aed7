SPECIFICATION FairSpec
CONSTANTS
    n1 = n1
    n2 = n2
    f1 = f1
    f2 = f2
    Nodes <- TwoNodes
    Flushers <- OneFlush
    Batch = 1
    MaxBeats = 3
    MaxDbFailures = 2
    CommitsMayBeLost = TRUE
    LongOutages = FALSE
    MaxValkeyFailures = 0
    MaxCrashes = 0
CHECK_DEADLOCK FALSE
INVARIANTS
    TypeOK
PROPERTIES
    GaugeNeverGoesBack
    BeatsReachTheRow
