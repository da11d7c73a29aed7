SPECIFICATION FairSpec
CONSTANTS
    k1 = k1
    k2 = k2
    Keys <- OneKey
    MaxVersion = 2
    MaxFailures = 0
    MaxCrashes = 1
    MaxRestores = 1
    MayGoStale = TRUE
PROPERTIES
    TracksControlPlane
    FailClosedEnds
