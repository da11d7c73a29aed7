SPECIFICATION Spec
CONSTANTS
    k1 = k1
    k2 = k2
    Keys <- TwoKeys
    MaxVersion = 2
    MaxFailures = 0
    MaxCrashes = 0
    MaxRestores = 0
    MayGoStale = TRUE
SYMMETRY KeySymmetry
INVARIANT
    StaleRemovesEveryPeer
