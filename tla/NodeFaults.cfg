SPECIFICATION Spec
CONSTANTS
    k1 = k1
    k2 = k2
    Keys <- OneKey
    MaxVersion = 2
    MaxFailures = 1
    MaxCrashes = 1
    MaxRestores = 1
    MayGoStale = TRUE
INVARIANTS
    TypeOK
    RevocationInv
    RevokedKeyRemoved
    CarriesOnlyTheDocument
