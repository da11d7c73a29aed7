SPECIFICATION FairSpec
CONSTANTS
    i1 = i1
    i2 = i2
    Instances <- TwoInstances
    MaxFaults = 2
    MaxStops = 1
INVARIANTS
    TypeOK
    LeaderInv
    OneLeader
    LockIsLeased
    StoppedHoldsNothing
PROPERTY
    SomeoneLeads
