SPECIFICATION Spec
CONSTANTS
    n1 = n1
    me = me
    r1 = r1
    r2 = r2
    Nodes <- MCNodes
    Reader = me
    Requests <- MCRequests
    MaxChanges = 3
    InIssueOrder = TRUE
    BeatsRevive = TRUE
    KeysExpire = TRUE
    UsersGo = TRUE
    MaxDeaths = 1
SYMMETRY RequestSymmetry
CHECK_DEADLOCK FALSE
INVARIANTS
    TypeOK
    OnlySilentChangesMissed
    DeletedStaysOut
PROPERTIES
    OnlyQuarantinesAreLifted
