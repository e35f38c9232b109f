SPECIFICATION Spec
CONSTANTS
    Req = {r1, r2}
    None = none
    MyRole = "OWNER"
    AccessTTL = 1
    RefreshTTL = 2
    MaxTime = 2
    MaxVersions = 3
    LastStart = 1
SYMMETRY Symmetry
INVARIANTS
    TypeOK
    RefreshIsSingleUse
    SessionIsKept
    OneCurrentVersion
    NumbersAreUnique
PROPERTIES
    AccessEndsWithSession
CHECK_DEADLOCK FALSE
