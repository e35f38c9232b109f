SPECIFICATION Spec
CONSTANTS
    Proc = {p1, p2}
    Req = {r1, r2}
    Client = {c1, c2}
    None = none
    Reports = {"READY"}
    MaxTasks = 2
    MaxLapses = 1
    MaxCrashes = 1
SYMMETRY Symmetry
INVARIANTS
    TypeOK
    InitIsExclusive
    LockIsOwned
    OneClientPerProcess
    RegisteredIsWatched
PROPERTIES
    NoDoubleSpawn
CHECK_DEADLOCK FALSE
