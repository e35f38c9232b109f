SPECIFICATION Spec
CONSTANTS
    Proc = {p1, p2}
    Req = {r1, r2, r3}
    Client = {c1, c2}
    None = none
    Reports = {}
    MaxTasks = 2
    MaxLapses = 0
    MaxCrashes = 0
SYMMETRY Symmetry
PROPERTIES
    UnregistersItsOwn
CHECK_DEADLOCK FALSE
