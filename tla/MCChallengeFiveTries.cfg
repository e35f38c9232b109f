SPECIFICATION Spec
CONSTANTS
    Req = {r1, r2, r3, r4}
    Concurrent = TRUE
    MaxAttempts = 2
    MaxJobAttempts = 1
    MaxStalls = 0
    CodeTTL = 1
    Cooldown = 1
    Retention = 2
    MaxCodes = 1
    MaxTime = 0
SYMMETRY ReqSymmetry
INVARIANTS
    FiveTriesPerCode
CHECK_DEADLOCK FALSE
