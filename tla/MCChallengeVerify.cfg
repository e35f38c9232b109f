SPECIFICATION Spec
CONSTANTS
    Req = {r1, r2, r3}
    Concurrent = TRUE
    MaxAttempts = 1
    MaxJobAttempts = 1
    MaxStalls = 0
    CodeTTL = 0
    Cooldown = 0
    Retention = 1
    MaxCodes = 2
    MaxTime = 1
SYMMETRY ReqSymmetry
INVARIANTS
    TypeOK
    AttemptsWithinLimit
PROPERTIES
    VerifiedIsKept
CHECK_DEADLOCK FALSE
