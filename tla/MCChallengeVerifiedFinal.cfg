SPECIFICATION Spec
CONSTANTS
    Req = {r1, r2, r3}
    Concurrent = TRUE
    MaxAttempts = 2
    MaxJobAttempts = 1
    MaxStalls = 0
    CodeTTL = 1
    Cooldown = 1
    Retention = 2
    MaxCodes = 2
    MaxTime = 1
SYMMETRY ReqSymmetry
PROPERTIES
    VerifiedIsFinal
CHECK_DEADLOCK FALSE
