SPECIFICATION Spec
CONSTANTS
    Req = {r1, r2, r3, r4}
    Concurrent = FALSE
    MaxAttempts = 2
    MaxJobAttempts = 1
    MaxStalls = 0
    CodeTTL = 0
    Cooldown = 1
    Retention = 1
    MaxCodes = 2
    MaxTime = 1
SYMMETRY ReqSymmetry
INVARIANTS
    TriesWithinLimit
PROPERTIES
    VerdictFitsRow
    ImplementsBudget
CHECK_DEADLOCK FALSE
