SPECIFICATION Spec
CONSTANTS
    Req = {r1, r2}
    Concurrent = TRUE
    MaxAttempts = 1
    MaxJobAttempts = 2
    MaxStalls = 1
    CodeTTL = 0
    Cooldown = 1
    Retention = 1
    MaxCodes = 2
    MaxTime = 1
SYMMETRY ReqSymmetry
INVARIANTS
    CompletedMeansMailed
    MailsWithinRetries
    SentIsBacked
CHECK_DEADLOCK FALSE
