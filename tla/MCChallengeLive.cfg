SPECIFICATION FairSpec
CONSTANTS
    Req = {r1, r2}
    Concurrent = TRUE
    MaxAttempts = 1
    MaxJobAttempts = 2
    MaxStalls = 0
    CodeTTL = 1
    Cooldown = 0
    Retention = 0
    MaxCodes = 2
    MaxTime = 0
PROPERTIES
    DeliveryEnds
    CodeIsQueued
CHECK_DEADLOCK FALSE
