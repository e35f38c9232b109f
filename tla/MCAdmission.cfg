SPECIFICATION Spec
CONSTANTS
    Req = {r1, r2, r3}
    Dest = {d1, d2}
    Key = {k1}
    NoKey = none
    RateLimit = 2
    RateTtl = 1
    MaxTime = 1
    FloodLimit = 2
    FloodPeriod = 1
    HourlyLimit = 2
    Hour = 0
    DailyLimit = 2
    Day = 1
    Cooldown = 1
    Outcomes = {"lost"}
SYMMETRY Symmetry
INVARIANTS
    TypeOK
    RateWithinWindow
    StuckOnlyByCrash
    QuotaWithinOverlap
    CooldownWithinOverlap
    ConflictNeedsOverlap
    FloodWithinOverlap
    SoftLimitIsNoticed
CHECK_DEADLOCK FALSE
