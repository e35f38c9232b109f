SPECIFICATION FairSpec
CONSTANTS
    Event = {v1}
    Endpoint = {e1}
    NoEndpoint = none
    Replay = {p1}
    Workers = 2
    MaxJobAttempts = 2
    MaxStalls = 1
    MaxChanges = 2
INVARIANTS
    SuccessIsAccepted
    PostsWithinRetries
    RowTellsLastJob
    PendingIsOwned
PROPERTIES
    JobsEnd
CHECK_DEADLOCK FALSE
