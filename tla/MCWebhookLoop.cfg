SPECIFICATION Spec
CONSTANTS
    Event = {v1}
    Endpoint = {e1, e2}
    NoEndpoint = none
    Replay = {}
    Workers = 2
    MaxJobAttempts = 2
    MaxStalls = 1
    MaxChanges = 1
SYMMETRY EndpointSymmetry
INVARIANTS
    TypeOK
    EveryMatchQueued
    OneStrandedPerEvent
CHECK_DEADLOCK FALSE
