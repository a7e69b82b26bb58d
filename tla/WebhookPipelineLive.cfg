SPECIFICATION FairSpec
CONSTANTS
    Workers = {w1}
    NoWorker = NoWorker
    MaxAttempts = 2
    MaxStalls = 1
    Deliveries = {d1, d2}
    Requests = {r1, r2}
    NoDelivery = NoDelivery
    MaxCrashes = 0
    MaxDbFaults = 0
    LocksHold = TRUE
INVARIANTS
    FailedJobDeadLettered
PROPERTIES
    AckedSettles
CHECK_DEADLOCK FALSE
