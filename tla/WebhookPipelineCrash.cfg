SPECIFICATION Spec
CONSTANTS
    Workers = {w1, w2}
    NoWorker = NoWorker
    MaxAttempts = 3
    MaxStalls = 1
    Deliveries = {d1}
    Requests = {r1, r2}
    NoDelivery = NoDelivery
    MaxCrashes = 2
    MaxDbFaults = 0
    LocksHold = TRUE
SYMMETRY MCSymmetry
INVARIANTS
    CompletedJobSettled
CHECK_DEADLOCK FALSE
