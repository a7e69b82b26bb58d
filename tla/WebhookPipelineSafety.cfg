SPECIFICATION Spec
CONSTANTS
    Workers = {w1, w2}
    NoWorker = NoWorker
    MaxAttempts = 2
    MaxStalls = 1
    Deliveries = {d1}
    Requests = {r1, r2}
    NoDelivery = NoDelivery
    MaxCrashes = 0
    MaxDbFaults = 1
    LocksHold = FALSE
SYMMETRY MCSymmetry
INVARIANTS
    OneLiveProjector
    CompletedHasEffect
    AckedIsPublished
PROPERTIES
    SettledIsFinal
CHECK_DEADLOCK FALSE
