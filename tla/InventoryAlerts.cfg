SPECIFICATION MCSpec
CONSTANTS
    Workers = {w1, w2}
    NoWorker = NoWorker
    MaxAttempts = 2
    MaxStalls = 1
    Recipients = {c1}
    Members = {c1}
    Events = {e1, e2}
    NoRecipient = NoRecipient
    MaxFaults = 1
    MaxEntitlementChanges = 0
    Revocable = {c1}
    MaxScheduleFaults = 0
    LocksHold = TRUE
    MaxPolicyChanges = 2
    MaxLinks = 1
    Products = {1}
    Variations <- MCVariations
    PageSize = 1
    Requests = {q1}
    MaxRevisions = 6
    MaxBootFaults = 2
    MaxVanished = 1
SYMMETRY MCSymmetry
INVARIANTS
    ReadyIsComplete
    SyncingIsAttended
PROPERTIES
    NoRevival
CHECK_DEADLOCK FALSE
