SPECIFICATION FairSpec
CONSTANTS
    Workers = {w1, w2}
    NoWorker = NoWorker
    MaxAttempts = 3
    MaxStalls = 1
    Recipients = {c1}
    Events = {e1}
    NoRecipient = NoRecipient
    MaxFaults = 2
    MaxEntitlementChanges = 1
    Revocable = {c1}
    MaxScheduleFaults = 1
    LocksHold = FALSE
INVARIANTS
    AtMostOneMessage
PROPERTIES
    KeepsPromise
    EveryRecordConcludes
CHECK_DEADLOCK FALSE
