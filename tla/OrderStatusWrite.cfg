SPECIFICATION Spec
CONSTANTS
    Requests = {r1, r2}
    References = {f1, f2}
    NoReference = NoReference
    Merchant = Merchant
    StoreStatuses = {"processing"}
    MaxChanges = 1
    MaxFaults = 1
SYMMETRY MCSymmetry
INVARIANTS
    SingleEffect
    VerdictsAreTrue
PROPERTIES
    RecordedOnce
CHECK_DEADLOCK FALSE
