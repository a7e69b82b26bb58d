SPECIFICATION Spec
CONSTANTS
    Projectors = {p1, p2}
    NoRow = NoRow
    PROJECTION_TRANSACTION_ATTEMPTS = 2
    MaxRevision = 2
    SameSecond = FALSE
    Unmappable = TRUE
    InOrder = FALSE
    Refreshes = TRUE
SYMMETRY MCSymmetry
INVARIANTS
    CompletedIsCovered
PROPERTIES
    NeverOlder
CHECK_DEADLOCK FALSE
