SPECIFICATION ProjectionSpec
CONSTANTS
    product = product
    variation = variation
    Items = {product, variation}
    NoItem = NoItem
    Parent <- MCParent
    Projectors = {w1, w2}
    NoRow = NoRow
    MaxRevision = 2
    Stocks = {"few", "none", "untracked"}
    SameSecond = FALSE
    Lapses = FALSE
    MaxAhead = 1
    MaxRare = 2
SYMMETRY MCSymmetry
INVARIANTS
    RowsCatchUp
    AlertReachesQueue
PROPERTIES
    LiveItemNeverOlder
    IncidentIsNew
CHECK_DEADLOCK FALSE
