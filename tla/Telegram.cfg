SPECIFICATION MCSpec
CONSTANTS
    Projectors = {p1}
    NoRow = NoRow
    PROJECTION_TRANSACTION_ATTEMPTS = 1
    MaxRevision = 4
    SameSecond = TRUE
    Unmappable = FALSE
    InOrder = TRUE
    Refreshes = FALSE
    Members = {m1}
    Stores = {c1, c2}
    NoStore = NoStore
    Tenant = Tenant
    Tokens = {a1, a2}
    NoToken = NoToken
    Forms = {b1, b2}
    Asked <- MCAsked
    MaxSettingsChanges = 3
    MaxContextChanges = 2
    NoteRequests = {r1, r2, r3}
    Texts = {b1, b2}
    NoText = NoText
    Zones <- MCZones
    Instants <- MCInstants
    Nows = {0, 9, 10, 11, 12, 23}
    MaxOrders = 1
    NoReport = NoReport
SYMMETRY MCSymmetry
INVARIANTS
    MCTypeOK
    CurrentWhenCompleted
    DeletionAtRest
    SettingsAreExplained
    SentAsConfirmed
    NoteEndsAreTrue
PROPERTIES
    ReportIsOfItsDay
CHECK_DEADLOCK FALSE
