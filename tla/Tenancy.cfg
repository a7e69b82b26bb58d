SPECIFICATION MCSpec
CONSTANTS
    Users = {u1, u2}
    Founder = u1
    NoUser = NoUser
    Calls = {a1, a2}
    TelegramUsers = {b1, b2}
    SaasUsers = {c1, c2}
    LinkTokens = {a1, a2}
    NoAccount = NoAccount
    MaxUpdates = 3
    MaxTracked = 2
    MaxRestarts = 1
    MaxEligibilityChanges = 1
    Visits = {a1, a2}
    NoVisit = NoVisit
    ApiCalls = {"provision", "rotate"}
    MaxRegistrationTokens = 2
    MaxWebhookKeys = 2
    shop1 = shop1
    shop2 = shop2
    person = person
    Tenants = {shop1, shop2}
    People = {person}
    Shops = {shop1}
    Erasures <- MCErasures
    MaxEntries = 2
    MaxBackups = 1
    MaxDisasters = 1
    ListStores = {s1, s2}
    Keys = {1, 2, 3, 4, 5}
    PAGE_SIZE = 2
    MAX_REACHABLE = 4
    NoPage = NoPage
    NoCard = NoCard
    NoTap = NoTap
    MaxRowChanges = 1
    MaxMoves = 1
SYMMETRY MCSymmetry
INVARIANTS
    MCTypeOK
    OwnerRemains
    RedeemedOnce
    CredentialsStand
    ErasedStaysErased
    ReplayConverges
    ListsAgree
PROPERTIES
    OwnersAreForOwners
    OnlyUnlinkReleases
    HealthIsThePlugins
    OthersKeepTheirUser
CHECK_DEADLOCK FALSE
