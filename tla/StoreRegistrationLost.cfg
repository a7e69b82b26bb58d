SPECIFICATION RegistrationSpec
CONSTANTS
    Visits = {v1, v2}
    NoVisit = NoVisit
    ApiCalls = {}
    MaxRegistrationTokens = 2
    MaxWebhookKeys = 2
SYMMETRY MCSymmetry
INVARIANTS
    AnsweredIsConnected
CHECK_DEADLOCK FALSE
