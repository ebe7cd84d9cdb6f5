SPECIFICATION Spec
CONSTANTS
    Recipients = {p1, p2}
    None = None
    MainRetries = 1
    FallbackRetries = 1
    HasFallback = TRUE
    MaxCrashes = 1
INVARIANTS DialogueIsBacked EgressOnlyToAccepted
PROPERTIES RegistrationIsHonest
