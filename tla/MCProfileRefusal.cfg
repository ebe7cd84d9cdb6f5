SPECIFICATION FairSpec
CONSTANTS
    Recipients = {p1, p2}
    None = None
    MainRetries = 1
    FallbackRetries = 1
    HasFallback = TRUE
    MaxCrashes = 0
PROPERTIES
    RefusalHolds
