SPECIFICATION FairSpec
CONSTANTS
    d1 = d1
    d2 = d2
    drain = drain
    drain2 = drain2
    Recovery = Recovery
    None = None
    Deliveries = {d1, d2}
    Profiles <- TwoProfiles
    Drains = {}
    StorageMayFail = FALSE
    BudgetMayExpire = TRUE
    MaxRetries = 1
    MaxCrashes = 0
    Many = 2
PROPERTY
    ClaimsReleased
CHECK_DEADLOCK FALSE
