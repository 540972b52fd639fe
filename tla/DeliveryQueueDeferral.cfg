SPECIFICATION Spec
CONSTANTS
    d1 = d1
    d2 = d2
    drain = drain
    drain2 = drain2
    Recovery = Recovery
    None = None
    Deliveries = {d1, d2}
    Profiles <- TwoProfiles
    Drains = {drain}
    StorageMayFail = FALSE
    BudgetMayExpire = TRUE
    MaxRetries = 2
    MaxCrashes = 0
    Many = 2
INVARIANT
    AckedNotReplayed
CHECK_DEADLOCK FALSE
