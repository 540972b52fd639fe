SPECIFICATION Spec
CONSTANTS
    d1 = d1
    d2 = d2
    drain = drain
    drain2 = drain2
    Recovery = Recovery
    None = None
    Deliveries = {d1}
    Profiles <- BestEffort
    Drains = {drain}
    StorageMayFail = FALSE
    BudgetMayExpire = FALSE
    MaxRetries = 2
    MaxCrashes = 1
    Many = 2
INVARIANT
    AckedWasDelivered
CHECK_DEADLOCK FALSE
