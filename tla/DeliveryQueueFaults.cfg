SPECIFICATION Spec
CONSTANTS
    d1 = d1
    d2 = d2
    drain = drain
    drain2 = drain2
    Recovery = Recovery
    None = None
    Deliveries = {d1}
    Profiles <- StrictProfiles
    Drains <- TwoDrains
    StorageMayFail = TRUE
    BudgetMayExpire = FALSE
    MaxRetries = 2
    MaxCrashes = 2
    Many = 2
INVARIANTS
    TypeOK
    SingleOwner
    AckedNotReplayed
    MarkedSentOnce
    AckedWasDelivered
SYMMETRY Symmetry
CHECK_DEADLOCK FALSE
