SPECIFICATION FairSpec
CONSTANTS
    MaxAttempts = 3
    MaxCalls = 4
    AllowExternal = TRUE
CHECK_DEADLOCK FALSE
INVARIANTS
    TypeOK
    OneShutdown
    DrainRefusesWork
    LifecycleTakesWork
    LockAccounted
    NoLimbo
PROPERTIES
    RestartHappens
    StopHonoured
