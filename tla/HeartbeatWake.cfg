SPECIFICATION FairSpec
CONSTANTS
    agent = agent
    session = session
    Targets <- MCTargets
    Priorities <- MCPriorities
    Delays <- MCDelays
    DefaultDelay = 1
    RetryDelay = 2
    MaxRequests = 2
    MaxRegistrations = 3
    MaxThrows = 1
INVARIANTS
    TypeOK
    NothingForgotten
    NoWakeSleeps
    RunningTells
PROPERTIES
    CooldownKept
    EveryWakeHanded
CHECK_DEADLOCK FALSE
