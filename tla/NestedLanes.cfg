SPECIFICATION NestedSpec
CONSTANTS
    session = session
    Cron = cron
    Main = main
    CronNested = cronNested
    SessionLanes = {session}
    Lanes <- MCLanes
    ProbeLanes = {}
    Priorities = {0}
    Timeouts = {TRUE, FALSE}
    Concurrency = {}
    Waiters = {}
    Limits = {1}
    MaxChanges = 2
    MaxEntries = 5
    MaxGeneration = 1
CHECK_DEADLOCK FALSE
INVARIANTS
    NoStandstill
    OneRunPerSession
    SuspensionEnds
PROPERTIES
    EveryRunSettles
