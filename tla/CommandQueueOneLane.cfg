SPECIFICATION Spec
CONSTANTS
    main = main
    probe = probe
    Lanes <- OneLane
    ProbeLanes <- MCProbeLanes
    Priorities <- TwoPriorities
    Timeouts = {TRUE, FALSE}
    Concurrency <- MCConcurrency
    Waiters = {}
    MaxEntries = 3
    MaxGeneration = 1
INVARIANTS
    TypeOK
    SlotAccounting
    QueueAccounting
PROPERTIES
    KeepsPromise
