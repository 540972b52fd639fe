SPECIFICATION FairSpec
CONSTANTS
    main = main
    probe = probe
    Lanes <- MCLanes
    ProbeLanes <- MCProbeLanes
    Priorities = {0}
    Timeouts <- MCTimeouts
    Concurrency = {0, 1}
    Waiters = {w1}
    MaxEntries = 2
    MaxGeneration = 1
INVARIANTS
    WorkConserving
    NoLostWakeup
PROPERTIES
    EveryEntrySettles
    WaitersAnswer
