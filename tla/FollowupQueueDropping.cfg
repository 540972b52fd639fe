SPECIFICATION Spec
CONSTANTS
    ann = ann
    bob = bob
    room = room
    thread = thread
    Solo = Solo
    N = 3
    Origins <- Mixed
    Settings <- AnyPolicy
    Cap = 2
    MayClear = TRUE
    Queues <- TwoQueues
    MaxFailures = 1
INVARIANTS
    TypeOK
    AnsweredOnce
    PendingIsReachable
CHECK_DEADLOCK FALSE
