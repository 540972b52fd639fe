SPECIFICATION Spec
CONSTANTS
    ann = ann
    bob = bob
    room = room
    thread = thread
    Solo = Solo
    N = 3
    Origins <- Alone
    Settings <- Summarizing
    Cap = 2
    MayClear = FALSE
    Queues <- TwoQueues
    MaxFailures = 0
INVARIANTS
    NothingLost
CHECK_DEADLOCK FALSE
