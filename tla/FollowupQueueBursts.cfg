SPECIFICATION FairSpec
CONSTANTS
    ann = ann
    bob = bob
    room = room
    thread = thread
    Solo = Solo
    N = 3
    Origins <- Everyone
    Settings <- Refusing
    Cap = 3
    MayClear = FALSE
    Queues <- TwoQueues
    MaxFailures = 1
INVARIANTS
    NothingLost
    BatchesAreUniform
    NotStranded
PROPERTIES
    InOrder
    EveryMessageSettles
CHECK_DEADLOCK FALSE
