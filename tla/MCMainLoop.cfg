SPECIFICATION FairSpec
CONSTANTS
    Contexts = {"default", "custom"}
    Nesters = {"event", "shutdown", "app"}
    MaxLoops = 3
    MaxDepth = 6
    MaxEvents = 2
    MaxReady = 2
INVARIANTS
    TypeOK
    QuitReachesInnermost
PROPERTIES
    LossEndsWaitingMain
