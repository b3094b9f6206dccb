SPECIFICATION FairSpec
CONSTANTS
    Contexts = {"custom"}
    Nesters = {}
    MaxLoops = 1
    MaxDepth = 2
    MaxEvents = 1
    MaxReady = 0
PROPERTIES
    LossEndsMain
CHECK_DEADLOCK FALSE
