SPECIFICATION Spec
CONSTANTS
    Kinds <- MCKinds
    MaxCons = 4
    MaxRefs = 2
INVARIANTS
    TypeOK
    ParentIsAlive
    ReachableIsAlive
    ConnectionOutlivesCons
    RootReachesAll
    DescendentsInReplyOrder
    SearchesAgree
    ScratchpadFound
    LeavesAreLeaves
    OwnWorkspaceListed
CHECK_DEADLOCK FALSE
