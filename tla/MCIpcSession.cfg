SPECIFICATION FairSpec
CONSTANTS
    Events <- MCEvents
    MaxEvents = 2
    MaxRequests = 3
INVARIANTS
    TypeOK
    ToldToI3
    AwaitedReplyComing
    CommandReplyIsOwn
    FirstSubscribeIsClean
    EachLossLeavesOneStray
    EventFate
    DrainedBeforeShutdown
PROPERTIES
    CallsReturn
    ShutdownSignalled
    ImplementsFeed
