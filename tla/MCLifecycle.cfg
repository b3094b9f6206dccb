SPECIFICATION FairSpec
CONSTANTS
    Paths = {p1, p2}
    NoPath = NoPath
    MaxStarts = 3
    MaxHeld = 2
INVARIANTS
    TypeOK
    MessageHasChannels
    EventsAreWatched
    OneInitOwnsItsSockets
    ShutdownOncePerInit
PROPERTIES
    ShutdownHeard
CHECK_DEADLOCK FALSE
