SPECIFICATION Spec
CONSTANTS
    Paths = {p1, p2}
    NoPath = NoPath
    MaxStarts = 2
    MaxHeld = 2
INVARIANTS
    EmittedOnLiveConnection
CHECK_DEADLOCK FALSE
