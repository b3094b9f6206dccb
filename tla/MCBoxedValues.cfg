SPECIFICATION Spec
CONSTANTS
    MaxValues = 4
    MaxTypes = 2
    MaxCons = 2
    MaxElements = 2
INVARIANTS
    TypeOK
    NothingDangles
    NothingIsLost
    ConnectionEnds
CHECK_DEADLOCK FALSE
