SPECIFICATION Spec
CONSTANTS
    Events <- MCEvents
    MaxEvents = 1
    MaxRequests = 2
INVARIANTS
    EventDescribesChange
