SPECIFICATION FairSpec
CONSTANTS
    Events = {e1, e2}
    NoEvent = NoEvent
    Handlers = {h1, h2}
    Requests = {r1}
    NoOrder = NoOrder
    Manual = Manual
    Widest = 2
    MaxRequests = 1
    MaxClosed = 1
    MaxFaults = 1
CHECK_DEADLOCK FALSE
INVARIANTS
    BeatenByOthers
    
    CodesInSequence
PROPERTIES
    DueUntilOrdered
    EventuallyOrdered
