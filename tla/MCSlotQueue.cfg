SPECIFICATION FairSpec
CONSTANTS
    a = a
    b = b
    c = c
    d = d
    Req <- AllReq
    LookAhead <- Ahead
    Slots = 1
    MaxQueued = 2
PROPERTIES DemandFirst ImplementsSemaphore DemandServed
