SPECIFICATION FairSpec
CONSTANTS
    e1 = e1
    e2 = e2
    r1 = r1
    r2 = r2
    a = a
    b = b
    None = None
    EventIDs <- TwoEvents
    Requests <- TwoRequests
    Instances <- OneInstance
    MaxRetries = 0
    MaxResends = 0
    Limit = 1
    MaxQueue = 2
    MaxFaults = 1
CHECK_DEADLOCK FALSE
PROPERTIES
    EventuallyTerminal
