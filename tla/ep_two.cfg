SPECIFICATION Spec
CONSTANTS
    e1 = e1
    e2 = e2
    r1 = r1
    r2 = r2
    a = a
    b = b
    None = None
    EventIDs <- OneEvent
    Requests <- OneRequest
    Instances <- TwoInstances
    MaxRetries = 1
    MaxResends = 1
    Limit = 1
    MaxQueue = 3
    MaxFaults = 2
CHECK_DEADLOCK FALSE
SYMMETRY Symmetric
INVARIANTS
    OutcomeIsEarned
    BoundedRedelivery
