SPECIFICATION Spec
CONSTANTS
    order = order
    user = user
    r1 = r1
    r2 = r2
    r3 = r3
    None = None
    EventIDs <- TwoEvents
    Requests <- ThreeRequests
    TypeOf <- MCTypeOf
    PayloadOf <- MCPayloadOf
    MaxRetries = 1
    MaxFaults = 3
CHECK_DEADLOCK FALSE
SYMMETRY Symmetric
INVARIANTS
    TypeOK
    OneDispatcher
    BoundedCalls
    RecordIsTruthful
    CreatedIsHonest
    PendingHasReason
    WaitsAreOrdered
PROPERTIES
    ImplementsLedger
