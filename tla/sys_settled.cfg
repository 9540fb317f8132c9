SPECIFICATION FairSpec
CONSTANTS
    order = order
    payment = payment
    user = user
    c1 = c1
    a = a
    None = None
    EventIDs <- Order
    Clients <- OneClient
    Instances <- OneInstance
    RequestIds <- OrderOrNone
    MaxRetries = 1
    MaxResends = 0
    Limit = 1
    MaxQueue = 1
    MaxPosts = 2
    TypeOf <- MCTypeOf
    PayloadOf <- MCPayloadOf
    DispatchMaxRetries = 0
    MaxFaults = 0
CHECK_DEADLOCK FALSE
PROPERTIES
    ProcessedIsSettled
