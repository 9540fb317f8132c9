SPECIFICATION FairSpec
CONSTANTS
    order = order
    payment = payment
    user = user
    c1 = c1
    a = a
    None = None
    EventIDs <- PaymentAndUser
    Clients <- OneClient
    Instances <- OneInstance
    RequestIds <- PaymentAndUser
    MaxRetries = 1
    MaxResends = 0
    Limit = 1
    MaxQueue = 1
    MaxPosts = 2
    TypeOf <- MCTypeOf
    PayloadOf <- MCPayloadOf
    DispatchMaxRetries = 0
    MaxFaults = 1
CHECK_DEADLOCK FALSE
INVARIANTS
    TypeOK
    RejectedLeavesNothing
    TablesAgree
    LossHasReason
PROPERTIES
    EventuallyNotified
