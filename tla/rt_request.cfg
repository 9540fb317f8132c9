SPECIFICATION Spec
CONSTANTS
    Channels = 2
    MaxRetries = 3
    Delay <- Doubling
    ClientTimeout = 40
    DrainTimeout = 40
    Fit = 1
CHECK_DEADLOCK FALSE
INVARIANTS
    TypeOK
    AnsweredInTime
    DrainLetsFinish
    OneLateCall
