SPECIFICATION Spec
CONSTANTS
    r1 = r1
    Requests <- OneRequest
    MaxRetries = 3
    ClientTimeout = 10
    Delay <- Doubling
    Grace = 60
CHECK_DEADLOCK FALSE
INVARIANTS
    WorkerHasStopped
