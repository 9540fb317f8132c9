SPECIFICATION FairSpec
CONSTANTS
    a = a
    b = b
    c = c
    None = None
    Instances <- ThreeInstances
    Last = 2
    MaxFaults = 2
CHECK_DEADLOCK FALSE
INVARIANTS
    TypeOK
    AppliedOnce
    TrackingIsTruthful
    ServingIsMigrated
    RerunIsSafe
PROPERTIES
    EveryStartEnds
