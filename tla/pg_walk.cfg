SPECIFICATION Spec
CONSTANTS
    Rows <- MCRows
    Batches <- MCBatches
    maxListLimit = 2
    Limits <- MCLimits
CHECK_DEADLOCK FALSE
INVARIANTS
    MissHasReason
    RepeatHasReason
