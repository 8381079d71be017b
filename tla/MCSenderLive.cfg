SPECIFICATION FairSpec
CONSTANTS
    MaxBytes = 2
    ByteSizes = {1, 2}
    InitialRetryDelay = 1
    MaximumRetryDelay = 1
    MaxBatchSize = 2
    Blank <- MCBlank
    MaxBatches = 2
    MaxCrashes = 1
    Counts = {2, 3}
    Env = {"net_fault", "refuse", "crash", "stop", "clock_step"}
INVARIANTS
    NoOrphanClaim
    BufferWithinLimit
    EvictedOnlyForSpace
PROPERTIES
    EveryBatchSettles
    CancelledSenderFinishes
