SPECIFICATION Spec
CONSTANTS
    MaxBytes = 1
    ByteSizes = {1}
    InitialRetryDelay = 1
    MaximumRetryDelay = 5
    MaxBatchSize = 2
    Blank <- MCBlank
    MaxBatches = 2
    MaxCrashes = 1
    Counts = {2, 3}
    Env = {"net_fault", "queue_fault", "refuse", "crash", "stop", "remove_fault",
           "rename_fault", "read_fault", "readdir_fault", "clock_step"}
INVARIANTS
    SenderTypeOK
    DeletedOnlyIfQueued
    QuarantinedOnlyIfRefused
PROPERTIES
    EvictsNoMore
