SPECIFICATION FairDeliverySpec
CONSTANTS
    NumFiles = 1
    BatchSize = 2
    MaxLines = 2
    MaxGens = 1
    MaxRestarts = 1
    MaxBytes = 1
    ByteSizes = {1}
    InitialRetryDelay = 1
    MaximumRetryDelay = 1
    MaxBatchSize = 2
    Blank <- MCBlank
    Env = {"send", "net_fault", "crash", "stop", "write_fault", "recover_fault"}
INVARIANTS
    NothingLostSilently
PROPERTIES
    ImplementsAgent
    EveryLineArrives
