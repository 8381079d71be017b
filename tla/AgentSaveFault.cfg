SPECIFICATION AgentSpec
CONSTANTS
    NumFiles = 1
    BatchSize = 1
    MaxLines = 2
    MaxGens = 1
    MaxRestarts = 0
    MaxBytes = 2
    ByteSizes = {1}
    Env = {"save_fault"}
INVARIANTS
    SkipsOnlyStored
