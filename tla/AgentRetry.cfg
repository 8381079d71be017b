SPECIFICATION AgentSpec
CONSTANTS
    NumFiles = 2
    BatchSize = 2
    MaxLines = 1
    MaxGens = 2
    MaxRestarts = 0
    MaxBytes = 2
    ByteSizes = {1}
    Env = {"rotate", "regrow", "regrow_unseen", "write_fault", "save_fault"}
INVARIANTS
    WrittenOnce
