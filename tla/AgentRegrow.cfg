SPECIFICATION AgentSpec
CONSTANTS
    NumFiles = 1
    BatchSize = 1
    MaxLines = 2
    MaxGens = 2
    MaxRestarts = 0
    MaxBytes = 2
    ByteSizes = {1}
    Env = {"rotate", "regrow"}
INVARIANTS
    RestartsAfterShrink
