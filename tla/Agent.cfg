SPECIFICATION AgentSpec
CONSTANTS
    NumFiles = 1
    BatchSize = 2
    MaxLines = 2
    MaxGens = 2
    MaxRestarts = 1
    MaxBytes = 2
    ByteSizes = {1}
    Env = {"crash", "stop", "rotate", "write_fault", "read_fault", "filter",
           "send_one", "recover_fault"}
INVARIANTS
    AgentTypeOK
    SkipsOnlyStored
    CommitAccepted
PROPERTIES
    NoLineForgotten
