SPECIFICATION Spec
CONSTANTS
    MaxLines = 4
    MaxCrashes = 3
    SyncWorks = TRUE
INVARIANTS
    SkipsOnlyDurable
PROPERTIES
    SavesAtomically
    SavedInTheEnd
