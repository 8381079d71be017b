SPECIFICATION MCIngestSpec
CONSTANTS
    Service = {s1, s2}
    Handler = {h1, h2}
    Days = {0, 2, 3, 5}
    MaxDays = 3
    MaxStreamEntries = 1
    MaxBatchSize = 2
    MaxRetries = 1
    MaxStrays = 1
    Faults = {"queue", "crash"}
INVARIANTS
    IngestTypeOK
    OverrunBound
    AnswerContract
    IdentityFromKey
PROPERTIES
    KeysKept
    ValidRetentionTakesEffect
