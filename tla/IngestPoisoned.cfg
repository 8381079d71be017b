SPECIFICATION FairIngestSpec
CONSTANTS
    Service = {s1, s2}
    Handler = {}
    Days = {1, 5}
    MaxDays = 3
    MaxStreamEntries = 1
    MaxBatchSize = 2
    MaxRetries = 0
    MaxStrays = 0
    Faults = {"queue", "crash"}
PROPERTIES
    RetentionTakesEffect
