SPECIFICATION Spec
CONSTANTS
    Millisecond = 4
    Second = 12
    Year = 128
    LastYear = 9
    MaxSkew = 16
    MaxDuration = 730
    MaxMessageLength = 6
    MinDigits = 3
    MaxDigits = 4
    UnixEpoch = 256
    EpochLimit = 20
    Ulp = 3
    MaxPriority = 191
    Hostname = "machine"
    Zones <- MCZones
    Scenarios <- MCScenarios
INVARIANTS
    ReadAsMeant
    NeverFarAhead
    TimestampHonest
    SkewTells
    NothingSensitiveStored
    OnlySensitiveMasked
    UnflaggedUntouched
    RuneSafe
    FilterHonoured
    WithheldOnlyIfUnusable
