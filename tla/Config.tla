------------------------------- MODULE Config -------------------------------
(***************************************************************************)
(* The agent's configuration (cmd/agent/config.go): what LoadConfig makes  *)
(* of a decoded YAML document, or that it refuses it.  "" stands for a     *)
(* missing entry and " " for a text of white space; a percentage that is   *)
(* no number or out of range is -1.                                        *)
(***************************************************************************)
EXTENDS Schema, SequencesExt

CONSTANTS
    Hostname,       \* what os.Hostname returns
    Zones           \* offsets of the known time zones, "local" among them

ASSUME ConfigAssumption == "local" \in DOMAIN Zones

OrDefault(value, none, default) == IF value = none THEN default ELSE value

applyDefaults(config) ==
    [config EXCEPT
        !.host = OrDefault(@, "", Hostname),
        !.env = OrDefault(@, "", "development"),
        !.max_buffer_size_mb = OrDefault(@, 0, 512),
        !.batch_size = OrDefault(@, 0, 500),
        !.flush_interval = OrDefault(@, 0, 5),
        !.min_level = OrDefault(@, "", "trace")]

ConfiguredLevels == {"trace", "debug", "info", "warn", "warning", "error", "err",
                     "fatal", "critical"}

Clean(path) == SelectSeq(path, LAMBDA element : element # ".")

TimeZone(file) == IF file.time_zone \in {"", "local time"} THEN "local" ELSE file.time_zone

ValidFiles(files) ==
    /\ files # <<>>
    /\ \A i \in DOMAIN files :
           /\ files[i].path # <<>>
           /\ files[i].format \in {"", "auto", "json", "syslog", "text"}
           /\ TimeZone(files[i]) \in DOMAIN Zones
           /\ \A j \in DOMAIN files : Clean(files[i].path) = Clean(files[j].path) => i = j

\* Two names of one level are refused.
ValidSampling(sampling) ==
    \A level \in DOMAIN sampling :
        /\ level \in ConfiguredLevels
        /\ sampling[level] \in 0 .. 100
        /\ \A other \in DOMAIN sampling :
               NormalizeLevel(other) = NormalizeLevel(level) => other = level

Valid(config) ==
    /\ config.server_url \in {"http", "https"}      \* by its scheme
    /\ config.api_key \notin {"", " "}
    /\ config.max_buffer_size_mb >= 1
    /\ config.batch_size >= 1
    /\ config.flush_interval > 0
    /\ config.min_level \in ConfiguredLevels
    /\ ValidSampling(config.sampling)
    /\ ValidFiles(config.files)

\* What Validate changes.
Normalized(config) ==
    LET sampling == config.sampling
        names(level) == {n \in DOMAIN sampling : NormalizeLevel(n) = level}
    IN  [config EXCEPT
            !.min_level = NormalizeLevel(@),
            !.sampling = [level \in {NormalizeLevel(n) : n \in DOMAIN sampling} |->
                             sampling[CHOOSE n \in names(level) : TRUE]],
            !.files = [i \in DOMAIN @ |->
                         [path     |-> @[i].path,
                          format   |-> OrDefault(@[i].format, "", "auto"),
                          location |-> Zones[TimeZone(@[i])]]]]

SamplingPercentage(config, level) ==
    IF NormalizeLevel(level) \in DOMAIN config.sampling
    THEN config.sampling[NormalizeLevel(level)] ELSE 100
=============================================================================
