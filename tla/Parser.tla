------------------------------- MODULE Parser -------------------------------
(***************************************************************************)
(* From a line to a record (cmd/agent/parser.go).  A line is given by its  *)
(* shape and by what the patterns of that shape pick out of it:            *)
(*                                                                         *)
(*   json        fields, in the order of their names                       *)
(*   syslog5424  priority, time, host, message, attributes                 *)
(*   syslog      priority, moment (a date without a year), the same rest   *)
(*   text        time, level, message                                      *)
(*   plain       nothing                                                   *)
(*                                                                         *)
(* The shapes exclude one another.  A time is an epoch number, a date with *)
(* an offset ("utc"), one without ("local"), or neither.  A result that    *)
(* may fail is the set of the results, empty or a singleton.               *)
(***************************************************************************)
EXTENDS Schema, SequencesExt

CONSTANTS
    Second,         \* ticks in a second
    UnixEpoch,      \* the start of 1970
    EpochLimit,     \* numbers from here on are milliseconds, 100_000_000_000
    Ulp,            \* ticks between two float64 numbers of seconds of that size
    MaxPriority     \* 191

ASSUME ParserAssumption ==
    /\ {Second, UnixEpoch, EpochLimit, MaxPriority} \subseteq Nat
    /\ Ulp \in Nat \ {0}

NoPriority == -1

\* The float64 number of seconds next to a time since 1970.
Nearest(time) == time + Ulp \div 2 - ((time + Ulp \div 2) % Ulp)

\* Mutant: milliseconds before 1970 are taken for seconds.
parseEpochPositive(number) ==
    UnixEpoch + IF number >= EpochLimit THEN Nearest(number * Millisecond)
                                        ELSE number * Second

\* Milliseconds are divided by 1000 in floating point, which may end in the
\* millisecond before.  Nanoseconds, cut off after that, are below a tick.
parseEpoch(number) ==
    UnixEpoch + IF number >= EpochLimit \/ -number >= EpochLimit
                THEN Nearest(number * Millisecond) ELSE number * Second

parseTimestampString(time, zone) ==
    CASE time.form = "utc"   -> {time.n}
      [] time.form = "local" -> {time.n - zone}
      [] OTHER               -> {}

parseJSONTimestamp(time, zone) ==
    IF time.form = "epoch" THEN {parseEpoch(time.n)}
                           ELSE parseTimestampString(time, zone)

syslogLevel(severity) ==
    <<"fatal", "fatal", "fatal", "error", "warn", "info", "info", "debug">>[severity + 1]

\* levelPattern finds a level's name that stands alone; "error" is the one in
\* the model.
guessLevel(text) ==
    LET joins == Digit \cup {Letter, Error, Mail}
        stands(i) == /\ text[i] = Error
                     /\ i = 1 \/ text[i - 1] \notin joins
                     /\ i = Len(text) \/ text[i + 1] \notin joins \cup {Key}
    IN  IF \E i \in DOMAIN text : stands(i) THEN "error" ELSE "info"

-----------------------------------------------------------------------------
\* Separators and case do not matter for the name of a field.
normalizeFieldName(name) == FlattenSeq(name)

TimestampKeys == {<<"timestamp">>, <<"time">>, <<"ts">>, <<"date", "time">>,
                  <<"date">>, <<"event", "time">>}
LevelKeys == {<<"level">>, <<"severity">>, <<"log", "level">>}
MessageKeys == {<<"message">>, <<"msg">>, <<"log">>, <<"body">>, <<"event">>}
ServiceKeys == {<<"service">>, <<"service", "name">>, <<"application">>, <<"app">>}
HostKeys == {<<"host">>, <<"host", "name">>, <<"source", "host">>}
EnvKeys == {<<"env">>, <<"environment">>, <<"environment", "name">>}

\* One turn of the loop over the sorted keys; raw is the field's rawValue.
SetField(log, field, zone) ==
    LET key  == normalizeFieldName(field.name)
        attribute == [log EXCEPT !.attributes =
                         Overwritten(@, [name \in {field.name} |-> field.raw])]
        times == parseJSONTimestamp(field.time, zone)
    IN  CASE key \in TimestampKeys ->
                IF times = {} THEN attribute
                ELSE [log EXCEPT !.timestamp = Max(times)]
          [] key \in LevelKeys -> [log EXCEPT !.level = field.raw]
          [] key = <<"priority">> ->
                [log EXCEPT !.level = IF field.n \in 0 .. MaxPriority
                                      THEN syslogLevel(field.n % 8) ELSE field.raw]
          [] key \in MessageKeys -> [log EXCEPT !.message = field.raw]
          [] key = <<"trace", "id">> -> [log EXCEPT !.trace_id = field.raw]
          [] key \in ServiceKeys -> [log EXCEPT !.service = field.raw]
          [] key \in HostKeys -> [log EXCEPT !.host = field.raw]
          [] key \in EnvKeys -> [log EXCEPT !.env = field.raw]
          [] key = <<"attributes">> -> [log EXCEPT !.attributes = Overwritten(@, field.map)]
          [] key = <<"redacted">> -> [log EXCEPT !.redacted = field.flag]
          [] key = <<"ingested", "at">> ->
                IF times = {} THEN log ELSE [log EXCEPT !.ingested_at = Max(times)]
          [] key = <<"retention", "days">> -> 
                IF field.n \in 0 .. 2^16 - 1 THEN [log EXCEPT !.retention_days = field.n]
                                             ELSE log
          [] OTHER -> attribute

parseJSONLine(line, zone) ==
    LET after[i \in 0 .. Len(line.fields)] ==
            IF i = 0 THEN NoLog ELSE SetField(after[i - 1], line.fields[i], zone)
    IN  {after[Len(line.fields)]}

\* Mutant: the year of the agent's clock in UTC.
SyslogYearUTC(now, zone) == YearOf(now)

\* The date of an old syslog line gets the year it is where the file is.
SyslogYear(now, zone) == YearOf(now + zone)

SyslogTime(line, zone, now) ==
    IF line.shape = "syslog"
    THEN {(SyslogYear(now, zone) - 1) * Year + line.moment - zone}
    ELSE IF line.time.form = "nil" THEN {ZeroTime}
    ELSE parseTimestampString(line.time, zone)

parseSyslogLine(line, zone, now) ==
    IF line.priority > MaxPriority THEN {}
    ELSE {[NoLog EXCEPT
              !.timestamp = time,
              !.host = line.host,
              !.level = IF line.priority = NoPriority THEN guessLevel(line.message)
                        ELSE syslogLevel(line.priority % 8),
              !.message = line.message,
              !.attributes = line.attributes] : time \in SyslogTime(line, zone, now)}

parseTextLine(line, zone) ==
    {[NoLog EXCEPT !.timestamp = time, !.level = line.level, !.message = line.message] :
        time \in parseTimestampString(line.time, zone)}

\* The parser the file's format names, or in turn each of them.
Parse(line, file, now) ==
    CASE line.shape = "json" /\ file.format \in {"auto", "json"} ->
            parseJSONLine(line, file.location)
      [] line.shape \in {"syslog", "syslog5424"} /\ file.format \in {"auto", "syslog"} ->
            parseSyslogLine(line, file.location, now)
      [] line.shape = "text" /\ file.format \in {"auto", "text"} ->
            parseTextLine(line, file.location)
      [] OTHER -> {}

\* Mutant: a record without a message stays without one.
ParseLineNoFallback(line, file, now) ==
    LET results == Parse(line, file, now)
        unparsed == [NoLog EXCEPT !.message = line.text]
        parsed  == IF results = {} THEN unparsed ELSE CHOOSE result \in results : TRUE
        level   == IF parsed.level = "" THEN guessLevel(parsed.message) ELSE parsed.level
    IN  [parsed EXCEPT !.level = NormalizeLevel(level)]

\* A line that nothing parses is its own message, and so is one whose message
\* is empty.
ParseLine(line, file, now) ==
    LET results == Parse(line, file, now)
        unparsed == [NoLog EXCEPT !.message = line.text]
        parsed  == IF results = {} THEN unparsed ELSE CHOOSE result \in results : TRUE
        message == IF parsed.message = <<>> THEN line.text ELSE parsed.message
        level   == IF parsed.level = "" THEN guessLevel(message) ELSE parsed.level
    IN  [parsed EXCEPT !.message = message, !.level = NormalizeLevel(level)]
=============================================================================
