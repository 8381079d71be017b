------------------------------ MODULE Pipeline ------------------------------
(***************************************************************************)
(* The way of one line through the system: configuration and processing in *)
(* the agent (cmd/agent/processor.go), the encoding of the batch, and      *)
(* normalisation and redaction again in the ingest API, each by its own    *)
(* clock.  Copies that a crash or a retry makes go the same way.           *)
(*                                                                         *)
(* A scenario is a configuration, a line, the readings the two clocks may  *)
(* show, and what the writers of both meant by them: said, the message;    *)
(* given, its attributes, and secrets, the keys of the sensitive ones;     *)
(* event, the instant, or ZeroTime, and claims, all instants in the line;  *)
(* severity; min and percent, the filter.                                  *)
(***************************************************************************)
EXTENDS Redact, Parser, Config

CONSTANT Scenarios      \* the inputs that are tried, a sequence of sets

WholeRunes(text) ==
    \A i \in DOMAIN text :
        /\ text[i] = Lead => i < Len(text) /\ text[i + 1] = Cont
        /\ text[i] = Cont => i > 1 /\ text[i - 1] = Lead

\* What the readers of YAML and JSON and the patterns of the parsers give, for
\* lines that are UTF-8.
Utf8 == {text \in Seq(Symbol) : WholeRunes(text)}
Moment == [form : STRING, n : Int]
WatchedFile == [path : Seq(STRING), format : STRING, time_zone : STRING]

Texts(attributes) == \A key \in DOMAIN attributes : attributes[key] \in Utf8

\* Fields whose value becomes a name and not a text.
NameKeys ==
    LevelKeys \cup ServiceKeys \cup HostKeys \cup EnvKeys \cup {<<"priority">>, <<"trace", "id">>}

WellFormedField(field) ==
    /\ field.time \in Moment
    /\ normalizeFieldName(field.name) \notin NameKeys => field.raw \in Utf8
    /\ normalizeFieldName(field.name) = <<"attributes">> => Texts(field.map)

WellFormedLine(line) ==
    /\ line.text \in Utf8
    /\ line.shape = "json" =>
           /\ Len(line.fields) \in Nat
           /\ \A i \in 1 .. Len(line.fields) : WellFormedField(line.fields[i])
    /\ line.shape = "syslog" => line.moment \in Int
    /\ line.shape \in {"syslog5424", "text"} => line.time \in Moment
    /\ line.shape \in {"syslog", "syslog5424", "text"} => line.message \in Utf8
    /\ line.shape \in {"syslog", "syslog5424"} => Texts(line.attributes)

ASSUME PipelineAssumption ==
    /\ \A zone \in DOMAIN Zones : Zones[zone] \in Int
    /\ \A i \in DOMAIN Scenarios : \A s \in Scenarios[i] :
           /\ s.event \in Int
           /\ s.clocks \subseteq {t \in Int : t >= Millisecond /\ Encodable(t)}
           /\ {"files", "host", "env", "min_level"} \subseteq DOMAIN s.config
           /\ s.config.files \in Seq(WatchedFile)
           /\ WellFormedLine(s.line)

VARIABLES
    scenario,
    phase,      \* "config", "refused", "read", "filtered", "batched", "stuck",
                \* "buffered", "stored" or "rejected": where the line is
    config,     \* the configuration in force
    record,     \* the record, in the agent's batch or in the stream
    readAt,     \* the agent's clock when the line was processed
    ingestAt    \* the clock of ingest when the record was normalised

vars == <<scenario, phase, config, record, readAt, ingestAt>>

Init ==
    /\ \E i \in DOMAIN Scenarios : scenario \in Scenarios[i]
    /\ phase = "config"
    /\ config = scenario.config
    /\ record = NoLog
    /\ readAt = ZeroTime
    /\ ingestAt = ZeroTime

\* LoadConfig.
LoadConfig ==
    /\ phase = "config"
    /\ Valid(applyDefaults(config))
    /\ config' = Normalized(applyDefaults(config))
    /\ phase' = "read"
    /\ UNCHANGED <<scenario, record, readAt, ingestAt>>

LoadConfigFails ==
    /\ phase = "config"
    /\ ~Valid(applyDefaults(config))
    /\ phase' = "refused"
    /\ UNCHANGED <<scenario, config, record, readAt, ingestAt>>

-----------------------------------------------------------------------------
(***************************************************************************)
(* ProcessDetailed.                                                        *)
(***************************************************************************)
Parsed(now) ==
    NormalizeFieldsAt(
        [ParseLine(scenario.line, config.files[1], now) EXCEPT
            !.host = config.host, !.env = config.env], now)

\* Mutant: a level is compared with its name's rank, the wrong way round at
\* the minimum itself.
BelowMinLevelOrAt(log) == LevelRank(log.level) <= LevelRank(config.min_level)

BelowMinLevel(log) == LevelRank(log.level) < LevelRank(config.min_level)

\* randomUnit decides between 0 and 100 percent.
MayDrop(log) == SamplingPercentage(config, log.level) < 100
MayKeep(log) == SamplingPercentage(config, log.level) > 0

Filter(now) ==
    /\ phase = "read"
    /\ BelowMinLevel(Parsed(now)) \/ MayDrop(Parsed(now))
    /\ phase' = "filtered"
    /\ UNCHANGED <<scenario, config, record, readAt, ingestAt>>

Keep(now) ==
    /\ phase = "read"
    /\ ~BelowMinLevel(Parsed(now)) /\ MayKeep(Parsed(now))
    /\ record' = Redact(Parsed(now))
    /\ readAt' = now
    /\ phase' = "batched"
    /\ UNCHANGED <<scenario, config, ingestAt>>

-----------------------------------------------------------------------------
\* WriteBatch encodes the whole batch, or fails, now and whenever it is tried
\* again.
WriteBatch ==
    /\ phase = "batched"
    /\ phase' = IF Encodable(record.timestamp) /\ Encodable(record.ingested_at)
                THEN "buffered" ELSE "stuck"
    /\ UNCHANGED <<scenario, config, record, readAt, ingestAt>>

\* The handler: identity from the key, normalisation, redaction, and the time
\* of acceptance by a second reading of the clock.
Accept(log, now, later) ==
    [Redact(NormalizeFieldsAt(log, now)) EXCEPT !.ingested_at = Truncate(later)]

Identified(log) == [log EXCEPT !.service = "service", !.retention_days = 1]

Ingest(now, later) ==
    /\ phase = "buffered"
    /\ ~Incomplete(Identified(record))
    /\ phase' = "stored"
    /\ record' = Accept(Identified(record), now, later)
    /\ ingestAt' = now
    /\ UNCHANGED <<scenario, config, readAt>>

\* The record is counted as rejected within an answer of 202.
Reject ==
    /\ phase = "buffered"
    /\ Incomplete(Identified(record))
    /\ phase' = "rejected"
    /\ UNCHANGED <<scenario, config, record, readAt, ingestAt>>

\* Nothing is left to do for this line.
Rest ==
    /\ phase \in {"refused", "filtered", "stuck", "stored", "rejected"}
    /\ UNCHANGED vars

Next ==
    \/ LoadConfig \/ LoadConfigFails
    \/ \E now \in scenario.clocks : Filter(now) \/ Keep(now)
    \/ WriteBatch
    \/ \E now \in scenario.clocks : \E later \in {t \in scenario.clocks : t >= now} :
           Ingest(now, later)
    \/ Reject \/ Rest

Spec == Init /\ [][Next]_vars
-----------------------------------------------------------------------------
(***************************************************************************)
(* Reference definitions: what the writer of the line may expect.          *)
(***************************************************************************)
Stored == phase = "stored"
Zone == config.files[1].location
Has(flag) == flag \in DOMAIN record.attributes

\* The longest part that fits.
Cut(text) ==
    LET fits == {n \in 0 .. Len(text) : n <= MaxMessageLength /\ WholeRunes(SubSeq(text, 1, n))}
    IN  SubSeq(text, 1, Max(fits))

\* Digits in groups, as many as a card number has, with the right check digit.
IsCard(text) ==
    LET digits  == DigitsOf(text)
        doubled == <<0, 2, 4, 6, 8, 1, 3, 5, 7, 9>>
        single(i) == i % 2 = Len(digits) % 2
        sum == SumFunction([i \in DOMAIN digits |->
                               IF single(i) THEN digits[i] ELSE doubled[digits[i] + 1]])
    IN  /\ \A i \in DOMAIN text : text[i] \in Digit \cup {Space}
        /\ \A i \in 1 .. Len(text) - 1 : <<text[i], text[i + 1]>> # <<Space, Space>>
        /\ Space \notin {text[1], text[Len(text)]}
        /\ Len(digits) \in MinDigits .. MaxDigits
        /\ sum % 10 = 0

Intervals(text) == {s \in (1 .. Len(text)) \X (1 .. Len(text)) : s[1] <= s[2]}

\* No group of digits next to the interval.
Apart(text, s) ==
    LET at(i) == IF i \in DOMAIN text THEN text[i] ELSE Letter
        joins(near, far) == near \in Digit \/ (near = Space /\ far \in Digit)
    IN  ~joins(at(s[1] - 1), at(s[1] - 2)) /\ ~joins(at(s[2] + 1), at(s[2] + 2))

ShowsCard(text) ==
    \E s \in Intervals(text) : Apart(text, s) /\ IsCard(SubSeq(text, s[1], s[2]))

\* A key with a value, or a token.
ShowsSecret(text) ==
    \E i \in DOMAIN text :
        \/ text[i] = Mail
        \/ /\ text[i] = Key
           /\ i < Len(text) /\ text[i + 1] # Comma
           /\ i + 2 > Len(text) \/ SubSeq(text, i + 1, i + 2) # Mask

Harmless(text) ==
    /\ \A i \in DOMAIN text : text[i] \notin {Key, Mail}
    /\ \A s \in Intervals(text) : ~IsCard(SubSeq(text, s[1], s[2]))

\* The instant the line states, as it is read: a date without a year is one of
\* the year in which it is read.
ClaimedAt(now) ==
    IF scenario.line.shape = "syslog"
    THEN scenario.event + Year * (YearOf(now + Zone) - YearOf(scenario.event + Zone))
    ELSE scenario.event

Claimed == ClaimedAt(readAt)

\* The instant the writer meant: that of the event, if it was read within a
\* year, less the tolerance; later a date without a year means another day.
Meant ==
    IF scenario.event <= readAt /\ readAt + MaxSkew < scenario.event + Year
    THEN scenario.event ELSE Claimed

\* A number of milliseconds that is not one of seconds loses its precision in
\* floating point.
StatesMillis ==
    /\ scenario.line.shape = "json"
    /\ \E i \in DOMAIN scenario.line.fields :
           LET field == scenario.line.fields[i]
           IN  /\ normalizeFieldName(field.name) \in TimestampKeys
               /\ field.time.form = "epoch"
               /\ field.time.n >= EpochLimit \/ -field.time.n >= EpochLimit
               /\ (field.time.n * Millisecond) % Second # 0

Margin == IF StatesMillis THEN Millisecond - 1 ELSE 0

Severities == <<"trace", "debug", "info", "warn", "error", "fatal">>

AtLeast(level, minimum) ==
    \E i, j \in DOMAIN Severities : Severities[i] = minimum /\ Severities[j] = level /\ i <= j

-----------------------------------------------------------------------------
(***************************************************************************)
(* Properties.                                                             *)
(***************************************************************************)

\* The configuration in force and the parsed record are what the writers of
\* both meant, for every notation, format and zone: the record has the text,
\* the attributes, the severity and the instant of the line, for milliseconds
\* with less than a millisecond of error.  No line of the model uses the names
\* of the flags for attributes of its own or is read as an instant of the
\* first millisecond of year 1.
ReadAsMeant ==
    phase = "read" =>
        /\ config.min_level = scenario.min
        /\ \A level \in Levels : SamplingPercentage(config, level) = scenario.percent[level]
        /\ \A now \in scenario.clocks :
               LET parsed == ParseLine(scenario.line, config.files[1], now)
               IN  /\ parsed.message = scenario.said
                   /\ parsed.level = scenario.severity
                   /\ \A time \in {parsed.timestamp, Truncate(parsed.timestamp)} :
                          (time = ZeroTime) = (scenario.event = ZeroTime)
                   /\ scenario.event # ZeroTime =>
                          parsed.timestamp - ClaimedAt(now) \in -Margin .. Margin
                   /\ \A time \in {parsed.timestamp, parsed.ingested_at} :
                          \/ Encodable(Truncate(time))
                          \/ \E claim \in scenario.claims : ~Encodable(Truncate(claim))
                   /\ \A key \in DOMAIN scenario.given :
                          /\ key \in DOMAIN parsed.attributes
                          /\ parsed.attributes[key] = scenario.given[key]
                   /\ DOMAIN parsed.attributes \cap
                          {TimestampMissing, TimestampCorrected, TimestampSkewMillis} = {}

\* "Future timestamps are corrected": whatever the line and the agent's clock
\* say, a stored record is at most the tolerance ahead of its acceptance.
NeverFarAhead == Stored => record.timestamp <= record.ingested_at + MaxSkew

\* "Event time in UTC with millisecond precision": a timestamp that is not
\* flagged is the instant the writer meant, for every notation, format and
\* time zone, also of a date without a year that is read after New Year, and
\* a line without one is flagged.  Milliseconds since 1970 are stored as that
\* millisecond or the one before.
TimestampHonest ==
    Stored =>
        /\ (scenario.event = ZeroTime) = Has(TimestampMissing)
        /\ \/ Has(TimestampMissing) \/ Has(TimestampCorrected)
           \/ record.timestamp \in Truncate(Meant - Margin) .. Truncate(Meant + Margin)

\* A correction can be undone: the recorded skew leads back to the instant in
\* the line as it is read, to the millisecond and the margin of reading.  Not
\* if the agent's own clock was too far ahead, because ingest then corrects
\* once more; and not if the skew looks like a card number or exceeds the
\* longest duration.
SkewTells ==
    Stored /\ Has(TimestampCorrected) /\ ~Has(TimestampMissing) =>
        LET skew == record.attributes[TimestampSkewMillis]
        IN  \/ readAt > ingestAt + MaxSkew
            \/ skew = Mask
            \/ Claimed + Margin - readAt > MaxDuration
            \/ Claimed + Margin - ingestAt > MaxDuration
            \/ \E n \in 0 .. MaxDuration :
                   /\ Decimal(n) = skew
                   /\ Claimed - (record.timestamp + n * Millisecond)
                          \in -Margin .. 2 * Millisecond - 1 + Margin

\* "Redact passwords, tokens, API keys, email addresses, and Luhn-valid card
\* numbers": none is left in a message or an attribute, also when a cut or an
\* earlier mask lies next to it.  Card numbers that follow one another with a
\* single space between them are one longer number to the code.
NothingSensitiveStored ==
    Stored =>
        /\ ~ShowsCard(record.message) /\ ~ShowsSecret(record.message)
        /\ \A key \in DOMAIN record.attributes :
               LET value == record.attributes[key]
               IN  IF key \in scenario.secrets THEN value \in {<<>>, Mask}
                   ELSE ~ShowsCard(value) /\ ~ShowsSecret(value)

\* "Credit-card numbers are redacted only when they pass the Luhn check": a
\* message without anything sensitive is stored as it is, up to its length.
OnlySensitiveMasked ==
    Stored /\ Harmless(Cut(scenario.said)) => record.message = Cut(scenario.said)

\* "Redacted logs have redacted set to true": what is not flagged is what was
\* written, although the record is redacted twice and the second pass usually
\* finds nothing.
UnflaggedUntouched ==
    Stored /\ ~record.redacted =>
        /\ record.message = Cut(scenario.said)
        /\ \A key \in DOMAIN scenario.given : record.attributes[key] = scenario.given[key]

\* A message is cut twice, with masks put in between, but never in a rune.
RuneSafe == Stored => WholeRunes(record.message)

\* The filter does what the configuration says, in the writer's levels, for
\* every format of a line and every name of a level.
FilterHonoured ==
    LET passes == AtLeast(scenario.severity, scenario.min)
        percent == scenario.percent[scenario.severity]
    IN  /\ Stored => passes /\ percent > 0 /\ record.level = scenario.severity
        /\ phase = "filtered" => ~passes \/ percent < 100

\* A line that passes the filter is withheld only for its own sake.  Ingest
\* rejects a record only for want of a message, or if the configured host or
\* environment is white space, which Validate accepts.  A batch is kept from
\* the disk only by a line that states a time JSON has no notation for, before
\* year 0 or, as the time of ingestion, after 9999.
WithheldOnlyIfUnusable ==
    /\ phase = "rejected" =>
           IsBlank(Cut(scenario.said)) \/ " " \in {scenario.config.host, scenario.config.env}
    /\ phase = "stuck" => \E time \in scenario.claims : ~Encodable(Truncate(time))
=============================================================================
