------------------------------- MODULE Schema -------------------------------
(***************************************************************************)
(* The record and its normal form (internal/schema/schema.go).             *)
(*                                                                         *)
(* A time is a number of ticks since the zero time.Time, the start of year *)
(* 1.  A text is a sequence of symbols, each one byte or a group of bytes  *)
(* that no operation splits.  Level names are lower case and trimmed:      *)
(* every function that takes one folds it first.                           *)
(***************************************************************************)
EXTENDS Integers, Sequences, FiniteSetsExt, TLC

CONSTANTS
    Millisecond,        \* ticks in a millisecond
    Year,               \* ticks in a year; all years are equally long
    LastYear,           \* the last year a time in JSON may have, 9999
    MaxSkew,            \* MaxFutureTimestampSkew
    MaxDuration,        \* the longest time.Duration, about 292 years
    MaxMessageLength

ASSUME SchemaAssumption ==
    /\ {Millisecond, Year, LastYear, MaxMessageLength} \subseteq Nat \ {0}
    /\ MaxSkew \in Nat /\ MaxSkew % Millisecond = 0
    /\ MaxDuration \in Nat /\ MaxDuration > MaxSkew

-----------------------------------------------------------------------------
\* The symbols of a text.
Digit == 0 .. 9
Space == 10         \* also stands for the dash between groups of digits
Letter == 11
Lead == 12          \* the first byte of a two-byte rune
Cont == 13          \* its second byte
Key == 14           \* "password=" and the like
Comma == 15         \* a delimiter that ends the value after a key
Mail == 16          \* an email address, AWS key or bearer token
Open == 17          \* the two halves of the mask
Close == 18
Error == 19         \* the word "error"
Symbol == 0 .. 19

IsBlank(text) == \A i \in DOMAIN text : text[i] = Space

\* The decimal notation of a natural number.
Decimal(number) ==
    LET digits[n \in 0 .. number] == IF n < 10 THEN <<n>>
                                     ELSE Append(digits[n \div 10], n % 10)
    IN  digits[number]

\* Attribute and field names are sequences of words, separated by "_", "-",
\* "." or "@"; a word is a sequence of syllables that are themselves words.
TimestampMissing == <<<<"timestamp">>, <<"missing">>>>
TimestampCorrected == <<<<"timestamp">>, <<"corrected">>>>
TimestampSkewMillis == <<<<"timestamp">>, <<"skew">>, <<"ms">>>>
True == <<Letter>>

\* The attributes with those of extra written into the map.
Overwritten(attributes, extra) ==
    [key \in DOMAIN attributes \cup DOMAIN extra |->
        IF key \in DOMAIN extra THEN extra[key] ELSE attributes[key]]

-----------------------------------------------------------------------------
Levels == {"trace", "debug", "info", "warn", "error", "fatal"}

NormalizeLevel(level) ==
    CASE level \in {"trace", "verbose", "finest"} -> "trace"
      [] level \in {"debug", "dbg"} -> "debug"
      [] level \in {"warn", "warning", "wrn"} -> "warn"
      [] level \in {"error", "err", "exception"} -> "error"
      [] level \in {"fatal", "critical", "crit", "panic", "emergency", "alert"} -> "fatal"
      [] OTHER -> "info"

LevelRank(level) ==
    LET rank == [trace |-> 0, debug |-> 1, info |-> 2, warn |-> 3, error |-> 4, fatal |-> 5]
    IN  IF NormalizeLevel(level) \in DOMAIN rank THEN rank[NormalizeLevel(level)] ELSE 2

-----------------------------------------------------------------------------
ZeroTime == 0

Truncate(time) == time - (time % Millisecond)

YearOf(time) == 1 + time \div Year

\* encoding/json refuses a time.Time outside years 0 to 9999.
Encodable(time) == YearOf(time) \in 0 .. LastYear

\* Mutant: the cut may fall into a rune.
truncateMessageAnywhere(message) ==
    SubSeq(message, 1, Min({Len(message), MaxMessageLength}))

\* The cut is moved back to the start of a rune.
truncateMessage(message) ==
    IF Len(message) <= MaxMessageLength
    THEN message
    ELSE SubSeq(message, 1,
                Max({0} \cup {end \in 1 .. MaxMessageLength : message[end + 1] # Cont}))

NoLog == [timestamp |-> ZeroTime, service |-> "", host |-> "", env |-> "",
          level |-> "", message |-> <<>>, trace_id |-> "", attributes |-> <<>>,
          redacted |-> FALSE, ingested_at |-> ZeroTime, retention_days |-> 0]

\* Mutant: the tolerance is granted twice.
CorrectedLate(log, now) ==
    /\ log.timestamp # ZeroTime
    /\ log.timestamp > now + 2 * MaxSkew

\* A timestamp too far ahead is replaced by the time of the normalisation.
Corrected(log, now) ==
    /\ log.timestamp # ZeroTime
    /\ log.timestamp > now + MaxSkew

\* Mutant: the skew is counted from the end of the tolerance.
TimestampFlagsBeyond(log, now) ==
    IF log.timestamp = ZeroTime THEN [key \in {TimestampMissing} |-> True]
    ELSE IF Corrected(log, now)
    THEN [key \in {TimestampCorrected, TimestampSkewMillis} |->
             IF key = TimestampCorrected THEN True
             ELSE Decimal((log.timestamp - now - MaxSkew) \div Millisecond)]
    ELSE <<>>

\* What normalisation writes into the attributes.  Sub saturates.
TimestampFlags(log, now) ==
    IF log.timestamp = ZeroTime THEN [key \in {TimestampMissing} |-> True]
    ELSE IF Corrected(log, now)
    THEN [key \in {TimestampCorrected, TimestampSkewMillis} |->
             IF key = TimestampCorrected THEN True
             ELSE Decimal(Min({log.timestamp - now, MaxDuration}) \div Millisecond)]
    ELSE <<>>

NormalizeFieldsAt(log, now) ==
    [log EXCEPT
        !.level = NormalizeLevel(@),
        !.attributes = Overwritten(@, TimestampFlags(log, now)),
        !.timestamp = IF @ = ZeroTime \/ Corrected(log, now)
                      THEN Truncate(now) ELSE Truncate(@),
        !.ingested_at = IF @ = ZeroTime THEN Truncate(now) ELSE Truncate(@),
        !.message = truncateMessage(@)]

\* NormalizeAt returns an error instead.
Incomplete(log) ==
    \/ log.service = ""
    \/ log.host \in {"", " "}
    \/ log.env \in {"", " "}
    \/ IsBlank(log.message)
    \/ log.retention_days = 0
=============================================================================
