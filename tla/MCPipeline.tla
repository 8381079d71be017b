----------------------------- MODULE MCPipeline -----------------------------
(***************************************************************************)
(* The inputs for Pipeline, in slices: texts, attributes, times, levels    *)
(* with filters, and configurations, each crossed with what bears on it.   *)
(*                                                                         *)
(* Year 4 begins at 384, between the clocks, of which two are exactly the  *)
(* tolerance of 16 apart and two further.  Epoch numbers below 20 are      *)
(* seconds, so times from 336 to 484 can be written either way.  There are *)
(* three milliseconds of four ticks in a second, and a float64 number for  *)
(* every third tick: of the milliseconds of a second the first is exact,   *)
(* the second is rounded down, and the third is rounded up.                *)
(***************************************************************************)
EXTENDS Pipeline

MCZones == "local" :> 4 @@ "east" :> 20 @@ "west" :> -12

Word(name) == <<<<name>>>>
NoTime == [form |-> "bad", n |-> 0]

\* A JSON field with the parts its kind does not use left empty.
Field(name, raw) ==
    [name |-> name, raw |-> raw, time |-> NoTime, n |-> -1, map |-> <<>>, flag |-> FALSE]
Message(text) == Field(Word("message"), text)
Time(name, time) == [Field(name, <<Letter>>) EXCEPT !.time = time]
JSON(fields) == [shape |-> "json", text |-> <<Letter, Letter>>, fields |-> fields]
Plain(text) == [shape |-> "plain", text |-> text]
Text(time, level, message) ==
    [shape |-> "text", text |-> <<Letter, Letter>>, time |-> time, level |-> level,
     message |-> message]
Syslog(shape, priority, time, moment, message) ==
    [shape |-> shape, text |-> <<Letter, Letter>>, priority |-> priority, host |-> "relay",
     time |-> time, moment |-> moment, message |-> message, attributes |-> <<>>]

File(path, format, zone) == [path |-> path, format |-> format, time_zone |-> zone]
BaseConfig ==
    [server_url |-> "http", api_key |-> "key", host |-> "", env |-> "",
     max_buffer_size_mb |-> 0, batch_size |-> 0, flush_interval |-> 0,
     min_level |-> "", sampling |-> <<>>, files |-> <<File(<<"a">>, "", "")>>]

\* A line that says very little, at a clock that stands still.
Simple ==
    [config |-> BaseConfig, line |-> Plain(<<Letter>>), clocks |-> {400},
     said |-> <<Letter>>, given |-> <<>>, secrets |-> {}, event |-> ZeroTime, claims |-> {},
     severity |-> "info", min |-> "trace", percent |-> [level \in Levels |-> 100]]

-----------------------------------------------------------------------------
\* Digits that do and do not pass the check, in groups and in words.
NumberSlice ==
    {[Simple EXCEPT !.line = Plain(text), !.said = text] :
        text \in UNION {[1 .. n -> {0, 5, Space, Letter}] : n \in 0 .. 7}}

\* Keys, tokens and two-byte runes around the cut.
SecretSlice ==
    {[Simple EXCEPT !.line = Plain(FlattenSeq(units)), !.said = FlattenSeq(units)] :
        units \in UNION {[1 .. n -> {<<5>>, <<Key>>, <<Comma>>, <<Mail>>, <<Lead, Cont>>}] :
                         n \in 1 .. 5}}

Secrets == {<<<<"api">>, <<"key">>>>, <<<<"api", "key">>>>, <<<<"user">>, <<"session">>>>}
Harmlesses == {Word("user"), <<<<"key">>, <<"api">>>>, <<<<"token", "s">>>>}

\* An attribute, as a field of its own or among the attributes, next to a
\* field that says whether the writer has redacted already.
AttributeSlice ==
    {[Simple EXCEPT
        !.line = JSON(<<IF nested THEN [Field(Word("attributes"), <<>>) EXCEPT !.map = key :> value]
                                  ELSE Field(key, value),
                        Message(<<Letter>>),
                        [Field(Word("redacted"), <<>>) EXCEPT !.flag = redacted]>>),
        !.given = key :> value,
        !.secrets = Secrets] :
            key \in Secrets \cup Harmlesses, nested \in BOOLEAN, redacted \in BOOLEAN,
            value \in {<<>>, <<Letter>>, <<Mail>>, <<5, 0, 5>>, <<5, 0, 0>>, <<Key, 5>>, Mask}}

-----------------------------------------------------------------------------
Events ==
    {304, 366, 368, 376, 380, 383, 384, 392, 396, 397, 404, 416, 464, 1136, 1140}
Clocks == {380, 394, 410}

\* The notations of an instant in a file of a zone.
Utc(event) == [form |-> "utc", n |-> event]
Local(event, zone) == [form |-> "local", n |-> event + MCZones[zone]]
Epochs(event) ==
    LET number(unit) == (event - UnixEpoch) \div unit
        units == {Second, Millisecond} \cap
                 {unit \in 1 .. Second :
                     /\ number(unit) * unit = event - UnixEpoch
                     /\ unit = Second <=> number(unit) < EpochLimit}
    IN  {[form |-> "epoch", n |-> number(unit)] : unit \in units}

Aliases == {Word("ts"), <<<<"date", "time">>>>, <<<<"event">>, <<"time">>>>}

TimeLines(event, zone) ==
    LET strings == {Utc(event), Local(event, zone)}
        said == <<Letter>>
    IN  {JSON(<<Message(said), Time(name, time)>>) :
            name \in Aliases, time \in strings \cup Epochs(event)} \cup
        {JSON(<<Time(Word("date"), NoTime), Message(said), Time(Word("time"), Utc(event))>>),
         JSON(<<Time(Word("date"), Utc(340)), Message(said), Time(Word("time"), Utc(event))>>)} \cup
        {Text(time, "info", said) : time \in strings} \cup
        {Syslog("syslog5424", 6, time, 0, said) : time \in strings} \cup
        {Syslog("syslog", 6, NoTime, (event + MCZones[zone]) % Year, said)}

TimeSlice ==
    UNION {{[Simple EXCEPT
               !.config.files = <<File(<<"a">>, "", zone)>>,
               !.line = line, !.event = event, !.claims = {event}, !.clocks = Clocks] :
                   line \in TimeLines(event, zone)} :
           event \in Events, zone \in DOMAIN MCZones}

\* No time, times that nothing can read, and times out of range.
OddTimes ==
    {[Simple EXCEPT !.line = line, !.clocks = Clocks] :
        line \in {JSON(<<Message(<<Letter>>), Time(Word("ts"), NoTime)>>),
                  Syslog("syslog5424", 6, [form |-> "nil", n |-> 0], 0, <<Letter>>)}} \cup
    {[Simple EXCEPT !.line = line, !.said = line.text] :
        line \in {Text(NoTime, "error", <<Letter>>),
                  Syslog("syslog5424", 6, NoTime, 0, <<Letter>>)}} \cup
    {[Simple EXCEPT !.line = JSON(<<Message(<<Letter>>), Time(Word("ts"), time)>>),
                    !.event = -144, !.claims = {-144}] :
        time \in {[form |-> "epoch", n |-> -100]}} \cup
    {[Simple EXCEPT
        !.line = JSON(<<Time(<<<<"ingested">>, <<"at">>>>, [form |-> "epoch", n |-> n]),
                        Message(<<Letter>>)>>),
        !.claims = {UnixEpoch + n * Millisecond}] : n \in {30, 100, 236}}

-----------------------------------------------------------------------------
\* Lines with the severity their writer means.
Leveled ==
    {<<Text(Utc(300), pair[1], <<Letter>>), pair[2]>> :
        pair \in {<<"verbose", "trace">>, <<"dbg", "debug">>, <<"notice", "info">>,
                  <<"wrn", "warn">>, <<"exception", "error">>, <<"panic", "fatal">>,
                  <<"odd", "info">>}} \cup
    {<<JSON(<<Message(<<Letter>>), [Field(Word("priority"), "odd") EXCEPT !.n = pair[1]],
             Time(Word("ts"), Utc(300))>>), pair[2]>> :
        pair \in {<<2, "fatal">>, <<11, "error">>, <<20, "warn">>, <<191, "debug">>,
                  <<192, "info">>}} \cup
    {<<JSON(<<Field(<<<<"log">>, <<"level">>>>, "err"), Message(<<Letter>>),
             Time(Word("ts"), Utc(300))>>), "error">>,
     <<JSON(<<Message(<<Error>>), Field(Word("msg"), <<Letter>>),
             Time(Word("ts"), Utc(300))>>), "info">>,
     <<Syslog("syslog5424", 12, Utc(300), 0, <<Letter>>), "warn">>}

Filters ==
    {<<"", "trace">>, <<"debug", "debug">>, <<"warning", "warn">>, <<"err", "error">>,
     <<"critical", "fatal">>}

Samplings ==
    {<<>>, "warning" :> 0, "error" :> 50, "info" :> 0 @@ "err" :> 100,
     "warn" :> 0 @@ "warning" :> 100, "debug" :> -1, "verbose" :> 50}

Meaning(sampling) ==
    [level \in Levels |->
        CASE level = "warn" /\ sampling = "warning" :> 0 -> 0
          [] level = "error" /\ sampling = "error" :> 50 -> 50
          [] level = "info" /\ sampling = "info" :> 0 @@ "err" :> 100 -> 0
          [] OTHER -> 100]

LevelSlice ==
    {[Simple EXCEPT
        !.config.min_level = filter[1], !.config.sampling = sampling, !.line = leveled[1],
        !.event = 300, !.claims = {300},
        !.severity = leveled[2], !.min = filter[2], !.percent = Meaning(sampling)] :
            filter \in Filters, sampling \in Samplings, leveled \in Leveled} \cup
    {[Simple EXCEPT !.line = Plain(text), !.said = text, !.severity = level] :
        <<text, level>> \in {<<<<Letter, Space, Error>>, "error">>, <<<<Letter, Error>>, "info">>}}

-----------------------------------------------------------------------------
\* Every entry of the configuration with a wrong or an unusual value.
Configs ==
    {[BaseConfig EXCEPT ![change[1]] = change[2]] :
        change \in {"server_url"} \X {"https", "ftp", ""} \cup {"api_key"} \X {"", " "} \cup
                   {"host", "env"} \X {"x", " "} \cup {"min_level"} \X {"info", "verbose", "odd"}} \cup
    {[BaseConfig EXCEPT ![entry] = value] :
        entry \in {"max_buffer_size_mb", "batch_size", "flush_interval"}, value \in {-1, 1}} \cup
    {[BaseConfig EXCEPT !.files = files] :
        files \in {<<>>, <<File(<<>>, "", "")>>, <<File(<<"a">>, "xml", "")>>,
                   <<File(<<"a">>, "auto", "mars")>>, <<File(<<"a">>, "json", "local time")>>,
                   <<File(<<"a">>, "", "east"), File(<<"b">>, "text", "west")>>,
                   <<File(<<"a">>, "", "east"), File(<<".", "a">>, "text", "west")>>}}

ConfigSlice ==
    {[Simple EXCEPT !.config = given, !.line = Plain(text), !.said = text,
                    !.min = IF given.min_level = "info" THEN "info" ELSE "trace"] :
        given \in Configs, text \in {<<Letter>>, <<Space>>}}

\* A file whose format is not that of the line, and lines without a message:
\* the line is its own message.
FormatSlice ==
    {[Simple EXCEPT !.line = line, !.said = line.text, !.event = 300] :
        line \in {Text(Utc(300), "info", <<>>), Syslog("syslog5424", 6, Utc(300), 0, <<>>),
                  JSON(<<Field(Word("level"), "info"), Time(Word("ts"), Utc(300))>>)}} \cup
    {[Simple EXCEPT
        !.config.files = <<File(<<"a">>, format, "")>>,
        !.line = Text(Utc(300), "error", <<5>>),
        !.event = IF format = "text" THEN 300 ELSE ZeroTime,
        !.said = IF format = "text" THEN <<5>> ELSE <<Letter, Letter>>,
        !.severity = IF format = "text" THEN "error" ELSE "info"] :
            format \in {"json", "syslog", "text"}}

MCScenarios ==
    <<NumberSlice, SecretSlice, AttributeSlice, TimeSlice, OddTimes, LevelSlice,
      ConfigSlice, FormatSlice>>
=============================================================================
