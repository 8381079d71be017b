------------------------------- MODULE Redact -------------------------------
(***************************************************************************)
(* Masking of sensitive content (internal/redact/redact.go).  The search   *)
(* for card numbers is modelled in full, with the bounds on their length   *)
(* as constants; of the other patterns, what they do to a text.            *)
(***************************************************************************)
EXTENDS Schema, SequencesExt

CONSTANTS MinDigits, MaxDigits      \* 13 and 19

ASSUME RedactAssumption == {MinDigits, MaxDigits} \subseteq Nat \ {0}

Mask == <<Open, Close>>

\* text with each of the disjoint intervals in spans replaced by the mask.
MaskSpans(text, spans) ==
    FlattenSeq([i \in DOMAIN text |->
        IF \E s \in spans : s[1] = i THEN Mask
        ELSE IF \E s \in spans : i \in s[1] .. s[2] THEN <<>>
        ELSE <<text[i]>>])

\* secretAssignmentPattern: the first key with a value takes everything up to
\* the next delimiter.  A value that is masked already is masked again.
SecretSpans(text) ==
    {s \in (2 .. Len(text)) \X (2 .. Len(text)) :
        /\ s[1] <= s[2]
        /\ text[s[1] - 1] = Key
        /\ \A i \in s[1] .. s[2] : text[i] # Comma
        /\ s[2] = Len(text) \/ text[s[2] + 1] = Comma
        /\ \A i \in 1 .. s[1] - 2 :
               text[i] = Key => \E j \in i + 1 .. s[1] - 2 : text[j] = Comma}

\* bearerTokenPattern, awsAccessKeyPattern, emailPattern.
TokenSpans(text) == {<<i, i>> : i \in {j \in DOMAIN text : text[j] = Mail}}

-----------------------------------------------------------------------------
DigitsOf(text) ==
    FlattenSeq([i \in DOMAIN text |-> IF text[i] \in Digit THEN <<text[i]>> ELSE <<>>])

\* cardNumberPattern matches the whole text.
IsNumber(text) ==
    /\ text[1] \in Digit
    /\ \A i \in DOMAIN text :
           \/ text[i] \in Digit
           \/ text[i] = Space /\ i < Len(text) /\ text[i + 1] \in Digit
    /\ Len(DigitsOf(text)) \in MinDigits .. MaxDigits

\* FindAllStringIndex: from left to right, each match as long as possible.
Matches(text) ==
    LET ends(i) == {end \in i .. Len(text) : IsNumber(SubSeq(text, i, end))}
        from[i \in 1 .. Len(text) + 1] ==
            IF i > Len(text) THEN {}
            ELSE IF ends(i) = {} THEN from[i + 1]
            ELSE {<<i, Max(ends(i))>>} \cup from[Max(ends(i)) + 1]
    IN  from[1]

\* Every second digit from the right counts twice, as the sum of its digits.
passesLuhn(candidate) ==
    LET digits == DigitsOf(candidate)
        double(d) == IF 2 * d > 9 THEN 2 * d - 9 ELSE 2 * d
        weight == [i \in DOMAIN digits |->
                      IF (Len(digits) - i) % 2 = 1 THEN double(digits[i]) ELSE digits[i]]
    IN  SumFunction(weight) % 10 = 0

\* Mutant: the check digit is ignored.
CardSpansUnchecked(text) ==
    {s \in Matches(text) :
        /\ s[1] = 1 \/ text[s[1] - 1] \notin Digit
        /\ s[2] = Len(text) \/ text[s[2] + 1] \notin Digit}

\* A match next to a digit is a part of a longer number.  The replacements
\* from right to left leave these neighbours alone: a match that begins where
\* another ends has a digit before it and is not replaced.
CardSpans(text) ==
    {s \in Matches(text) :
        /\ s[1] = 1 \/ text[s[1] - 1] \notin Digit
        /\ s[2] = Len(text) \/ text[s[2] + 1] \notin Digit
        /\ passesLuhn(SubSeq(text, s[1], s[2]))}

redactCardNumbers(text) == MaskSpans(text, CardSpans(text))

redactMessage(text) ==
    LET secrets == MaskSpans(text, SecretSpans(text))
        tokens  == MaskSpans(secrets, TokenSpans(secrets))
    IN  redactCardNumbers(tokens)

-----------------------------------------------------------------------------
\* A word that is one of these, or syllables in a row, through separators.
SensitiveWords ==
    {"password", "passwd", "pwd", "token", "secret", "authorization", "auth",
     "cookie", "credential", "credentials", "jwt", "session", "bearer"}

SensitiveMarkers ==
    {"api", "access", "private", "secret", "signing"} \X {"key"} \cup
    {"access", "refresh", "id", "auth", "session"} \X {"token"} \cup
    {<<"client", "secret">>, <<"session", "id">>}

\* Mutant: only whole words count.
sensitiveAttributeKeyWords(key) ==
    \E i \in DOMAIN key : \E word \in SensitiveWords : key[i] = <<word>>

sensitiveAttributeKey(key) ==
    LET flat == FlattenSeq(key)
    IN  \/ \E i \in DOMAIN key : \E word \in SensitiveWords : key[i] = <<word>>
        \/ \E i \in 1 .. Len(flat) - 1 : <<flat[i], flat[i + 1]>> \in SensitiveMarkers

RedactAttribute(key, value) ==
    IF sensitiveAttributeKey(key)
    THEN IF value \in {<<>>, Mask} THEN value ELSE Mask
    ELSE redactMessage(value)

\* Mutant: the flag tells of the last pass only.
RedactForgets(log) ==
    LET message    == redactMessage(log.message)
        attributes == [key \in DOMAIN log.attributes |->
                          RedactAttribute(key, log.attributes[key])]
    IN  [log EXCEPT
            !.message = message,
            !.attributes = attributes,
            !.redacted = <<message, attributes>> # <<log.message, log.attributes>>]

Redact(log) ==
    LET message    == redactMessage(log.message)
        attributes == [key \in DOMAIN log.attributes |->
                          RedactAttribute(key, log.attributes[key])]
    IN  [log EXCEPT
            !.message = message,
            !.attributes = attributes,
            !.redacted = @ \/ <<message, attributes>> # <<log.message, log.attributes>>]
=============================================================================
