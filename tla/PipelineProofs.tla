--------------------------- MODULE PipelineProofs ---------------------------
(***************************************************************************)
(* For every tolerance, resolution, length of a year and of a message,     *)
(* every line, time zone and pair of clocks: no stored record is further   *)
(* ahead of its acceptance than the tolerance, no message ends within a    *)
(* rune or has a piece of one, and nothing sensitive is left in a message  *)
(* or an attribute.                                                        *)
(*                                                                         *)
(* And where the line is read as its writer meant it (ReadAsMeant): what   *)
(* is not sensitive is kept, what is changed is flagged, times are true or *)
(* can be made so, and a line is dropped or withheld only for cause.       *)
(***************************************************************************)
EXTENDS Pipeline, SequenceTheorems, NaturalsInduction, WellFoundedInduction, TLAPS

-----------------------------------------------------------------------------
(***************************************************************************)
(* Truncation to milliseconds is monotone, and the tolerance is a whole    *)
(* number of them.                                                         *)
(***************************************************************************)
LEMMA QuotientMonotone ==
    ASSUME NEW m \in Nat \ {0}, NEW s \in Int, NEW t \in Int, s <= t
    PROVE  s \div m <= t \div m
OBVIOUS

LEMMA QuotientOfSum ==
    ASSUME NEW m \in Nat \ {0}, NEW s \in Nat, NEW t \in Int, s % m = 0
    PROVE  (t + s) \div m = (t \div m) + (s \div m)
OBVIOUS

LEMMA TruncateQuotient ==
    ASSUME NEW t \in Int
    PROVE  Truncate(t) = Millisecond * (t \div Millisecond) /\ Truncate(t) \in Int
<1>1. Millisecond \in Nat \ {0}
  BY SchemaAssumption
<1>2. \A m \in Nat \ {0} : t - (t % m) = m * (t \div m) /\ t - (t % m) \in Int
  OBVIOUS
<1> QED
  BY <1>1, <1>2 DEF Truncate

LEMMA TruncateMonotone ==
    ASSUME NEW s \in Int, NEW t \in Int, s <= t
    PROVE  Truncate(s) <= Truncate(t)
<1>1. Millisecond \in Nat \ {0} /\ s \div Millisecond \in Int /\ t \div Millisecond \in Int
  BY SchemaAssumption
<1>2. s \div Millisecond <= t \div Millisecond
  BY <1>1, QuotientMonotone
<1>3. \A m \in Nat, x, y \in Int : x <= y => m * x <= m * y
  OBVIOUS
<1> QED
  BY <1>1, <1>2, <1>3, TruncateQuotient

LEMMA TruncateTolerance ==
    ASSUME NEW t \in Int
    PROVE  Truncate(t + MaxSkew) = Truncate(t) + MaxSkew
<1>1. Millisecond \in Nat \ {0} /\ MaxSkew \in Nat /\ MaxSkew % Millisecond = 0
  BY SchemaAssumption
<1>2. (t + MaxSkew) \div Millisecond = (t \div Millisecond) + (MaxSkew \div Millisecond)
  BY <1>1, QuotientOfSum
<1>3. MaxSkew = Millisecond * (MaxSkew \div Millisecond)
  BY <1>1
<1>4. \A m, x, y \in Int : m * (x + y) = m * x + m * y
  OBVIOUS
<1>5. t \div Millisecond \in Int /\ MaxSkew \div Millisecond \in Int /\ t + MaxSkew \in Int
  BY <1>1
<1>6. Millisecond * ((t \div Millisecond) + (MaxSkew \div Millisecond))
        = Millisecond * (t \div Millisecond) + Millisecond * (MaxSkew \div Millisecond)
  BY <1>1, <1>4, <1>5
<1>7. Truncate(t + MaxSkew) = Millisecond * ((t + MaxSkew) \div Millisecond)
  BY <1>5, TruncateQuotient
<1>8. Truncate(t) = Millisecond * (t \div Millisecond)
  BY TruncateQuotient
<1> QED
  BY <1>2, <1>3, <1>6, <1>7, <1>8

-----------------------------------------------------------------------------
(***************************************************************************)
(* Extremes of sets of numbers.                                            *)
(***************************************************************************)
\* A set of numbers has a least one.
LEMMA LeastNumber ==
    ASSUME NEW S \in SUBSET Nat, S # {}
    PROVE  \E n \in S : \A m \in S : ~(m < n)
<1>1. \E n \in S : \A m \in S : <<m, n>> \notin OpToRel(<, Nat)
  BY NatLessThanWellFounded, WFMin
<1>2. \A m, n \in S : m < n => <<m, n>> \in OpToRel(<, Nat)
  BY DEF OpToRel
<1> QED
  BY <1>1, <1>2

LEMMA GreatestNumber ==
    ASSUME NEW M \in Nat, NEW S \in SUBSET (0 .. M), S # {}
    PROVE  Max(S) \in S
<1> DEFINE T == {M - x : x \in S}
<1>1. T \in SUBSET Nat
  OBVIOUS
<1>a. T # {}
  <2>1. PICK x \in S : TRUE
    OBVIOUS
  <2>2. M - x \in T
    OBVIOUS
  <2> QED
    BY <2>2
<1>2. PICK n \in T : \A m \in T : ~(m < n)
  BY <1>1, <1>a, LeastNumber
<1>3. PICK x \in S : n = M - x
  OBVIOUS
<1>4. \A y \in S : x >= y
  <2>1. ASSUME NEW y \in S PROVE x >= y
    <3>1. ~(M - y < M - x)
      BY <1>2, <1>3
    <3> QED
      BY <3>1
  <2> QED
    BY <2>1
<1> QED
  BY <1>4 DEF Max

-----------------------------------------------------------------------------
(***************************************************************************)
(* A text in UTF-8 stays one: the cut of truncateMessage.                  *)
(***************************************************************************)
LEMMA TextType ==
    ASSUME NEW text \in Utf8
    PROVE  /\ text \in Seq(Symbol) /\ Len(text) \in Nat /\ DOMAIN text = 1 .. Len(text)
           /\ \A i \in 1 .. Len(text) :
                /\ text[i] \in Symbol
                /\ text[i] = Lead => i < Len(text) /\ text[i + 1] = Cont
                /\ text[i] = Cont => i > 1 /\ text[i - 1] = Lead
<1>1. text \in Seq(Symbol) /\ WholeRunes(text)
  BY DEF Utf8
<1>2. Len(text) \in Nat /\ DOMAIN text = 1 .. Len(text)
  BY <1>1
<1>3. \A i \in 1 .. Len(text) : text[i] \in Symbol
  BY <1>1, <1>2
<1> QED
  BY <1>1, <1>2, <1>3 DEF WholeRunes

LEMMA EmptyText == <<>> \in Utf8
BY DEF Utf8, WholeRunes

LEMMA TruncateText ==
    ASSUME NEW text \in Utf8
    PROVE  truncateMessage(text) \in Utf8
<1>1. MaxMessageLength \in Nat
  BY SchemaAssumption
<1>2. CASE Len(text) <= MaxMessageLength
  BY <1>2 DEF truncateMessage
<1>3. CASE ~(Len(text) <= MaxMessageLength)
  <2> DEFINE ends == {end \in 1 .. MaxMessageLength : text[end + 1] # Cont}
             cut == Max({0} \cup ends)
             part == SubSeq(text, 1, cut)
  <2>1. cut \in {0} \cup ends
    <3>1. {0} \cup ends \in SUBSET (0 .. MaxMessageLength) /\ {0} \cup ends # {}
      BY <1>1
    <3> HIDE DEF ends
    <3> QED
      BY <1>1, <3>1, GreatestNumber
  <2> HIDE DEF cut
  <2>2. cut \in Nat /\ cut < Len(text) /\ (cut # 0 => text[cut + 1] # Cont)
    BY <1>1, <1>3, <2>1, TextType
  <2>3. /\ part \in Seq(Symbol) /\ Len(part) = cut
        /\ \A i \in 1 .. cut : part[i] = text[i]
    BY <2>2, TextType
  <2>4. ASSUME NEW i \in 1 .. cut
        PROVE  /\ part[i] = Lead => i < Len(part) /\ part[i + 1] = Cont
               /\ part[i] = Cont => i > 1 /\ part[i - 1] = Lead
    <3>1. /\ text[i] = Lead => text[i + 1] = Cont
          /\ text[i] = Cont => i > 1 /\ text[i - 1] = Lead
      BY <2>2, TextType
    <3>2. i = cut => text[i] # Lead
      BY <2>2, <3>1
    <3> QED
      BY <2>2, <2>3, <3>1, <3>2
  <2>5. DOMAIN part = 1 .. cut
    BY <2>3
  <2> HIDE DEF part
  <2>6. part \in Utf8
    BY <2>3, <2>4, <2>5 DEF Utf8, WholeRunes
  <2> QED
    BY <1>3, <2>6 DEF truncateMessage, part, cut
<1> QED
  BY <1>2, <1>3

-----------------------------------------------------------------------------
(***************************************************************************)
(* Masking, symbol by symbol.  What has been written so far is a text,     *)
(* except that its last rune may be open.                                  *)
(***************************************************************************)
OpenRune(text) == Len(text) > 0 /\ text[Len(text)] = Lead

Begun(text) ==
    /\ text \in Seq(Symbol)
    /\ \A i \in 1 .. Len(text) :
         /\ text[i] = Lead /\ i < Len(text) => text[i + 1] = Cont
         /\ text[i] = Cont => i > 1 /\ text[i - 1] = Lead

LEMMA BegunEmpty == Begun(<<>>) /\ ~OpenRune(<<>>)
BY DEF Begun, OpenRune

LEMMA BegunWhole ==
    ASSUME NEW text, Begun(text), ~OpenRune(text)
    PROVE  text \in Utf8
<1>1. text \in Seq(Symbol) /\ Len(text) \in Nat /\ DOMAIN text = 1 .. Len(text)
  BY DEF Begun
<1>2. ASSUME NEW i \in 1 .. Len(text), text[i] = Lead PROVE i < Len(text)
  BY <1>1, <1>2 DEF OpenRune
<1> QED
  BY <1>1, <1>2 DEF Begun, Utf8, WholeRunes

LEMMA BegunMask ==
    ASSUME NEW text, Begun(text), ~OpenRune(text)
    PROVE  Begun(text \o Mask) /\ ~OpenRune(text \o Mask)
<1> DEFINE t == text \o Mask
           n == Len(text)
<1>1. n \in Nat /\ text \in Seq(Symbol)
  BY DEF Begun
<1>2. /\ Mask \in Seq(Symbol) /\ Len(Mask) = 2
      /\ Mask[1] = Open /\ Mask[2] = Close
  BY DEF Mask, Symbol, Open, Close
<1>3. /\ t \in Seq(Symbol) /\ Len(t) = n + 2
      /\ \A i \in 1 .. n : t[i] = text[i]
      /\ t[n + 1] = Open /\ t[n + 2] = Close
  <2>1. t \in Seq(Symbol) /\ Len(t) = n + 2
    BY <1>1, <1>2, ConcatProperties
  <2>2. \A i \in 1 .. n + 2 : t[i] = IF i <= n THEN text[i] ELSE Mask[i - n]
    BY <1>1, <1>2, ConcatProperties
  <2> HIDE DEF t, n
  <2>3. /\ n + 1 \in 1 .. n + 2 /\ ~(n + 1 <= n) /\ (n + 1) - n = 1
        /\ n + 2 \in 1 .. n + 2 /\ ~(n + 2 <= n) /\ (n + 2) - n = 2
    BY <1>1
  <2>4. t[n + 1] = Mask[1] /\ t[n + 2] = Mask[2]
    BY <2>2, <2>3
  <2> QED
    BY <1>1, <1>2, <2>1, <2>2, <2>4
<1>4. Open # Lead /\ Open # Cont /\ Close # Lead /\ Close # Cont
  BY DEF Open, Close, Lead, Cont
<1> HIDE DEF t
<1>5. n > 0 => text[n] # Lead
  BY DEF OpenRune
<1>6. ASSUME NEW i \in 1 .. n + 2
      PROVE  /\ t[i] = Lead /\ i < n + 2 => t[i + 1] = Cont
             /\ t[i] = Cont => i > 1 /\ t[i - 1] = Lead
  <2>1. CASE i \in {n + 1, n + 2}
    BY <1>3, <1>4, <2>1
  <2>2. CASE i = n
    BY <1>1, <1>3, <1>5, <2>2 DEF Begun
  <2>3. CASE i \in 1 .. n - 1
    BY <1>1, <1>3, <2>3 DEF Begun
  <2> QED
    BY <1>1, <2>1, <2>2, <2>3
<1>7. Begun(t)
  BY <1>3, <1>6 DEF Begun
<1>8. ~OpenRune(t)
  BY <1>3, <1>4 DEF OpenRune
<1> QED
  BY <1>7, <1>8 DEF t

LEMMA BegunSymbol ==
    ASSUME NEW text, Begun(text), NEW symbol \in Symbol, symbol = Cont <=> OpenRune(text)
    PROVE  /\ Begun(text \o <<symbol>>)
           /\ OpenRune(text \o <<symbol>>) <=> symbol = Lead
<1> DEFINE t == text \o <<symbol>>
           n == Len(text)
<1>1. n \in Nat /\ text \in Seq(Symbol)
  BY DEF Begun
<1>2. /\ t \in Seq(Symbol) /\ Len(t) = n + 1
      /\ \A i \in 1 .. n : t[i] = text[i]
      /\ t[n + 1] = symbol
  BY <1>1
<1>3. Lead # Cont
  BY DEF Lead, Cont
<1>4. symbol = Cont <=> n > 0 /\ text[n] = Lead
  BY DEF OpenRune
<1> HIDE DEF t
<1>5. ASSUME NEW i \in 1 .. n + 1
      PROVE  /\ t[i] = Lead /\ i < n + 1 => t[i + 1] = Cont
             /\ t[i] = Cont => i > 1 /\ t[i - 1] = Lead
  <2>1. CASE i = n + 1
    BY <1>1, <1>2, <1>4, <2>1
  <2>2. CASE i = n
    BY <1>1, <1>2, <1>4, <2>2 DEF Begun
  <2>3. CASE i \in 1 .. n - 1
    BY <1>1, <1>2, <2>3 DEF Begun
  <2> QED
    BY <1>1, <2>1, <2>2, <2>3
<1>6. Begun(t)
  BY <1>2, <1>5 DEF Begun
<1>7. OpenRune(t) <=> symbol = Lead
  BY <1>1, <1>2 DEF OpenRune
<1> QED
  BY <1>6, <1>7 DEF t

\* The pieces put together so far.
Flat(pieces, f, n) ==
    f = [i \in 1 .. n |-> IF i = 1 THEN pieces[i] ELSE f[i - 1] \o pieces[i]]

LEMMA FlatExists ==
    ASSUME NEW pieces, NEW N \in Nat
    PROVE  \E f : Flat(pieces, f, N)
<1> DEFINE Bad == {n \in Nat : ~\E f : Flat(pieces, f, n)}
<1>1. ASSUME NEW n \in Bad, \A m \in Bad : ~(m < n) PROVE FALSE
  <2>1. CASE n = 0
    <3> DEFINE f == [i \in 1 .. 0 |-> <<>>]
    <3>1. Flat(pieces, f, 0)
      BY DEF Flat
    <3> QED
      BY <1>1, <2>1, <3>1
  <2>2. CASE n # 0
    <3>1. n \in Nat /\ n - 1 \in Nat /\ n - 1 < n
      BY <1>1, <2>2
    <3>2. PICK f : Flat(pieces, f, n - 1)
      BY <1>1, <3>1
    <3> DEFINE next == IF n = 1 THEN pieces[n] ELSE f[n - 1] \o pieces[n]
               g == [i \in 1 .. n |-> IF i < n THEN f[i] ELSE next]
    <3>3. \A i \in 1 .. n - 1 : f[i] = IF i = 1 THEN pieces[i] ELSE f[i - 1] \o pieces[i]
      BY <3>1, <3>2 DEF Flat
    <3>4. ASSUME NEW i \in 1 .. n
          PROVE  g[i] = IF i = 1 THEN pieces[i] ELSE g[i - 1] \o pieces[i]
      <4> HIDE DEF next
      <4>1. i # 1 => g[i - 1] = f[i - 1]
        BY <3>1
      <4>2. CASE i = n
        <5>1. g[i] = next
          BY <3>1, <4>2
        <5> HIDE DEF g
        <5> QED
          BY <4>1, <4>2, <5>1 DEF next
      <4>3. CASE i < n
        <5>1. g[i] = f[i] /\ i \in 1 .. n - 1
          BY <3>1, <4>3
        <5> HIDE DEF g
        <5> QED
          BY <3>3, <4>1, <5>1
      <4> QED
        BY <3>1, <4>2, <4>3
    <3>5. Flat(pieces, g, n)
      BY <3>4 DEF Flat
    <3> HIDE DEF g
    <3> QED
      BY <1>1, <3>5
  <2> QED
    BY <2>1, <2>2
<1>2. Bad = {}
  <2>1. Bad \in SUBSET Nat
    OBVIOUS
  <2> HIDE DEF Bad
  <2> QED
    BY <1>1, <2>1, LeastNumber
<1> QED
  BY <1>2

\* An interval that does not cut a rune in two.
Fits(text, s) ==
    /\ s[1] \in 1 .. Len(text) /\ s[2] \in 1 .. Len(text) /\ s[1] <= s[2]
    /\ text[s[1]] # Cont
    /\ text[s[2]] # Lead

Covered(spans, i) == \E s \in spans : i \in s[1] .. s[2]

Piece(text, spans, i) ==
    IF \E s \in spans : s[1] = i THEN Mask
    ELSE IF Covered(spans, i) THEN <<>>
    ELSE <<text[i]>>

\* One symbol more: an open rune is one whose first byte stays.
LEMMA PieceBegun ==
    ASSUME NEW text \in Utf8, NEW spans, \A s \in spans : Fits(text, s),
           NEW i \in 1 .. Len(text), NEW before, Begun(before),
           OpenRune(before) <=> i > 1 /\ ~Covered(spans, i - 1) /\ text[i - 1] = Lead
    PROVE  LET now == before \o Piece(text, spans, i)
           IN  /\ Begun(now)
               /\ OpenRune(now) <=> ~Covered(spans, i) /\ text[i] = Lead
<1>1. /\ Len(text) \in Nat /\ text[i] \in Symbol
      /\ text[i] = Cont => i > 1 /\ text[i - 1] = Lead
      /\ i > 1 /\ text[i - 1] = Lead => text[i] = Cont
  BY TextType
<1>2. \A s \in spans : s[1] \in Int /\ s[2] \in Int /\ s[1] <= s[2]
  BY <1>1 DEF Fits
<1>3. CASE \E s \in spans : s[1] = i
  <2>1. PICK s \in spans : s[1] = i
    BY <1>3
  <2>2. text[i] # Cont /\ Covered(spans, i)
    BY <1>2, <2>1 DEF Fits, Covered
  <2>3. ~OpenRune(before)
    BY <1>1, <2>2
  <2>4. Piece(text, spans, i) = Mask
    BY <1>3 DEF Piece
  <2> QED
    BY <2>2, <2>3, <2>4, BegunMask
<1>4. CASE Covered(spans, i) /\ ~\E s \in spans : s[1] = i
  <2>1. PICK s \in spans : i \in s[1] .. s[2] /\ s[1] # i
    BY <1>4 DEF Covered
  <2>2. i - 1 \in s[1] .. s[2]
    BY <1>1, <1>2, <2>1
  <2>3. ~OpenRune(before)
    BY <2>2 DEF Covered
  <2>4. Piece(text, spans, i) = <<>>
    BY <1>4 DEF Piece
  <2>5. before \o <<>> = before
    BY ConcatEmptySeq DEF Begun
  <2> QED
    BY <1>4, <2>3, <2>4, <2>5
<1>5. CASE ~Covered(spans, i)
  <2>1. ~\E s \in spans : s[1] = i
    BY <1>2, <1>5 DEF Covered
  <2>2. Piece(text, spans, i) = <<text[i]>>
    BY <1>5, <2>1 DEF Piece
  <2>3. i > 1 /\ text[i - 1] = Lead => ~Covered(spans, i - 1)
    <3>1. SUFFICES ASSUME i > 1, text[i - 1] = Lead, NEW s \in spans, i - 1 \in s[1] .. s[2]
                   PROVE  FALSE
      BY DEF Covered
    <3>2. i \notin s[1] .. s[2]
      BY <1>5 DEF Covered
    <3>3. s[2] = i - 1
      BY <1>1, <1>2, <3>1, <3>2
    <3> QED
      BY <3>1, <3>3 DEF Fits
  <2>4. text[i] = Cont <=> OpenRune(before)
    BY <1>1, <2>3
  <2> QED
    BY <1>1, <1>5, <2>2, <2>4, BegunSymbol
<1> QED
  BY <1>3, <1>4, <1>5

LEMMA MaskText ==
    ASSUME NEW text \in Utf8, NEW spans, \A s \in spans : Fits(text, s)
    PROVE  MaskSpans(text, spans) \in Utf8
<1> DEFINE N == Len(text)
           pieces == [i \in DOMAIN text |-> Piece(text, spans, i)]
<1>1. N \in Nat /\ DOMAIN text = 1 .. N
  BY TextType
<1>2. pieces \in Seq(Seq(Symbol)) /\ Len(pieces) = N
  <2>1. Mask \in Seq(Symbol) /\ <<>> \in Seq(Symbol)
    BY DEF Mask, Symbol, Open, Close
  <2>2. ASSUME NEW i \in 1 .. N PROVE Piece(text, spans, i) \in Seq(Symbol)
    <3>1. text[i] \in Symbol
      BY TextType
    <3>2. <<text[i]>> \in Seq(Symbol)
      BY <3>1
    <3> QED
      BY <2>1, <3>2 DEF Piece
  <2> QED
    BY <1>1, <2>2
<1>3. MaskSpans(text, spans) = FlattenSeq(pieces)
  BY DEF MaskSpans, Piece, Covered
<1>4. CASE N = 0
  <2>1. pieces = <<>>
    BY <1>2, <1>4, EmptySeq
  <2> QED
    BY <1>2, <1>3, <1>4, <2>1, EmptyText DEF FlattenSeq
<1>5. CASE N # 0
  <2> HIDE DEF pieces
  <2> DEFINE f == CHOOSE f : Flat(pieces, f, N)
  <2>1. Flat(pieces, f, N)
    BY <1>1, FlatExists
  <2>2. FlattenSeq(pieces) = f[N]
    BY <1>2, <1>5 DEF FlattenSeq, Flat
  <2> HIDE DEF f
  <2> DEFINE Good(i) == /\ Begun(f[i])
                        /\ OpenRune(f[i]) <=> ~Covered(spans, i) /\ text[i] = Lead
             Bad == {i \in 1 .. N : ~Good(i)}
  <2>3. ASSUME NEW i \in Bad, \A m \in Bad : ~(m < i) PROVE FALSE
    <3>1. i \in 1 .. N /\ pieces[i] = Piece(text, spans, i)
      BY <1>1, <2>3 DEF pieces
    <3>2. f[i] = IF i = 1 THEN pieces[i] ELSE f[i - 1] \o pieces[i]
      BY <2>1, <3>1 DEF Flat
    <3>3. CASE i = 1
      <4>1. f[i] = <<>> \o Piece(text, spans, i)
        <5>1. pieces[i] \in Seq(Symbol)
          BY <1>1, <1>2, <3>1
        <5> QED
          BY <3>1, <3>2, <3>3, <5>1, ConcatEmptySeq
      <4>2. OpenRune(<<>>) <=> i > 1 /\ ~Covered(spans, i - 1) /\ text[i - 1] = Lead
        BY <3>3, BegunEmpty
      <4>3. Good(i)
        BY <3>1, <4>1, <4>2, BegunEmpty, PieceBegun
      <4> QED
        BY <2>3, <4>3
    <3>4. CASE i # 1
      <4>1. i - 1 \in 1 .. N /\ i - 1 < i /\ i > 1
        BY <1>1, <3>1, <3>4
      <4>2. Good(i - 1)
        BY <2>3, <4>1
      <4>3. f[i] = f[i - 1] \o Piece(text, spans, i)
        BY <3>1, <3>2, <3>4
      <4>4. Good(i)
        BY <3>1, <4>1, <4>2, <4>3, PieceBegun
      <4> QED
        BY <2>3, <4>4
    <3> QED
      BY <3>3, <3>4
  <2>4. Bad = {}
    <3>1. Bad \in SUBSET Nat
      BY <1>1
    <3> HIDE DEF Bad
    <3> QED
      BY <2>3, <3>1, LeastNumber
  <2>5. N \in 1 .. N
    BY <1>1, <1>5
  <2>6. Good(N)
    BY <2>4, <2>5
  <2>7. text[N] # Lead
    BY <1>1, <2>5, TextType
  <2> QED
    BY <1>3, <2>2, <2>6, <2>7, BegunWhole
<1> QED
  BY <1>4, <1>5

-----------------------------------------------------------------------------
(***************************************************************************)
(* None of the patterns cuts a rune in two.                                *)
(***************************************************************************)
LEMMA SecretFits ==
    ASSUME NEW text \in Utf8, NEW s \in SecretSpans(text)
    PROVE  Fits(text, s)
<1>1. /\ s[1] \in 2 .. Len(text) /\ s[2] \in 2 .. Len(text) /\ s[1] <= s[2]
      /\ text[s[1] - 1] = Key
      /\ s[2] = Len(text) \/ text[s[2] + 1] = Comma
  BY DEF SecretSpans
<1>2. Len(text) \in Nat
  BY TextType
<1>3. Key # Lead /\ Comma # Cont
  BY DEF Key, Lead, Comma, Cont
<1>4. text[s[1]] # Cont
  BY <1>1, <1>2, <1>3, TextType
<1>5. text[s[2]] # Lead
  BY <1>1, <1>2, <1>3, TextType
<1> QED
  BY <1>1, <1>2, <1>4, <1>5 DEF Fits

LEMMA TokenFits ==
    ASSUME NEW text \in Utf8, NEW s \in TokenSpans(text)
    PROVE  Fits(text, s)
<1>1. PICK i \in DOMAIN text : text[i] = Mail /\ s = <<i, i>>
  BY DEF TokenSpans
<1>2. s[1] = i /\ s[2] = i
  BY <1>1
<1>3. Len(text) \in Nat /\ i \in 1 .. Len(text)
  BY TextType
<1>4. Mail # Lead /\ Mail # Cont
  BY DEF Mail, Lead, Cont
<1> QED
  BY <1>1, <1>2, <1>3, <1>4 DEF Fits

\* The search for numbers, from the last position to the first.
Ends(text, i) == {end \in i .. Len(text) : IsNumber(SubSeq(text, i, end))}

Found(text, from, i) ==
    IF i > Len(text) THEN {}
    ELSE IF Ends(text, i) = {} THEN from[i + 1]
    ELSE {<<i, Max(Ends(text, i))>>} \cup from[Max(Ends(text, i)) + 1]

Search(text, from) == from = [i \in 1 .. Len(text) + 1 |-> Found(text, from, i)]

LEMMA EndsMax ==
    ASSUME NEW text, Len(text) \in Nat, NEW i \in 1 .. Len(text), Ends(text, i) # {}
    PROVE  Max(Ends(text, i)) \in Ends(text, i)
<1>1. Ends(text, i) \in SUBSET (0 .. Len(text))
  BY DEF Ends
<1> QED
  BY <1>1, GreatestNumber

\* What is found from position i on.
From(text, from, n) ==
    from = [i \in Len(text) + 1 - n .. Len(text) + 1 |-> Found(text, from, i)]

LEMMA SearchExists ==
    ASSUME NEW text, Len(text) \in Nat
    PROVE  \E from : Search(text, from)
<1> DEFINE N == Len(text)
           Bad == {n \in 0 .. N : ~\E f : From(text, f, n)}
<1>1. ASSUME NEW n \in Bad, \A m \in Bad : ~(m < n) PROVE FALSE
  <2>1. CASE n = 0
    <3> DEFINE f == [i \in N + 1 .. N + 1 |-> {}]
    <3>1. ASSUME NEW i \in N + 1 .. N + 1 PROVE Found(text, f, i) = {}
      BY DEF Found
    <3>2. N + 1 - 0 = N + 1
      OBVIOUS
    <3>3. From(text, f, 0)
      BY <3>1, <3>2 DEF From
    <3> HIDE DEF f
    <3> QED
      BY <1>1, <2>1, <3>3
  <2>2. CASE n # 0
    <3> DEFINE k == N + 1 - n
    <3>1. /\ n \in 1 .. N /\ n - 1 \in 0 .. N /\ n - 1 < n
          /\ k \in 1 .. N /\ N + 1 - (n - 1) = k + 1
      BY <1>1, <2>2
    <3>2. PICK f : From(text, f, n - 1)
      BY <1>1, <3>1
    <3> DEFINE g == [i \in k .. N + 1 |-> IF i > k THEN f[i] ELSE Found(text, f, k)]
    <3>3. \A i \in k + 1 .. N + 1 : f[i] = Found(text, f, i)
      BY <3>1, <3>2 DEF From
    <3> HIDE DEF k
    <3>4. ASSUME NEW i \in k .. N + 1 PROVE g[i] = Found(text, g, i)
      <4>1. \A j \in i + 1 .. N + 1 : g[j] = f[j]
        BY <3>1
      <4>2. i <= N => i + 1 \in i + 1 .. N + 1
        BY <3>1
      <4>3. i <= N /\ Ends(text, i) # {} => Max(Ends(text, i)) + 1 \in i + 1 .. N + 1
        BY <3>1, EndsMax DEF Ends
      <4>4. g[i] = Found(text, f, i)
        BY <3>1, <3>3
      <4>5. i > N \/ i <= N
        BY <3>1
      <4> HIDE DEF g
      <4>6. /\ i <= N => g[i + 1] = f[i + 1]
            /\ i <= N /\ Ends(text, i) # {} =>
                 g[Max(Ends(text, i)) + 1] = f[Max(Ends(text, i)) + 1]
        BY <4>1, <4>2, <4>3
      <4>7. Found(text, f, i) = Found(text, g, i)
        BY <4>5, <4>6, Zenon DEF Found
      <4> QED
        BY <4>4, <4>7
    <3>5. From(text, g, n)
      BY <3>4 DEF From, k
    <3> HIDE DEF g
    <3> QED
      BY <1>1, <3>5
  <2> QED
    BY <2>1, <2>2
<1>2. Bad = {}
  <2>1. Bad \in SUBSET Nat
    OBVIOUS
  <2> HIDE DEF Bad
  <2> QED
    BY <1>1, <2>1, LeastNumber
<1>3. PICK f : From(text, f, N)
  BY <1>2
<1>4. N + 1 - N = 1
  OBVIOUS
<1>5. Search(text, f)
  BY <1>3, <1>4 DEF From, Search
<1> QED
  BY <1>5

IsMatch(text, s) == s[1] \in 1 .. Len(text) /\ s[2] \in Ends(text, s[1])

\* What the search finds from position i on: matches that do not overlap, and
\* one at every position where a number begins and that no match runs across.
Crosses(s, x) == s[1] < x /\ x <= s[2]

Orderly(text, found, i) ==
    /\ \A s \in found : IsMatch(text, s) /\ s[1] >= i
    /\ \A r, s \in found : r = s \/ r[2] < s[1] \/ s[2] < r[1]
    /\ \A x \in i .. Len(text) :
         Ends(text, x) # {} /\ (\A s \in found : ~Crosses(s, x)) =>
             <<x, Max(Ends(text, x))>> \in found

LEMMA SearchOrderly ==
    ASSUME NEW text, Len(text) \in Nat, NEW from, Search(text, from)
    PROVE  Orderly(text, from[1], 1)
<1> DEFINE N == Len(text)
           Bad == {n \in 0 .. N : ~Orderly(text, from[N + 1 - n], N + 1 - n)}
<1>1. ASSUME NEW n \in Bad, \A m \in Bad : ~(m < n) PROVE FALSE
  <2> DEFINE i == N + 1 - n
  <2>1. i \in 1 .. N + 1 /\ ~Orderly(text, from[i], i)
    OBVIOUS
  <2>2. ASSUME NEW j \in i + 1 .. N + 1 PROVE Orderly(text, from[j], j)
    <3>1. N + 1 - j \in 0 .. N /\ N + 1 - j < n /\ N + 1 - (N + 1 - j) = j
      BY <2>1
    <3> QED
      BY <1>1, <3>1
  <2>3. from[i] = Found(text, from, i)
    BY <2>1 DEF Search
  <2> HIDE DEF i
  <2>4. CASE i > N
    <3>1. from[i] = {}
      BY <2>3, <2>4 DEF Found
    <3>2. i .. N = {}
      BY <2>1, <2>4
    <3> QED
      BY <2>1, <3>1, <3>2 DEF Orderly
  <2>5. CASE i <= N /\ Ends(text, i) = {}
    <3>1. from[i] = from[i + 1] /\ i + 1 \in i + 1 .. N + 1
      BY <2>1, <2>3, <2>5 DEF Found
    <3>2. Orderly(text, from[i], i + 1)
      BY <2>2, <3>1
    <3>3. \A s \in from[i] : IsMatch(text, s) /\ s[1] >= i
      BY <2>1, <3>2 DEF Orderly, IsMatch
    <3>4. ASSUME NEW x \in i .. N, Ends(text, x) # {}, \A s \in from[i] : ~Crosses(s, x)
          PROVE  <<x, Max(Ends(text, x))>> \in from[i]
      <4>1. x # i
        BY <2>5, <3>4
      <4>2. x \in i + 1 .. N
        BY <2>1, <4>1
      <4> QED
        BY <3>2, <3>4, <4>2 DEF Orderly
    <3>5. \A r, s \in from[i] : r = s \/ r[2] < s[1] \/ s[2] < r[1]
      BY <3>2 DEF Orderly
    <3> QED
      BY <2>1, <3>3, <3>4, <3>5 DEF Orderly
  <2>6. CASE i <= N /\ Ends(text, i) # {}
    <3> DEFINE e == Max(Ends(text, i))
               first == <<i, e>>
    <3>1. i \in 1 .. N /\ e \in Ends(text, i)
      BY <2>1, <2>6, EndsMax
    <3>2. e \in i .. N
      BY <3>1 DEF Ends
    <3>3. from[i] = {first} \cup from[e + 1]
      BY <2>1, <2>3, <2>6 DEF Found
    <3> HIDE DEF e
    <3>4. first[1] = i /\ first[2] = e
      OBVIOUS
    <3>5. e + 1 \in i + 1 .. N + 1 /\ i \in Nat /\ e \in Nat
      BY <3>1, <3>2
    <3>6. Orderly(text, from[e + 1], e + 1)
      BY <2>2, <3>5
    <3>7. IsMatch(text, first)
      BY <3>1, <3>4 DEF IsMatch
    <3> HIDE DEF first
    <3>8. \A s \in from[e + 1] : IsMatch(text, s) /\ s[1] >= e + 1 /\ s[1] \in Nat
      BY <3>6 DEF Orderly, IsMatch
    <3>9. \A s \in from[i] : IsMatch(text, s) /\ s[1] >= i
      BY <3>3, <3>4, <3>5, <3>7, <3>8
    <3>10. ASSUME NEW r \in from[i], NEW s \in from[i]
           PROVE  r = s \/ r[2] < s[1] \/ s[2] < r[1]
      <4>1. CASE r \in from[e + 1] /\ s \in from[e + 1]
        BY <3>6, <4>1 DEF Orderly
      <4>2. CASE r = first /\ s \in from[e + 1]
        BY <3>4, <3>5, <3>8, <4>2
      <4>3. CASE s = first /\ r \in from[e + 1]
        BY <3>4, <3>5, <3>8, <4>3
      <4> QED
        BY <3>3, <4>1, <4>2, <4>3
    <3>11. ASSUME NEW x \in i .. N, Ends(text, x) # {}, \A s \in from[i] : ~Crosses(s, x)
           PROVE  <<x, Max(Ends(text, x))>> \in from[i]
      <4>1. CASE x = i
        BY <3>3, <4>1 DEF first, e
      <4>2. CASE x # i
        <5>1. ~Crosses(first, x)
          BY <3>3, <3>11
        <5>2. x \in e + 1 .. N
          BY <3>4, <3>5, <4>2, <5>1 DEF Crosses
        <5>3. \A s \in from[e + 1] : ~Crosses(s, x)
          BY <3>3, <3>11
        <5>4. <<x, Max(Ends(text, x))>> \in from[e + 1]
          BY <3>6, <3>11, <5>2, <5>3 DEF Orderly
        <5> QED
          BY <3>3, <5>4
      <4> QED
        BY <4>1, <4>2
    <3>12. Orderly(text, from[i], i)
      BY <3>9, <3>10, <3>11 DEF Orderly
    <3> QED
      BY <2>1, <3>12
  <2> QED
    BY <2>1, <2>4, <2>5, <2>6
<1>2. Bad = {}
  <2>1. Bad \in SUBSET Nat
    OBVIOUS
  <2> HIDE DEF Bad
  <2> QED
    BY <1>1, <2>1, LeastNumber
<1>3. N \in 0 .. N /\ N + 1 - N = 1
  OBVIOUS
<1> QED
  BY <1>2, <1>3

LEMMA MatchesOrderly ==
    ASSUME NEW text, Len(text) \in Nat
    PROVE  Orderly(text, Matches(text), 1)
<1> DEFINE from == CHOOSE from : Search(text, from)
<1>1. Search(text, from)
  BY SearchExists
<1>2. Matches(text) = from[1]
  BY Zenon DEF Matches, Search, Found, Ends
<1> HIDE DEF from
<1> QED
  BY <1>1, <1>2, SearchOrderly

\* The symbols of a match.
LEMMA MatchSymbols ==
    ASSUME NEW text \in Seq(Symbol), NEW s, IsMatch(text, s)
    PROVE  /\ s[1] \in 1 .. Len(text) /\ s[2] \in s[1] .. Len(text)
           /\ text[s[1]] \in Digit /\ text[s[2]] \in Digit
           /\ \A i \in s[1] .. s[2] :
                text[i] \in Digit \/ (text[i] = Space /\ i < s[2] /\ text[i + 1] \in Digit)
<1> DEFINE a == s[1]
           e == s[2]
           number == SubSeq(text, a, e)
           k == e - a + 1
<1>1. text \in Seq(Symbol) /\ Len(text) \in Nat
  OBVIOUS
<1>2. a \in 1 .. Len(text) /\ e \in a .. Len(text) /\ IsNumber(number)
  BY DEF IsMatch, Ends
<1> HIDE DEF a, e
<1>3. k \in Nat /\ 1 \in 1 .. k /\ k \in 1 .. k /\ a + 1 - 1 = a /\ a + k - 1 = e
  BY <1>1, <1>2
<1>4. \A i \in a .. e : text[i] \in Symbol
  BY <1>1, <1>2
<1>5. number \in Seq(Symbol) /\ Len(number) = k /\ \A i \in 1 .. k : number[i] = text[a + i - 1]
  BY <1>1, <1>2, <1>4, SubSeqProperties
<1>6. DOMAIN number = 1 .. k
  BY <1>5
<1> HIDE DEF number
<1>7. /\ number[1] \in Digit
      /\ \A i \in 1 .. k :
           number[i] \in Digit \/ (number[i] = Space /\ i < k /\ number[i + 1] \in Digit)
  BY <1>2, <1>5, <1>6, Zenon DEF IsNumber
<1>8. ASSUME NEW i \in a .. e
      PROVE  text[i] \in Digit \/ (text[i] = Space /\ i < e /\ text[i + 1] \in Digit)
  <2> DEFINE j == i - a + 1
  <2>1. j \in 1 .. k /\ a + j - 1 = i /\ (j < k => j + 1 \in 1 .. k /\ i < e)
        /\ a + (j + 1) - 1 = i + 1
    BY <1>1, <1>2
  <2> HIDE DEF j
  <2>2. number[j] = text[i] /\ (j < k => number[j + 1] = text[i + 1])
    BY <1>5, <2>1
  <2> QED
    BY <1>7, <2>1, <2>2
<1> HIDE DEF k
<1>9. text[a] \in Digit
  BY <1>3, <1>5, <1>7
<1>10. text[e] \in Digit
  <2>1. e \in a .. e /\ ~(e < e)
    BY <1>1, <1>2
  <2> QED
    BY <1>8, <2>1
<1> QED
  BY <1>2, <1>8, <1>9, <1>10 DEF a, e

\* A number begins and ends with a digit.
LEMMA MatchFits ==
    ASSUME NEW text \in Utf8, NEW s, IsMatch(text, s)
    PROVE  Fits(text, s)
<1>1. text \in Seq(Symbol) /\ Len(text) \in Nat
  BY TextType
<1>2. /\ s[1] \in 1 .. Len(text) /\ s[2] \in s[1] .. Len(text)
      /\ text[s[1]] \in Digit /\ text[s[2]] \in Digit
  BY <1>1, MatchSymbols
<1>3. Lead \notin Digit /\ Cont \notin Digit
  BY DEF Lead, Cont, Digit
<1> QED
  BY <1>1, <1>2, <1>3 DEF Fits

LEMMA CardFits ==
    ASSUME NEW text \in Utf8, NEW s \in CardSpans(text)
    PROVE  Fits(text, s)
<1>1. Len(text) \in Nat
  BY TextType
<1>2. s \in Matches(text)
  BY DEF CardSpans
<1> QED
  BY <1>1, <1>2, MatchesOrderly, MatchFits DEF Orderly

LEMMA RedactText ==
    ASSUME NEW text \in Utf8
    PROVE  redactMessage(text) \in Utf8
<1> DEFINE secrets == MaskSpans(text, SecretSpans(text))
           tokens  == MaskSpans(secrets, TokenSpans(secrets))
<1>1. secrets \in Utf8
  BY SecretFits, MaskText
<1> HIDE DEF secrets
<1>2. tokens \in Utf8
  BY <1>1, TokenFits, MaskText
<1> HIDE DEF tokens
<1>3. redactCardNumbers(tokens) \in Utf8
  BY <1>2, CardFits, MaskText DEF redactCardNumbers
<1> QED
  BY <1>3 DEF redactMessage, secrets, tokens

-----------------------------------------------------------------------------
(***************************************************************************)
(* Where masking puts the symbols of a text: place[i] symbols of the result *)
(* come from the first i of the text.                                      *)
(***************************************************************************)
Starts(spans, i) == \E s \in spans : s[1] = i

Proper(text, spans) ==
    \A s \in spans : s[1] \in 1 .. Len(text) /\ s[2] \in 1 .. Len(text) /\ s[1] <= s[2]

\* What the piece for symbol i contributes to the result.
Placed(text, spans, out, place, i) ==
    /\ place[i - 1] \in Nat /\ place[i] \in Nat /\ place[i] <= Len(out)
    /\ ~Covered(spans, i) => place[i] = place[i - 1] + 1 /\ out[place[i]] = text[i]
    /\ Starts(spans, i) =>
         /\ place[i] = place[i - 1] + 2
         /\ out[place[i - 1] + 1] = Open /\ out[place[i]] = Close
    /\ Covered(spans, i) /\ ~Starts(spans, i) => place[i] = place[i - 1]

Layout(text, spans, out, place) ==
    /\ out \in Seq(Symbol)
    /\ place[0] = 0 /\ place[Len(text)] = Len(out)
    /\ \A i \in 1 .. Len(text) : Placed(text, spans, out, place, i)

\* One piece more leaves the others in place.
LEMMA PlacedKept ==
    ASSUME NEW text, NEW spans, NEW out \in Seq(Symbol), NEW piece \in Seq(Symbol),
           NEW place, NEW i, Placed(text, spans, out, place, i)
    PROVE  Placed(text, spans, out \o piece, place, i)
<1>1. /\ Len(out) \in Nat /\ Len(out \o piece) >= Len(out)
      /\ \A k \in 1 .. Len(out) : (out \o piece)[k] = out[k]
  BY ConcatProperties
<1> DEFINE more == out \o piece
<1> HIDE DEF more
<1>2. /\ Len(out) \in Nat /\ Len(more) \in Nat /\ Len(more) >= Len(out)
      /\ \A k \in 1 .. Len(out) : more[k] = out[k]
  BY <1>1 DEF more
<1>3. place[i - 1] \in Nat /\ place[i] \in Nat /\ place[i] <= Len(out)
  BY DEF Placed
<1>4. ~Covered(spans, i) => place[i] \in 1 .. Len(out)
  BY <1>2, <1>3 DEF Placed
<1>5. Starts(spans, i) => place[i] \in 1 .. Len(out) /\ place[i - 1] + 1 \in 1 .. Len(out)
  BY <1>2, <1>3 DEF Placed
<1>6. Placed(text, spans, more, place, i)
  BY <1>2, <1>3, <1>4, <1>5 DEF Placed
<1> QED
  BY <1>6 DEF more

LEMMA MaskAppended ==
    ASSUME NEW out \in Seq(Symbol)
    PROVE  LET more == out \o Mask
               n == Len(out)
           IN  /\ more \in Seq(Symbol) /\ Len(more) = n + 2
               /\ more[n + 1] = Open /\ more[n + 2] = Close
<1> DEFINE t == out \o Mask
           n == Len(out)
<1>1. n \in Nat
  OBVIOUS
<1>2. /\ Mask \in Seq(Symbol) /\ Len(Mask) = 2
      /\ Mask[1] = Open /\ Mask[2] = Close
  BY DEF Mask, Symbol, Open, Close
<1>3. t \in Seq(Symbol) /\ Len(t) = n + 2
  <2>1. t \in Seq(Symbol) /\ Len(t) = n + Len(Mask)
    BY <1>2, ConcatProperties
  <2> QED
    BY <1>2, <2>1
<1>4. \A i \in 1 .. n + 2 : t[i] = IF i <= n THEN out[i] ELSE Mask[i - n]
  BY <1>1, <1>2, ConcatProperties
<1> HIDE DEF t, n
<1>5. /\ n + 1 \in 1 .. n + 2 /\ ~(n + 1 <= n) /\ (n + 1) - n = 1
      /\ n + 2 \in 1 .. n + 2 /\ ~(n + 2 <= n) /\ (n + 2) - n = 2
  BY <1>1
<1>6. t[n + 1] = Open /\ t[n + 2] = Close
  BY <1>2, <1>4, <1>5
<1> QED
  BY <1>3, <1>6 DEF t, n

LEMMA PlacedNew ==
    ASSUME NEW text, NEW spans, NEW out \in Seq(Symbol), NEW place, NEW i,
           text[i] \in Symbol, place[i - 1] = Len(out),
           place[i] = Len(out \o Piece(text, spans, i)),
           Starts(spans, i) => Covered(spans, i)
    PROVE  /\ out \o Piece(text, spans, i) \in Seq(Symbol)
           /\ Placed(text, spans, out \o Piece(text, spans, i), place, i)
<1> DEFINE n == Len(out)
<1>1. n \in Nat
  OBVIOUS
<1>2. CASE Starts(spans, i)
  <2>1. Piece(text, spans, i) = Mask
    BY <1>2 DEF Piece, Starts
  <2> DEFINE more == out \o Mask
  <2>2. /\ more \in Seq(Symbol) /\ Len(more) = n + 2
        /\ more[n + 1] = Open /\ more[n + 2] = Close
    BY MaskAppended
  <2> HIDE DEF more, n
  <2>3. place[i - 1] = n /\ place[i] = n + 2
    BY <2>1, <2>2 DEF n, more
  <2>4. Placed(text, spans, more, place, i)
    BY <1>1, <1>2, <2>2, <2>3 DEF Placed
  <2> QED
    BY <2>1, <2>2, <2>4 DEF more
<1>3. CASE Covered(spans, i) /\ ~Starts(spans, i)
  <2>1. Piece(text, spans, i) = <<>>
    BY <1>3 DEF Piece, Starts
  <2>2. out \o <<>> = out
    BY ConcatEmptySeq
  <2>3. place[i - 1] = n /\ place[i] = n
    BY <2>1, <2>2
  <2>4. Placed(text, spans, out, place, i)
    BY <1>1, <1>3, <2>3 DEF Placed
  <2> QED
    BY <2>1, <2>2, <2>4
<1>4. CASE ~Covered(spans, i)
  <2>1. Piece(text, spans, i) = <<text[i]>>
    BY <1>4 DEF Piece, Starts
  <2> DEFINE more == out \o <<text[i]>>
  <2>2. more \in Seq(Symbol) /\ Len(more) = n + 1 /\ more[n + 1] = text[i]
    OBVIOUS
  <2>3. place[i - 1] = n /\ place[i] = n + 1
    BY <2>1, <2>2
  <2> HIDE DEF more, n
  <2>4. Placed(text, spans, more, place, i)
    BY <1>1, <1>4, <2>2, <2>3 DEF Placed
  <2> QED
    BY <2>1, <2>2, <2>4 DEF more
<1> QED
  BY <1>2, <1>3, <1>4

LEMMA LayoutExists ==
    ASSUME NEW text \in Seq(Symbol), NEW spans, Proper(text, spans)
    PROVE  \E place : Layout(text, spans, MaskSpans(text, spans), place)
<1> DEFINE N == Len(text)
           pieces == [i \in DOMAIN text |-> Piece(text, spans, i)]
<1>1. N \in Nat /\ DOMAIN text = 1 .. N /\ \A i \in 1 .. N : text[i] \in Symbol
  OBVIOUS
<1>2. pieces \in Seq(Seq(Symbol)) /\ Len(pieces) = N
  <2>1. Mask \in Seq(Symbol) /\ <<>> \in Seq(Symbol)
    BY DEF Mask, Symbol, Open, Close
  <2>2. ASSUME NEW i \in 1 .. N PROVE Piece(text, spans, i) \in Seq(Symbol)
    <3>1. <<text[i]>> \in Seq(Symbol)
      BY <1>1
    <3> QED
      BY <2>1, <3>1 DEF Piece
  <2> QED
    BY <1>1, <2>2
<1>3. MaskSpans(text, spans) = FlattenSeq(pieces)
  BY DEF MaskSpans, Piece, Covered
<1>4. CASE N = 0
  <2>1. pieces = <<>>
    BY <1>2, <1>4, EmptySeq
  <2>2. MaskSpans(text, spans) = <<>>
    BY <1>2, <1>3, <1>4, <2>1 DEF FlattenSeq
  <2> DEFINE place == [i \in 0 .. 0 |-> 0]
  <2>3. place[0] = 0
    OBVIOUS
  <2> HIDE DEF place
  <2>4. Layout(text, spans, <<>>, place)
    BY <1>4, <2>3 DEF Layout
  <2> QED
    BY <2>2, <2>4
<1>5. CASE N # 0
  <2> HIDE DEF pieces
  <2> DEFINE f == CHOOSE f : Flat(pieces, f, N)
  <2>1. Flat(pieces, f, N)
    BY <1>1, FlatExists
  <2>2. FlattenSeq(pieces) = f[N]
    BY <1>2, <1>5 DEF FlattenSeq, Flat
  <2> HIDE DEF f
  <2> DEFINE place == [i \in 0 .. N |-> IF i = 0 THEN 0 ELSE Len(f[i])]
             Good(i) == /\ f[i] \in Seq(Symbol)
                        /\ \A j \in 1 .. i : Placed(text, spans, f[i], place, j)
             Bad == {i \in 1 .. N : ~Good(i)}
  <2>3. place[0] = 0 /\ \A i \in 1 .. N : place[i] = Len(f[i])
    BY <1>1
  <2> HIDE DEF place
  <2>4. ASSUME NEW i \in Bad, \A m \in Bad : ~(m < i) PROVE FALSE
    <3>1. i \in 1 .. N /\ pieces[i] = Piece(text, spans, i) /\ pieces[i] \in Seq(Symbol)
      BY <1>1, <1>2, <2>4 DEF pieces
    <3>2. f[i] = IF i = 1 THEN pieces[i] ELSE f[i - 1] \o pieces[i]
      BY <2>1, <3>1 DEF Flat
    <3>3. Starts(spans, i) => Covered(spans, i)
      BY DEF Starts, Covered, Proper
    <3>4. PICK before \in Seq(Symbol) :
            /\ f[i] = before \o pieces[i]
            /\ place[i - 1] = Len(before)
            /\ \A j \in 1 .. i - 1 : Placed(text, spans, before, place, j)
      <4>1. CASE i = 1
        <5>1. f[i] = <<>> \o pieces[i]
          BY <3>1, <3>2, <4>1, ConcatEmptySeq
        <5>2. /\ <<>> \in Seq(Symbol) /\ Len(<<>>) = 0 /\ i - 1 = 0
              /\ \A j \in 1 .. i - 1 : FALSE
          BY <4>1
        <5>3. place[i - 1] = Len(<<>>)
          BY <2>3, <5>2
        <5> WITNESS <<>> \in Seq(Symbol)
        <5> QED
          BY <5>1, <5>2, <5>3
      <4>2. CASE i # 1
        <5>1. i - 1 \in 1 .. N /\ i - 1 < i
          BY <1>1, <3>1, <4>2
        <5>2. Good(i - 1)
          BY <2>4, <5>1
        <5> QED
          BY <2>3, <3>2, <4>2, <5>1, <5>2
      <4> QED
        BY <4>1, <4>2
    <3>5. place[i] = Len(before \o pieces[i])
      BY <2>3, <3>1, <3>4
    <3>6. f[i] \in Seq(Symbol) /\ Placed(text, spans, f[i], place, i)
      BY <1>1, <3>1, <3>3, <3>4, <3>5, PlacedNew
    <3>7. ASSUME NEW j \in 1 .. i - 1 PROVE Placed(text, spans, f[i], place, j)
      BY <3>1, <3>4, PlacedKept
    <3>8. Good(i)
      BY <1>1, <3>1, <3>6, <3>7
    <3> QED
      BY <2>4, <3>8
  <2>5. Bad = {}
    <3>1. Bad \in SUBSET Nat
      BY <1>1
    <3> HIDE DEF Bad
    <3> QED
      BY <2>4, <3>1, LeastNumber
  <2>6. Good(N)
    BY <1>1, <1>5, <2>5
  <2>7. Layout(text, spans, f[N], place)
    BY <1>1, <1>5, <2>3, <2>6 DEF Layout
  <2> QED
    BY <1>3, <2>2, <2>7
<1> QED
  BY <1>4, <1>5

\* Every symbol of the result comes from a symbol of the text.
LEMMA LayoutSource ==
    ASSUME NEW text, Len(text) \in Nat, NEW spans, NEW out, NEW place,
           Layout(text, spans, out, place), NEW p \in 1 .. Len(out)
    PROVE  \E i \in 1 .. Len(text) : place[i - 1] < p /\ p <= place[i]
<1> DEFINE S == {i \in 0 .. Len(text) : p <= place[i]}
<1>1. Len(out) \in Nat /\ place[0] = 0 /\ place[Len(text)] = Len(out)
  BY DEF Layout
<1>2. Len(text) \in S
  BY <1>1
<1>3. S \in SUBSET Nat
  OBVIOUS
<1>4. PICK i \in S : \A m \in S : ~(m < i)
  <2> HIDE DEF S
  <2> QED
    BY <1>2, <1>3, LeastNumber
<1>5. i # 0
  BY <1>1, <1>4
<1>6. i \in 1 .. Len(text) /\ i - 1 \in 0 .. Len(text) /\ i - 1 < i
  BY <1>4, <1>5
<1>7. place[i - 1] \in Nat
  BY <1>6 DEF Layout, Placed
<1>8. ~(p <= place[i - 1])
  BY <1>4, <1>6
<1> QED
  BY <1>1, <1>4, <1>6, <1>7, <1>8

\* The symbol that follows one that stays.
LEMMA LayoutNext ==
    ASSUME NEW text, Len(text) \in Nat, NEW spans, Proper(text, spans), NEW out, NEW place,
           Layout(text, spans, out, place),
           NEW i \in 1 .. Len(text), ~Covered(spans, i), i < Len(text)
    PROVE  LET p == place[i]
           IN  /\ ~Covered(spans, i + 1) =>
                    p + 1 <= Len(out) /\ place[i + 1] = p + 1 /\ out[p + 1] = text[i + 1]
               /\ Covered(spans, i + 1) =>
                    /\ Starts(spans, i + 1)
                    /\ p + 2 <= Len(out) /\ out[p + 1] = Open /\ out[p + 2] = Close
<1>1. i + 1 \in 1 .. Len(text) /\ (i + 1) - 1 = i
  OBVIOUS
<1>2. Placed(text, spans, out, place, i + 1)
  BY <1>1 DEF Layout
<1>3. Covered(spans, i + 1) => Starts(spans, i + 1)
  <2>1. SUFFICES ASSUME NEW s \in spans, i + 1 \in s[1] .. s[2] PROVE s[1] = i + 1
    BY DEF Covered, Starts
  <2>2. i \notin s[1] .. s[2] /\ s[1] \in Int /\ s[2] \in Int
    BY DEF Covered, Proper
  <2> QED
    BY <2>1, <2>2
<1> DEFINE p == place[i]
<1>4. p = place[(i + 1) - 1]
  BY <1>1
<1> HIDE DEF p
<1>5. p \in Nat
  BY <1>2, <1>4 DEF Placed
<1>6. ~Covered(spans, i + 1) =>
        place[i + 1] <= Len(out) /\ place[i + 1] = p + 1 /\ out[place[i + 1]] = text[i + 1]
  BY <1>2, <1>4 DEF Placed
<1>7. Starts(spans, i + 1) =>
        /\ place[i + 1] <= Len(out) /\ place[i + 1] = p + 2
        /\ out[p + 1] = Open /\ out[place[i + 1]] = Close
  BY <1>2, <1>4 DEF Placed
<1>8. /\ ~Covered(spans, i + 1) =>
            p + 1 <= Len(out) /\ place[i + 1] = p + 1 /\ out[p + 1] = text[i + 1]
      /\ Covered(spans, i + 1) =>
            /\ Starts(spans, i + 1)
            /\ p + 2 <= Len(out) /\ out[p + 1] = Open /\ out[p + 2] = Close
  BY <1>3, <1>6, <1>7
<1> QED
  BY <1>8 DEF p

\* A symbol of the result that is not of a mask is one that stays.
LEMMA LayoutStays ==
    ASSUME NEW text, Len(text) \in Nat, NEW spans, NEW out, NEW place,
           Layout(text, spans, out, place),
           NEW p \in 1 .. Len(out), out[p] \notin {Open, Close}
    PROVE  \E i \in 1 .. Len(text) :
               ~Covered(spans, i) /\ place[i] = p /\ place[i - 1] = p - 1 /\ text[i] = out[p]
<1>1. PICK i \in 1 .. Len(text) : place[i - 1] < p /\ p <= place[i]
  BY LayoutSource
<1>2. Placed(text, spans, out, place, i)
  BY DEF Layout
<1>3. place[i - 1] \in Nat /\ place[i] \in Nat /\ p \in Nat
  BY <1>2 DEF Placed, Layout
<1>4. ~Starts(spans, i)
  <2>1. SUFFICES ASSUME Starts(spans, i) PROVE FALSE
    OBVIOUS
  <2>2. place[i] = place[i - 1] + 2 /\ out[place[i - 1] + 1] = Open /\ out[place[i]] = Close
    BY <1>2, <2>1 DEF Placed
  <2>3. p = place[i - 1] + 1 \/ p = place[i]
    BY <1>1, <1>3, <2>2
  <2> QED
    BY <2>2, <2>3
<1>5. ~Covered(spans, i)
  <2>1. SUFFICES ASSUME Covered(spans, i) PROVE FALSE
    OBVIOUS
  <2>2. place[i] = place[i - 1]
    BY <1>2, <1>4, <2>1 DEF Placed
  <2> QED
    BY <1>1, <1>3, <2>2
<1>6. place[i] = place[i - 1] + 1 /\ out[place[i]] = text[i]
  BY <1>2, <1>5 DEF Placed
<1>7. place[i] = p /\ place[i - 1] = p - 1
  BY <1>1, <1>3, <1>6
<1> QED
  BY <1>5, <1>6, <1>7

-----------------------------------------------------------------------------
(***************************************************************************)
(* Keys and tokens.                                                        *)
(***************************************************************************)

\* A key has no value, or a masked one.
Guarded(text) ==
    \A p \in 1 .. Len(text) :
        text[p] = Key =>
            \/ p = Len(text)
            \/ text[p + 1] = Comma
            \/ p + 2 <= Len(text) /\ text[p + 1] = Open /\ text[p + 2] = Close

NoToken(text) == \A p \in 1 .. Len(text) : text[p] # Mail

LEMMA ShowsNoSecret ==
    ASSUME NEW text \in Seq(Symbol), Guarded(text), NoToken(text)
    PROVE  ~ShowsSecret(text)
<1>1. Len(text) \in Nat /\ DOMAIN text = 1 .. Len(text)
  OBVIOUS
<1>2. SUFFICES ASSUME NEW i \in 1 .. Len(text), text[i] = Key, i < Len(text),
                      text[i + 1] # Comma,
                      i + 2 > Len(text) \/ SubSeq(text, i + 1, i + 2) # Mask
               PROVE  FALSE
  BY <1>1 DEF ShowsSecret, NoToken
<1>3. i + 2 <= Len(text) /\ text[i + 1] = Open /\ text[i + 2] = Close
  <2>1. \/ i = Len(text)
        \/ text[i + 1] = Comma
        \/ i + 2 <= Len(text) /\ text[i + 1] = Open /\ text[i + 2] = Close
    BY <1>2, Zenon DEF Guarded
  <2>2. \A n \in Nat : \A k \in 1 .. n : k < n => k # n
    OBVIOUS
  <2>3. i # Len(text)
    BY <1>1, <1>2, <2>2, Zenon
  <2> QED
    BY <1>2, <2>1, <2>3, Zenon
<1>4. SubSeq(text, i + 1, i + 2) = Mask
  <2> DEFINE q == SubSeq(text, i + 1, i + 2)
  <2>1. i + 1 \in 1 .. Len(text) + 1 /\ i + 2 \in i .. Len(text) /\ (i + 2) - (i + 1) + 1 = 2
    BY <1>1, <1>3
  <2>2. q \in Seq(Symbol) /\ Len(q) = 2 /\ q[1] = text[i + 1] /\ q[2] = text[i + 2]
    BY <1>1, <1>3, <2>1
  <2>3. Mask \in Seq(Symbol) /\ Len(Mask) = 2 /\ Mask[1] = Open /\ Mask[2] = Close
    BY DEF Mask, Symbol, Open, Close
  <2> HIDE DEF q
  <2>4. \A k \in 1 .. 2 : q[k] = Mask[k]
    BY <1>3, <2>2, <2>3
  <2>5. q = Mask
    BY <2>2, <2>3, <2>4, SeqEqual
  <2> QED
    BY <2>5 DEF q
<1> QED
  BY <1>1, <1>2, <1>3, <1>4

LEMMA SecretProper ==
    ASSUME NEW text \in Seq(Symbol)
    PROVE  Proper(text, SecretSpans(text))
<1>1. Len(text) \in Nat
  OBVIOUS
<1> QED
  BY <1>1 DEF Proper, SecretSpans

\* A key with a value is one of the keys, the first since the last delimiter,
\* whose value is masked, or lies within that value.
LEMMA SecretCovers ==
    ASSUME NEW text \in Seq(Symbol), NEW i \in 1 .. Len(text), text[i] = Key,
           i < Len(text), text[i + 1] # Comma
    PROVE  Covered(SecretSpans(text), i + 1)
<1> DEFINE N == Len(text)
           Stops == {e \in i + 1 .. N : e = N \/ text[e + 1] = Comma}
           Heads == {k \in 1 .. i : text[k] = Key /\ \A j \in k + 1 .. i : text[j] # Comma}
<1>1. N \in Nat /\ i \in Nat
  OBVIOUS
<1>2. PICK e \in Stops : \A m \in Stops : ~(m < e)
  <2>1. N \in Stops /\ Stops \in SUBSET Nat
    BY <1>1
  <2> HIDE DEF Stops
  <2> QED
    BY <2>1, LeastNumber
<1>3. PICK k \in Heads : \A m \in Heads : ~(m < k)
  <2>1. i \in Heads /\ Heads \in SUBSET Nat
    BY <1>1
  <2> HIDE DEF Heads
  <2> QED
    BY <2>1, LeastNumber
<1>4. /\ e \in i + 1 .. N /\ (e = N \/ text[e + 1] = Comma)
      /\ k \in 1 .. i /\ text[k] = Key /\ \A j \in k + 1 .. i : text[j] # Comma
  BY <1>2, <1>3
<1>5. ASSUME NEW j \in k + 1 .. e PROVE text[j] # Comma
  <2>1. CASE j <= i
    BY <1>4, <2>1
  <2>2. CASE j = i + 1
    BY <2>2
  <2>3. CASE j > i + 1
    <3>1. j - 1 \in i + 1 .. N /\ j - 1 < e /\ (j - 1) + 1 = j
      BY <1>1, <1>4, <2>3
    <3>2. j - 1 \notin Stops
      BY <1>2, <3>1
    <3> QED
      BY <3>1, <3>2
  <2> QED
    BY <1>1, <1>4, <2>1, <2>2, <2>3
<1>6. ASSUME NEW h \in 1 .. k - 1, text[h] = Key
      PROVE  \E j \in h + 1 .. k - 1 : text[j] = Comma
  <2>1. h \in 1 .. i /\ h < k
    BY <1>1, <1>4
  <2>2. h \notin Heads
    BY <1>3, <2>1
  <2>3. PICK j \in h + 1 .. i : text[j] = Comma
    BY <1>6, <2>1, <2>2
  <2>4. Key # Comma
    BY DEF Key, Comma
  <2>5. j # k /\ j \notin k + 1 .. i
    BY <1>4, <2>3, <2>4
  <2>6. j \in h + 1 .. k - 1
    BY <1>1, <1>4, <2>1, <2>3, <2>5
  <2> QED
    BY <2>3, <2>6
<1> HIDE DEF Stops, Heads
<1> DEFINE s == <<k + 1, e>>
<1>7. /\ k + 1 \in 2 .. N /\ e \in 2 .. N /\ k + 1 <= e /\ (k + 1) - 1 = k /\ (k + 1) - 2 = k - 1
      /\ i + 1 \in k + 1 .. e
  BY <1>1, <1>4
<1>8. s[1] = k + 1 /\ s[2] = e /\ s \in (2 .. N) \X (2 .. N)
  BY <1>7
<1> HIDE DEF s
<1>9. s \in SecretSpans(text)
  <2>1. /\ s[1] <= s[2]
        /\ text[s[1] - 1] = Key
        /\ \A j \in s[1] .. s[2] : text[j] # Comma
        /\ s[2] = Len(text) \/ text[s[2] + 1] = Comma
    BY <1>4, <1>5, <1>7, <1>8
  <2>2. \A h \in 1 .. s[1] - 2 :
          text[h] = Key => \E j \in h + 1 .. s[1] - 2 : text[j] = Comma
    BY <1>6, <1>7, <1>8
  <2> QED
    BY <1>8, <2>1, <2>2, Zenon DEF SecretSpans
<1> QED
  BY <1>7, <1>8, <1>9 DEF Covered

LEMMA SecretsGuarded ==
    ASSUME NEW text \in Seq(Symbol)
    PROVE  /\ MaskSpans(text, SecretSpans(text)) \in Seq(Symbol)
           /\ Guarded(MaskSpans(text, SecretSpans(text)))
<1> DEFINE spans == SecretSpans(text)
           out == MaskSpans(text, spans)
<1>1. Len(text) \in Nat /\ Proper(text, spans)
  BY SecretProper
<1>2. PICK place : Layout(text, spans, out, place)
  BY <1>1, LayoutExists
<1>3. out \in Seq(Symbol) /\ Len(out) \in Nat /\ place[Len(text)] = Len(out)
  BY <1>2 DEF Layout
<1>4. Key \notin {Open, Close}
  BY DEF Key, Open, Close
<1> HIDE DEF out
<1>5. ASSUME NEW p \in 1 .. Len(out), out[p] = Key
      PROVE  \/ p = Len(out)
             \/ out[p + 1] = Comma
             \/ p + 2 <= Len(out) /\ out[p + 1] = Open /\ out[p + 2] = Close
  <2>1. PICK i \in 1 .. Len(text) : ~Covered(spans, i) /\ place[i] = p /\ text[i] = Key
    BY <1>1, <1>2, <1>4, <1>5, LayoutStays
  <2>2. CASE i = Len(text)
    BY <1>3, <2>1, <2>2
  <2>3. CASE i < Len(text) /\ Covered(spans, i + 1)
    BY <1>1, <1>2, <2>1, <2>3, LayoutNext
  <2>4. CASE i < Len(text) /\ ~Covered(spans, i + 1)
    <3>1. text[i + 1] = Comma
      BY <2>1, <2>4, SecretCovers
    <3>2. out[p + 1] = text[i + 1]
      BY <1>1, <1>2, <2>1, <2>4, LayoutNext
    <3> QED
      BY <3>1, <3>2
  <2> QED
    BY <1>1, <2>1, <2>2, <2>3, <2>4
<1>6. Guarded(out)
  BY <1>5 DEF Guarded
<1> QED
  BY <1>3, <1>6 DEF out

\* Masking what is neither a key, a delimiter nor a mask keeps keys guarded.
LEMMA MaskKeepsGuard ==
    ASSUME NEW text \in Seq(Symbol), Guarded(text), NEW spans, Proper(text, spans),
           \A i \in 1 .. Len(text) :
               Covered(spans, i) => text[i] \notin {Key, Comma, Open, Close}
    PROVE  /\ MaskSpans(text, spans) \in Seq(Symbol)
           /\ Guarded(MaskSpans(text, spans))
<1> DEFINE out == MaskSpans(text, spans)
<1>1. Len(text) \in Nat
  OBVIOUS
<1>2. PICK place : Layout(text, spans, out, place)
  BY LayoutExists
<1>3. out \in Seq(Symbol) /\ Len(out) \in Nat /\ place[Len(text)] = Len(out)
  BY <1>2 DEF Layout
<1>4. Key \notin {Open, Close}
  BY DEF Key, Open, Close
<1> HIDE DEF out
<1>5. ASSUME NEW p \in 1 .. Len(out), out[p] = Key
      PROVE  \/ p = Len(out)
             \/ out[p + 1] = Comma
             \/ p + 2 <= Len(out) /\ out[p + 1] = Open /\ out[p + 2] = Close
  <2>1. PICK i \in 1 .. Len(text) : ~Covered(spans, i) /\ place[i] = p /\ text[i] = Key
    BY <1>1, <1>2, <1>4, <1>5, LayoutStays
  <2>2. CASE i = Len(text)
    BY <1>3, <2>1, <2>2
  <2>3. CASE i < Len(text) /\ text[i + 1] = Comma
    <3>1. i + 1 \in 1 .. Len(text)
      BY <1>1, <2>3
    <3>2. ~Covered(spans, i + 1)
      BY <2>3, <3>1
    <3>3. out[p + 1] = text[i + 1]
      BY <1>1, <1>2, <2>1, <2>3, <3>2, LayoutNext
    <3> QED
      BY <2>3, <3>3
  <2>4. CASE i < Len(text) /\ i + 2 <= Len(text) /\ text[i + 1] = Open /\ text[i + 2] = Close
    <3>1. i + 1 \in 1 .. Len(text) /\ i + 2 \in 1 .. Len(text)
          /\ i + 1 < Len(text) /\ (i + 1) + 1 = i + 2
      BY <1>1, <2>4
    <3>2. ~Covered(spans, i + 1) /\ ~Covered(spans, i + 2)
      BY <2>4, <3>1
    <3>3. place[i + 1] = p + 1 /\ out[p + 1] = text[i + 1]
      BY <1>1, <1>2, <2>1, <2>4, <3>2, LayoutNext
    <3>4. /\ (p + 1) + 1 <= Len(out)
          /\ out[(p + 1) + 1] = text[i + 2]
      BY <1>1, <1>2, <3>1, <3>2, <3>3, LayoutNext
    <3>5. (p + 1) + 1 = p + 2
      BY <1>3
    <3> QED
      BY <2>4, <3>3, <3>4, <3>5
  <2>5. \/ i = Len(text)
        \/ text[i + 1] = Comma
        \/ i + 2 <= Len(text) /\ text[i + 1] = Open /\ text[i + 2] = Close
    BY <2>1, Zenon DEF Guarded
  <2>6. i = Len(text) \/ i < Len(text)
    BY <1>1
  <2> QED
    BY <2>2, <2>3, <2>4, <2>5, <2>6, Zenon
<1>6. Guarded(out)
  BY <1>5 DEF Guarded
<1> QED
  BY <1>3, <1>6 DEF out

\* No token is left if every one is masked.
LEMMA MaskNoToken ==
    ASSUME NEW text \in Seq(Symbol), NEW spans, Proper(text, spans),
           \A i \in 1 .. Len(text) : text[i] = Mail => Covered(spans, i)
    PROVE  NoToken(MaskSpans(text, spans))
<1> DEFINE out == MaskSpans(text, spans)
<1>1. PICK place : Layout(text, spans, out, place)
  BY LayoutExists
<1>2. Mail \notin {Open, Close}
  BY DEF Mail, Open, Close
<1> HIDE DEF out
<1>3. ASSUME NEW p \in 1 .. Len(out), out[p] = Mail PROVE FALSE
  <2>1. PICK i \in 1 .. Len(text) : ~Covered(spans, i) /\ text[i] = out[p]
    BY <1>1, <1>2, <1>3, LayoutStays
  <2> QED
    BY <1>3, <2>1
<1> QED
  BY <1>3 DEF NoToken, out

LEMMA TokenSpansCover ==
    ASSUME NEW text \in Seq(Symbol)
    PROVE  /\ Proper(text, TokenSpans(text))
           /\ \A i \in 1 .. Len(text) : Covered(TokenSpans(text), i) <=> text[i] = Mail
<1>1. Len(text) \in Nat /\ DOMAIN text = 1 .. Len(text)
  OBVIOUS
<1>2. ASSUME NEW s \in TokenSpans(text)
      PROVE  \E i \in 1 .. Len(text) : text[i] = Mail /\ s[1] = i /\ s[2] = i
  <2>1. PICK i \in 1 .. Len(text) : text[i] = Mail /\ s = <<i, i>>
    BY <1>1 DEF TokenSpans
  <2> QED
    BY <2>1
<1>3. ASSUME NEW i \in 1 .. Len(text), text[i] = Mail PROVE Covered(TokenSpans(text), i)
  <2>1. <<i, i>> \in TokenSpans(text)
    BY <1>1, <1>3 DEF TokenSpans
  <2>2. <<i, i>>[1] = i /\ <<i, i>>[2] = i /\ i \in i .. i
    BY <1>1
  <2> QED
    BY <2>1, <2>2 DEF Covered
<1>4. ASSUME NEW i \in 1 .. Len(text), Covered(TokenSpans(text), i) PROVE text[i] = Mail
  <2>1. PICK s \in TokenSpans(text) : i \in s[1] .. s[2]
    BY <1>4 DEF Covered
  <2>2. PICK j \in 1 .. Len(text) : text[j] = Mail /\ s[1] = j /\ s[2] = j
    BY <1>2
  <2> QED
    BY <1>1, <2>1, <2>2
<1>5. Proper(text, TokenSpans(text))
  BY <1>1, <1>2 DEF Proper
<1> QED
  BY <1>3, <1>4, <1>5

-----------------------------------------------------------------------------
(***************************************************************************)
(* Card numbers.                                                           *)
(***************************************************************************)
LEMMA FlattenType ==
    ASSUME NEW S, NEW pieces \in Seq(Seq(S))
    PROVE  FlattenSeq(pieces) \in Seq(S)
<1> DEFINE N == Len(pieces)
<1>1. N \in Nat /\ \A i \in 1 .. N : pieces[i] \in Seq(S)
  OBVIOUS
<1>2. CASE N = 0
  <2>1. pieces = <<>>
    BY <1>2, EmptySeq
  <2> QED
    BY <2>1 DEF FlattenSeq
<1>3. CASE N # 0
  <2> DEFINE f == CHOOSE f : Flat(pieces, f, N)
  <2>1. Flat(pieces, f, N)
    BY <1>1, FlatExists
  <2>2. FlattenSeq(pieces) = f[N]
    BY <1>3 DEF FlattenSeq, Flat
  <2> HIDE DEF f
  <2> DEFINE Bad == {i \in 1 .. N : f[i] \notin Seq(S)}
  <2>3. ASSUME NEW i \in Bad, \A m \in Bad : ~(m < i) PROVE FALSE
    <3>1. i \in 1 .. N /\ pieces[i] \in Seq(S)
      BY <1>1
    <3>2. f[i] = IF i = 1 THEN pieces[i] ELSE f[i - 1] \o pieces[i]
      BY <2>1, <3>1 DEF Flat
    <3>3. i # 1 => f[i - 1] \in Seq(S)
      <4>1. i # 1 => i - 1 \in 1 .. N /\ i - 1 < i
        BY <1>1, <3>1
      <4> QED
        BY <2>3, <4>1
    <3>4. f[i] \in Seq(S)
      BY <3>1, <3>2, <3>3, ConcatProperties
    <3> QED
      BY <2>3, <3>4
  <2>4. Bad = {}
    <3>1. Bad \in SUBSET Nat
      BY <1>1
    <3> HIDE DEF Bad
    <3> QED
      BY <2>3, <3>1, LeastNumber
  <2> QED
    BY <1>1, <1>3, <2>2, <2>4
<1> QED
  BY <1>2, <1>3

LEMMA DigitsType ==
    ASSUME NEW text \in Seq(Symbol)
    PROVE  DigitsOf(text) \in Seq(Digit)
<1> DEFINE pieces == [i \in DOMAIN text |-> IF text[i] \in Digit THEN <<text[i]>> ELSE <<>>]
<1>1. ASSUME NEW i \in 1 .. Len(text)
      PROVE  (IF text[i] \in Digit THEN <<text[i]>> ELSE <<>>) \in Seq(Digit)
  OBVIOUS
<1>2. Len(text) \in Nat /\ DOMAIN text = 1 .. Len(text)
  OBVIOUS
<1>3. pieces \in Seq(Seq(Digit))
  BY <1>1, <1>2
<1>4. DigitsOf(text) = FlattenSeq(pieces)
  BY Zenon DEF DigitsOf
<1> HIDE DEF pieces
<1> QED
  BY <1>3, <1>4, FlattenType

\* The check of the code agrees with the textbook's: doubling, and taking 9
\* off a sum above 9, is the table of digit sums, and the digits that count
\* once are those whose place from the left has the parity of the length.
CheckDigit(text) ==
    LET digits  == DigitsOf(text)
        doubled == <<0, 2, 4, 6, 8, 1, 3, 5, 7, 9>>
        single(i) == i % 2 = Len(digits) % 2
    IN  SumFunction([i \in DOMAIN digits |->
                        IF single(i) THEN digits[i] ELSE doubled[digits[i] + 1]]) % 10 = 0

LEMMA LuhnAgrees ==
    ASSUME NEW text \in Seq(Symbol)
    PROVE  passesLuhn(text) <=> CheckDigit(text)
<1> DEFINE digits == DigitsOf(text)
           doubled == <<0, 2, 4, 6, 8, 1, 3, 5, 7, 9>>
           double(d) == IF 2 * d > 9 THEN 2 * d - 9 ELSE 2 * d
           mine(i) == IF (Len(digits) - i) % 2 = 1 THEN double(digits[i]) ELSE digits[i]
           theirs(i) == IF i % 2 = Len(digits) % 2 THEN digits[i] ELSE doubled[digits[i] + 1]
<1>1. digits \in Seq(Digit)
  BY DigitsType
<1> HIDE DEF digits
<1>2. /\ Len(digits) \in Nat /\ DOMAIN digits = 1 .. Len(digits)
      /\ \A i \in 1 .. Len(digits) : digits[i] \in 0 .. 9
  BY <1>1 DEF Digit
<1>3. \A d \in 0 .. 9 : doubled[d + 1] = double(d)
  <2>1. /\ doubled[1] = 0 /\ doubled[2] = 2 /\ doubled[3] = 4 /\ doubled[4] = 6
        /\ doubled[5] = 8 /\ doubled[6] = 1 /\ doubled[7] = 3 /\ doubled[8] = 5
        /\ doubled[9] = 7 /\ doubled[10] = 9
    OBVIOUS
  <2> HIDE DEF doubled
  <2> QED
    BY <2>1
<1>4. \A n, i \in Nat : i % 2 = n % 2 <=> ~((n - i) % 2 = 1)
  OBVIOUS
<1> HIDE DEF doubled
<1>5. ASSUME NEW i \in DOMAIN digits PROVE mine(i) = theirs(i)
  <2>1. /\ digits[i] \in 0 .. 9
        /\ i % 2 = Len(digits) % 2 <=> ~((Len(digits) - i) % 2 = 1)
    BY <1>2, <1>4
  <2>2. doubled[digits[i] + 1] = double(digits[i])
    BY <1>3, <2>1
  <2> HIDE DEF double
  <2> QED
    BY <2>1, <2>2, Zenon
<1>6. [i \in DOMAIN digits |-> mine(i)] = [i \in DOMAIN digits |-> theirs(i)]
  BY <1>5
<1>7. CheckDigit(text) <=> SumFunction([i \in DOMAIN digits |-> theirs(i)]) % 10 = 0
  BY Zenon DEF CheckDigit, digits, doubled
<1>8. passesLuhn(text) <=> SumFunction([i \in DOMAIN digits |-> mine(i)]) % 10 = 0
  BY Zenon DEF passesLuhn, digits
<1> QED
  BY <1>6, <1>7, <1>8, Zenon

LEMMA CardIsNumber ==
    ASSUME NEW text \in Seq(Symbol), Len(text) > 0, IsCard(text)
    PROVE  IsNumber(text) /\ passesLuhn(text)
<1> DEFINE n == Len(text)
<1>1. n \in Nat /\ DOMAIN text = 1 .. n /\ 1 \in 1 .. n /\ n \in 1 .. n
  OBVIOUS
<1>2. /\ \A i \in 1 .. n : text[i] \in Digit \cup {Space}
      /\ \A i \in 1 .. n - 1 : <<text[i], text[i + 1]>> # <<Space, Space>>
      /\ Space \notin {text[1], text[n]}
      /\ Len(DigitsOf(text)) \in MinDigits .. MaxDigits
  BY <1>1 DEF IsCard
<1>3. \A i \in 1 .. n - 1 : ~(text[i] = Space /\ text[i + 1] = Space)
  BY <1>2
<1>4. ASSUME NEW i \in 1 .. n, text[i] \notin Digit
      PROVE  text[i] = Space /\ i < n /\ text[i + 1] \in Digit
  <2>1. text[i] = Space
    BY <1>2, <1>4
  <2>2. i # n
    BY <1>2, <2>1
  <2> HIDE DEF n
  <2>3. i < n /\ i \in 1 .. n - 1 /\ i + 1 \in 1 .. n
    BY <1>1, <2>2
  <2> QED
    BY <1>2, <1>3, <2>1, <2>3
<1>5. text[1] \in Digit
  BY <1>1, <1>2
<1>6. IsNumber(text)
  BY <1>1, <1>2, <1>4, <1>5, Zenon DEF IsNumber
<1>7. CheckDigit(text)
  BY Zenon DEF IsCard, CheckDigit
<1> QED
  BY <1>6, <1>7, LuhnAgrees

LEMMA CardSpansCover ==
    ASSUME NEW text \in Seq(Symbol)
    PROVE  /\ Proper(text, CardSpans(text))
           /\ \A i \in 1 .. Len(text) :
                Covered(CardSpans(text), i) => text[i] \in Digit \cup {Space}
<1>1. Len(text) \in Nat
  OBVIOUS
<1>2. ASSUME NEW s \in CardSpans(text) PROVE IsMatch(text, s)
  <2>1. s \in Matches(text)
    BY DEF CardSpans
  <2> QED
    BY <1>1, <2>1, MatchesOrderly DEF Orderly
<1>3. Proper(text, CardSpans(text))
  BY <1>1, <1>2, MatchSymbols DEF Proper
<1>4. ASSUME NEW i \in 1 .. Len(text), NEW s \in CardSpans(text), i \in s[1] .. s[2]
      PROVE  text[i] \in Digit \cup {Space}
  BY <1>2, <1>4, MatchSymbols
<1> QED
  BY <1>3, <1>4 DEF Covered

\* A match that is not replaced stays as a whole.
LEMMA MatchStays ==
    ASSUME NEW text \in Seq(Symbol), NEW m \in Matches(text), m \notin CardSpans(text),
           NEW j \in m[1] .. m[2]
    PROVE  ~Covered(CardSpans(text), j)
<1>1. SUFFICES ASSUME NEW c \in CardSpans(text), j \in c[1] .. c[2] PROVE FALSE
  BY DEF Covered
<1>2. c \in Matches(text) /\ c # m
  BY <1>1 DEF CardSpans
<1>3. c[2] < m[1] \/ m[2] < c[1]
  BY <1>2, MatchesOrderly DEF Orderly
<1>4. IsMatch(text, c) /\ IsMatch(text, m)
  BY <1>2, MatchesOrderly DEF Orderly
<1>5. Len(text) \in Nat /\ c[1] \in Int /\ c[2] \in Int /\ m[1] \in Int /\ m[2] \in Int
  BY <1>4 DEF IsMatch, Ends
<1> QED
  BY <1>1, <1>3, <1>5

LEMMA EndsBound ==
    ASSUME NEW text, Len(text) \in Nat, NEW i \in 1 .. Len(text), NEW y \in Ends(text, i)
    PROVE  Max(Ends(text, i)) \in Ends(text, i) /\ y <= Max(Ends(text, i))
<1> DEFINE S == Ends(text, i)
           T == {Len(text) - x : x \in S}
<1>1. S \subseteq 0 .. Len(text)
  BY DEF Ends
<1> HIDE DEF S
<1>2. PICK n \in T : \A m \in T : ~(m < n)
  <2>1. T \in SUBSET Nat
    BY <1>1
  <2>2. Len(text) - y \in T
    BY DEF S
  <2> HIDE DEF T
  <2> QED
    BY <2>1, <2>2, LeastNumber
<1>3. PICK x \in S : n = Len(text) - x
  BY <1>2
<1>4. ASSUME NEW z \in S PROVE x >= z
  <2>1. ~(Len(text) - z < Len(text) - x)
    BY <1>2, <1>3
  <2> QED
    BY <1>1, <2>1
<1>5. Max(S) \in S /\ \A z \in S : Max(S) >= z
  BY <1>4 DEF Max
<1> QED
  BY <1>1, <1>5 DEF S

\* A part of the result without masks is a part of the text.
Unmasked(out, p, n) == \A d \in 0 .. n : out[p + d] # Open

Stays(text, spans, out, place, x, p, d) ==
    /\ x + d \in 1 .. Len(text) /\ ~Covered(spans, x + d)
    /\ place[x + d] = p + d /\ text[x + d] = out[p + d]

LEMMA LayoutRun ==
    ASSUME NEW text, Len(text) \in Nat, NEW spans, Proper(text, spans), NEW out, NEW place,
           Layout(text, spans, out, place),
           NEW x \in 1 .. Len(text), ~Covered(spans, x), NEW p \in Nat, place[x] = p,
           NEW n \in Nat, p + n <= Len(out), out[p] = text[x], Unmasked(out, p, n)
    PROVE  \A d \in 0 .. n : Stays(text, spans, out, place, x, p, d)
<1> USE DEF Stays
<1> DEFINE Good(d) == Stays(text, spans, out, place, x, p, d)
           Bad == {d \in 0 .. n : ~Good(d)}
<1>1. Len(out) \in Nat /\ place[Len(text)] = Len(out)
  BY DEF Layout
<1>2. ASSUME NEW d \in Bad, \A m \in Bad : ~(m < d) PROVE FALSE
  <2>1. CASE d = 0
    <3>1. x + 0 = x /\ p + 0 = p
      OBVIOUS
    <3> QED
      BY <1>2, <2>1, <3>1
  <2>2. CASE d # 0
    <3>1. d - 1 \in 0 .. n /\ d - 1 < d
      BY <1>2, <2>2
    <3>2. Good(d - 1)
      BY <1>2, <3>1
    <3> DEFINE i == x + (d - 1)
    <3>3. /\ i \in 1 .. Len(text) /\ ~Covered(spans, i) /\ place[i] = p + (d - 1)
          /\ i + 1 = x + d /\ (p + (d - 1)) + 1 = p + d /\ p + d <= Len(out)
      BY <1>1, <1>2, <3>2
    <3> HIDE DEF i
    <3>4. i < Len(text)
      <4>1. i # Len(text)
        BY <1>1, <1>2, <3>3
      <4> QED
        BY <3>3, <4>1
    <3>5. ~Covered(spans, i + 1)
      <4>1. SUFFICES ASSUME Covered(spans, i + 1) PROVE FALSE
        OBVIOUS
      <4>2. out[place[i] + 1] = Open
        BY <3>3, <3>4, <4>1, LayoutNext
      <4> QED
        BY <1>2, <3>3, <4>2 DEF Unmasked
    <3>6. place[i + 1] = place[i] + 1 /\ out[place[i] + 1] = text[i + 1]
      BY <3>3, <3>4, <3>5, LayoutNext
    <3>7. Good(d)
      BY <3>3, <3>4, <3>5, <3>6
    <3> QED
      BY <1>2, <3>7
  <2> QED
    BY <2>1, <2>2
<1>3. Bad = {}
  <2>1. Bad \in SUBSET Nat
    OBVIOUS
  <2> HIDE DEF Bad
  <2> QED
    BY <1>2, <2>1, LeastNumber
<1> QED
  BY <1>3

\* The symbols before one that stays.
LEMMA LayoutBefore ==
    ASSUME NEW text, Len(text) \in Nat, NEW spans, NEW out, NEW place,
           Layout(text, spans, out, place),
           NEW x \in 2 .. Len(text), NEW p \in Nat, place[x - 1] = p, ~Covered(spans, x - 1)
    PROVE  p >= 1 /\ p <= Len(out) /\ out[p] = text[x - 1] /\ place[x - 2] = p - 1
<1>1. x - 1 \in 1 .. Len(text) /\ (x - 1) - 1 = x - 2
  OBVIOUS
<1>2. Placed(text, spans, out, place, x - 1)
  BY <1>1 DEF Layout
<1> DEFINE a == place[(x - 1) - 1]
<1>3. a \in Nat /\ place[x - 1] = a + 1 /\ out[place[x - 1]] = text[x - 1]
      /\ place[x - 1] <= Len(out)
  BY <1>2 DEF Placed
<1>4. a = place[x - 2]
  BY <1>1
<1> HIDE DEF a
<1>5. a = p - 1 /\ p >= 1
  BY <1>3
<1> QED
  BY <1>3, <1>4, <1>5

LEMMA ApartNeighbours ==
    ASSUME NEW out \in Seq(Symbol), NEW p \in 1 .. Len(out), NEW q \in p .. Len(out),
           Apart(out, <<p, q>>)
    PROVE  /\ p > 1 => out[p - 1] \notin Digit
           /\ p > 2 /\ out[p - 1] = Space => out[p - 2] \notin Digit
           /\ q < Len(out) => out[q + 1] \notin Digit
           /\ q + 1 < Len(out) /\ out[q + 1] = Space => out[q + 2] \notin Digit
<1> DEFINE at(i) == IF i \in DOMAIN out THEN out[i] ELSE Letter
           joins(near, far) == near \in Digit \/ (near = Space /\ far \in Digit)
<1>1. <<p, q>>[1] = p /\ <<p, q>>[2] = q
  OBVIOUS
<1>2. ~joins(at(p - 1), at(p - 2)) /\ ~joins(at(q + 1), at(q + 2))
  BY <1>1 DEF Apart
<1>3. Len(out) \in Nat /\ DOMAIN out = 1 .. Len(out)
  OBVIOUS
<1>4. /\ p > 1 => p - 1 \in DOMAIN out
      /\ p > 2 => p - 2 \in DOMAIN out
      /\ q < Len(out) => q + 1 \in DOMAIN out
      /\ q + 1 < Len(out) => q + 2 \in DOMAIN out /\ q < Len(out)
  BY <1>3
<1>5. p > 2 => p > 1
  BY <1>3
<1> QED
  BY <1>2, <1>4, <1>5, Zenon

\* An interval of the result that is a card number apart from other digits was
\* one in the text, and was found.
LEMMA NoCardLeft ==
    ASSUME NEW text \in Seq(Symbol)
    PROVE  ~ShowsCard(redactCardNumbers(text))
<1> DEFINE spans == CardSpans(text)
           N == Len(text)
           out == MaskSpans(text, spans)
           M == Len(out)
<1>1. N \in Nat /\ Proper(text, spans)
  BY CardSpansCover
<1>2. PICK place : Layout(text, spans, out, place)
  BY <1>1, LayoutExists
<1>3. out \in Seq(Symbol) /\ M \in Nat /\ place[N] = M
  BY <1>2 DEF Layout
<1> HIDE DEF spans, out
<1>4. SUFFICES ASSUME NEW p \in 1 .. M, NEW q \in p .. M, Apart(out, <<p, q>>),
                      IsCard(SubSeq(out, p, q))
               PROVE  FALSE
  <2>1. redactCardNumbers(text) = out
    BY DEF redactCardNumbers, out, spans
  <2>2. SUFFICES ASSUME ShowsCard(out) PROVE FALSE
    BY <2>1
  <2>3. PICK s \in Intervals(out) : Apart(out, s) /\ IsCard(SubSeq(out, s[1], s[2]))
    BY <2>2 DEF ShowsCard
  <2>4. s = <<s[1], s[2]>> /\ s[1] \in 1 .. M /\ s[2] \in s[1] .. M
    BY <1>3, <2>3 DEF Intervals
  <2> QED
    BY <1>4, <2>3, <2>4
<1>5. /\ p > 1 => out[p - 1] \notin Digit
      /\ p > 2 /\ out[p - 1] = Space => out[p - 2] \notin Digit
      /\ q < M => out[q + 1] \notin Digit
      /\ q + 1 < M /\ out[q + 1] = Space => out[q + 2] \notin Digit
  BY <1>3, <1>4, ApartNeighbours
<1> DEFINE n == q - p
           card == SubSeq(out, p, q)
<1>6. n \in Nat /\ p + n = q /\ q - p + 1 = n + 1 /\ p \in Nat /\ q \in Nat
  BY <1>3
<1>7. card \in Seq(Symbol) /\ Len(card) = n + 1 /\ \A k \in 1 .. n + 1 : card[k] = out[p + k - 1]
  <2>1. \A i \in p .. q : out[i] \in Symbol
    BY <1>3
  <2>2. p \in Int /\ q \in Int /\ p <= q
    BY <1>3
  <2> QED
    BY <1>6, <2>1, <2>2, SubSeqProperties
<1>8. IsNumber(card) /\ passesLuhn(card) /\ card[1] \in Digit
      /\ (\A k \in 1 .. n + 1 : card[k] \in Digit \cup {Space}) /\ card[n + 1] \in Digit
  <2> HIDE DEF card
  <2>1. IsCard(card)
    BY <1>4 DEF card
  <2>2. Len(card) > 0 /\ DOMAIN card = 1 .. n + 1 /\ n + 1 \in 1 .. n + 1
    BY <1>6, <1>7
  <2>3. IsNumber(card) /\ passesLuhn(card)
    BY <1>7, <2>1, <2>2, CardIsNumber
  <2>4. /\ \A k \in 1 .. n + 1 : card[k] \in Digit \cup {Space}
        /\ Space \notin {card[1], card[n + 1]}
    BY <1>7, <2>1, <2>2 DEF IsCard
  <2> QED
    BY <2>2, <2>3, <2>4 DEF IsNumber
<1> HIDE DEF card, n
<1>9. /\ \A d \in 0 .. n : out[p + d] \in Digit \cup {Space}
      /\ out[p] \in Digit /\ out[q] \in Digit
  <2>1. \A d \in 0 .. n : d + 1 \in 1 .. n + 1 /\ p + (d + 1) - 1 = p + d
    BY <1>6
  <2>2. \A d \in 0 .. n : card[d + 1] = out[p + d]
    BY <1>7, <2>1
  <2>3. 0 \in 0 .. n /\ n \in 0 .. n /\ p + 0 = p /\ 0 + 1 = 1
    BY <1>6
  <2> QED
    BY <1>6, <1>8, <2>1, <2>2, <2>3
<1>10. Open \notin Digit \cup {Space} /\ Close \notin Digit
  BY DEF Open, Close, Digit, Space
<1>11. PICK x \in 1 .. N :
         ~Covered(spans, x) /\ place[x] = p /\ place[x - 1] = p - 1 /\ text[x] = out[p]
  <2>1. out[p] \notin {Open, Close}
    BY <1>9, <1>10
  <2> QED
    BY <1>1, <1>2, <2>1, LayoutStays
<1>12. \A d \in 0 .. n :
         /\ x + d \in 1 .. N /\ ~Covered(spans, x + d)
         /\ place[x + d] = p + d /\ text[x + d] = out[p + d]
  <2>1. Unmasked(out, p, n)
    BY <1>9, <1>10 DEF Unmasked
  <2>2. p + n <= M
    BY <1>6
  <2>3. ~Covered(spans, x) /\ place[x] = p /\ out[p] = text[x]
    BY <1>11
  <2>4. \A d \in 0 .. n : Stays(text, spans, out, place, x, p, d)
    BY <1>1, <1>2, <1>6, <2>1, <2>2, <2>3, LayoutRun
  <2> QED
    BY <2>4 DEF Stays
<1> DEFINE y == x + n
<1>13. /\ y \in x .. N /\ x \in Nat /\ y \in Nat /\ y - x + 1 = n + 1
       /\ ~Covered(spans, y) /\ place[y] = q /\ text[y] \in Digit /\ text[x] \in Digit
  <2>1. n \in 0 .. n /\ y - x + 1 = n + 1 /\ x \in Nat /\ y \in Nat /\ x <= y
    BY <1>1, <1>6
  <2>2. y \in 1 .. N /\ ~Covered(spans, y) /\ place[y] = p + n /\ text[y] = out[p + n]
    BY <1>12, <2>1
  <2> HIDE DEF y
  <2>3. y \in x .. N
    BY <1>1, <2>1, <2>2
  <2> QED
    BY <1>6, <1>9, <1>11, <2>1, <2>2, <2>3
<1>14. SubSeq(text, x, y) = card
  <2> DEFINE there == SubSeq(text, x, y)
  <2> HIDE DEF y
  <2>1. \A i \in x .. y : text[i] \in Symbol
    BY <1>1, <1>13
  <2>2. x \in Int /\ y \in Int /\ x <= y
    BY <1>1, <1>13
  <2>3. there \in Seq(Symbol) /\ Len(there) = n + 1
        /\ \A k \in 1 .. n + 1 : there[k] = text[x + k - 1]
    BY <1>13, <2>1, <2>2, SubSeqProperties
  <2> HIDE DEF there
  <2>4. ASSUME NEW k \in 1 .. n + 1 PROVE there[k] = card[k]
    <3>1. k - 1 \in 0 .. n /\ x + (k - 1) = x + k - 1 /\ p + (k - 1) = p + k - 1
      BY <1>6, <1>13
    <3>2. text[x + (k - 1)] = out[p + (k - 1)]
      BY <1>12, <3>1
    <3> QED
      BY <1>7, <2>3, <3>1, <3>2
  <2>5. there = card
    BY <1>7, <2>3, <2>4, SeqEqual
  <2> QED
    BY <2>5 DEF there
<1> HIDE DEF y
<1>15. \A m \in Matches(text) : IsMatch(text, m)
  BY <1>1, MatchesOrderly DEF Orderly
<1>16. x > 1 => ~Covered(spans, x - 1) /\ p > 1 /\ out[p - 1] = text[x - 1] /\ text[x - 1] \notin Digit
  <2>1. SUFFICES ASSUME x > 1
                 PROVE  ~Covered(spans, x - 1) /\ p > 1 /\ out[p - 1] = text[x - 1]
                        /\ text[x - 1] \notin Digit
    OBVIOUS
  <2>2. ~Covered(spans, x - 1)
    <3>1. SUFFICES ASSUME NEW c \in spans, x - 1 \in c[1] .. c[2] PROVE FALSE
      BY DEF Covered
    <3>2. x \notin c[1] .. c[2] /\ c[1] \in Int /\ c[2] \in Int
      BY <1>1, <1>11 DEF Covered, Proper
    <3>3. c[2] = x - 1
      BY <1>13, <3>1, <3>2
    <3>4. c[2] = N \/ text[c[2] + 1] \notin Digit
      BY DEF spans, CardSpans
    <3>5. c[2] # N /\ c[2] + 1 = x
      BY <1>1, <1>13, <3>3
    <3> QED
      BY <1>13, <3>4, <3>5
  <2>3. x \in 2 .. N /\ p - 1 \in Nat
    BY <1>1, <1>6, <1>13, <2>1
  <2>4. p - 1 >= 1 /\ out[p - 1] = text[x - 1]
    BY <1>1, <1>2, <1>11, <2>2, <2>3, LayoutBefore
  <2>5. p > 1
    BY <1>6, <2>4
  <2> QED
    BY <1>5, <2>2, <2>4, <2>5
<1>17. y < N => ~Covered(spans, y + 1) /\ q < M /\ out[q + 1] = text[y + 1] /\ text[y + 1] \notin Digit
                /\ place[y + 1] = q + 1
  <2>1. SUFFICES ASSUME y < N
                 PROVE  ~Covered(spans, y + 1) /\ q < M /\ out[q + 1] = text[y + 1]
                        /\ text[y + 1] \notin Digit /\ place[y + 1] = q + 1
    OBVIOUS
  <2>2. ~Covered(spans, y + 1)
    <3>1. SUFFICES ASSUME NEW c \in spans, y + 1 \in c[1] .. c[2] PROVE FALSE
      BY DEF Covered
    <3>2. y \notin c[1] .. c[2] /\ c[1] \in Int /\ c[2] \in Int
      BY <1>1, <1>13 DEF Covered, Proper
    <3>3. c[1] = y + 1
      BY <1>13, <3>1, <3>2
    <3>4. c[1] = 1 \/ text[c[1] - 1] \notin Digit
      BY DEF spans, CardSpans
    <3>5. c[1] # 1 /\ c[1] - 1 = y
      BY <1>11, <1>13, <3>3
    <3> QED
      BY <1>13, <3>4, <3>5
  <2>3. y \in 1 .. N
    BY <1>13
  <2>4. q + 1 <= M /\ place[y + 1] = q + 1 /\ out[q + 1] = text[y + 1]
    BY <1>1, <1>2, <1>13, <2>1, <2>2, <2>3, LayoutNext
  <2>5. q < M
    BY <1>3, <1>6, <2>4
  <2> QED
    BY <1>5, <2>2, <2>4, <2>5
<1>18. ASSUME NEW m \in Matches(text), Crosses(m, x) PROVE FALSE
  <2>1. /\ m[1] \in 1 .. N /\ m[2] \in m[1] .. N
        /\ text[m[1]] \in Digit
        /\ \A i \in m[1] .. m[2] :
             text[i] \in Digit \/ (text[i] = Space /\ i < m[2] /\ text[i + 1] \in Digit)
    BY <1>15, MatchSymbols
  <2>2. m[1] < x /\ x <= m[2]
    BY <1>18 DEF Crosses
  <2>3. m \notin spans
    <3>1. x \in m[1] .. m[2]
      BY <2>1, <2>2
    <3> QED
      BY <1>11, <3>1 DEF Covered
  <2>4. x > 1 /\ x - 1 \in m[1] .. m[2]
    BY <2>1, <2>2
  <2>5. text[x - 1] = Space
    BY <1>16, <2>1, <2>4
  <2>6. Space \notin Digit
    BY DEF Space, Digit
  <2>7. x - 1 # m[1]
    BY <2>1, <2>5, <2>6
  <2>8. x - 2 \in m[1] .. m[2] /\ (x - 2) + 1 = x - 1 /\ x - 1 \in 2 .. N /\ (x - 1) - 1 = x - 2
    BY <2>1, <2>2, <2>4, <2>7
  <2>9. text[x - 2] \in Digit
    BY <2>1, <2>5, <2>6, <2>8
  <2>10. ~Covered(spans, x - 2)
    BY <1>18, <2>3, <2>8, MatchStays DEF spans
  <2>11. place[x - 2] = (p - 1) - 1 /\ p - 1 \in Nat
    <3>1. x \in 2 .. N /\ p - 1 \in Nat
      BY <1>6, <1>16, <2>4
    <3> QED
      BY <1>1, <1>2, <1>11, <1>16, <2>4, <3>1, LayoutBefore
  <2>12. (p - 1) - 1 = p - 2 /\ p - 2 \in Nat
    BY <1>6, <1>16, <2>4
  <2>13. p - 2 >= 1 /\ out[p - 2] = text[x - 2]
    <3> DEFINE z == x - 1
               r == p - 2
    <3>1. place[z - 1] = r /\ ~Covered(spans, z - 1) /\ z \in 2 .. N /\ r \in Nat
      BY <2>8, <2>10, <2>11, <2>12
    <3> HIDE DEF z, r
    <3>2. r >= 1 /\ out[r] = text[z - 1]
      BY <1>1, <1>2, <3>1, LayoutBefore
    <3> QED
      BY <2>8, <3>2 DEF z, r
  <2>14. p > 2
    BY <1>6, <2>13
  <2> QED
    BY <1>5, <1>16, <2>4, <2>5, <2>9, <2>13, <2>14
<1> DEFINE e == Max(Ends(text, x))
           m == <<x, e>>
<1>19. y \in Ends(text, x)
  BY <1>8, <1>13, <1>14 DEF Ends
<1>20. m \in Matches(text) /\ e \in Ends(text, x) /\ y <= e
  <2>1. x \in 1 .. N /\ Ends(text, x) # {}
    BY <1>19
  <2>2. m \in Matches(text)
    BY <1>1, <1>18, <2>1, MatchesOrderly DEF Orderly
  <2> QED
    BY <1>1, <1>19, <2>2, EndsBound
<1> HIDE DEF e
<1>21. m[1] = x /\ m[2] = e
  OBVIOUS
<1> HIDE DEF m
<1>22. e \in x .. N /\ e \in Nat /\ x \in m[1] .. m[2]
  BY <1>1, <1>13, <1>20, <1>21 DEF Ends
<1>23. m \notin spans
  BY <1>11, <1>22 DEF Covered
<1>24. e = y
  <2>1. SUFFICES ASSUME y < e PROVE FALSE
    BY <1>13, <1>20, <1>22
  <2>2. y + 1 \in m[1] .. m[2] /\ y < N
    BY <1>1, <1>13, <1>21, <1>22, <2>1
  <2>3. text[y + 1] \in Digit \/ (text[y + 1] = Space /\ y + 1 < m[2] /\ text[(y + 1) + 1] \in Digit)
    BY <1>15, <1>20, <2>2, MatchSymbols
  <2>4. text[y + 1] = Space /\ y + 1 < e /\ text[(y + 1) + 1] \in Digit
    BY <1>17, <1>21, <2>2, <2>3
  <2>5. (y + 1) + 1 \in m[1] .. m[2] /\ y + 1 \in 1 .. N /\ y + 1 < N
    BY <1>1, <1>13, <1>21, <1>22, <2>4
  <2>6. ~Covered(spans, (y + 1) + 1)
    BY <1>20, <1>23, <2>5, MatchStays DEF spans
  <2>7. (q + 1) + 1 <= M /\ out[(q + 1) + 1] = text[(y + 1) + 1]
    BY <1>1, <1>2, <1>17, <2>2, <2>5, <2>6, LayoutNext
  <2>8. (q + 1) + 1 = q + 2 /\ q + 1 < M
    BY <1>3, <1>6, <2>7
  <2> QED
    BY <1>5, <1>17, <2>2, <2>4, <2>7, <2>8
<1>25. m \in spans
  <2>1. passesLuhn(SubSeq(text, m[1], m[2]))
    BY <1>8, <1>14, <1>21, <1>24
  <2>2. m[1] = 1 \/ text[m[1] - 1] \notin Digit
    <3>1. x = 1 \/ x > 1
      BY <1>13
    <3> QED
      BY <1>16, <1>21, <3>1
  <2>3. m[2] = N \/ text[m[2] + 1] \notin Digit
    <3>1. y = N \/ y < N
      BY <1>1, <1>13
    <3> QED
      BY <1>17, <1>21, <1>24, <3>1
  <2> QED
    BY <1>20, <2>1, <2>2, <2>3, Zenon DEF spans, CardSpans
<1> QED
  BY <1>23, <1>25

-----------------------------------------------------------------------------
\* Whatever the text, what redactMessage leaves shows nothing sensitive.
LEMMA RedactedShowsNothing ==
    ASSUME NEW text \in Seq(Symbol)
    PROVE  ~ShowsCard(redactMessage(text)) /\ ~ShowsSecret(redactMessage(text))
<1> DEFINE secrets == MaskSpans(text, SecretSpans(text))
           tokens  == MaskSpans(secrets, TokenSpans(secrets))
           cards   == MaskSpans(tokens, CardSpans(tokens))
<1>1. secrets \in Seq(Symbol) /\ Guarded(secrets)
  BY SecretsGuarded
<1> HIDE DEF secrets
<1>2. Mail \notin {Key, Comma, Open, Close}
  BY DEF Mail, Key, Comma, Open, Close
<1>3. tokens \in Seq(Symbol) /\ Guarded(tokens)
  BY <1>1, <1>2, TokenSpansCover, MaskKeepsGuard
<1>4. NoToken(tokens)
  BY <1>1, TokenSpansCover, MaskNoToken
<1> HIDE DEF tokens
<1>5. ~ShowsCard(cards)
  BY <1>3, NoCardLeft DEF redactCardNumbers
<1>6. \A symbol \in Digit \cup {Space} : symbol \notin {Key, Comma, Open, Close}
  BY DEF Digit, Space, Key, Comma, Open, Close
<1>7. cards \in Seq(Symbol) /\ Guarded(cards)
  BY <1>3, <1>6, CardSpansCover, MaskKeepsGuard
<1>8. NoToken(cards)
  BY <1>3, <1>4, CardSpansCover, MaskNoToken DEF NoToken
<1> HIDE DEF cards
<1>9. redactMessage(text) = cards
  BY DEF redactMessage, redactCardNumbers, cards, tokens, secrets
<1> QED
  BY <1>5, <1>7, <1>8, <1>9, ShowsNoSecret

-----------------------------------------------------------------------------
(***************************************************************************)
(* A record with a timestamp, and a message and attributes of whole runes. *)
(***************************************************************************)
Entries == {"timestamp", "service", "host", "env", "level", "message", "attributes",
            "redacted", "ingested_at", "retention_days"}

Sound(log) ==
    /\ Entries \subseteq DOMAIN log
    /\ log.timestamp \in Int /\ log.ingested_at \in Int
    /\ log.message \in Utf8
    /\ Texts(log.attributes)

LEMMA NoLogSound == Sound(NoLog)
<1>1. DOMAIN <<>> = {}
  OBVIOUS
<1>2. Texts(<<>>)
  BY <1>1 DEF Texts
<1> QED
  BY <1>2, EmptyText DEF Sound, Entries, NoLog, ZeroTime

LEMMA OverwrittenTexts ==
    ASSUME NEW attributes, Texts(attributes), NEW extra, Texts(extra)
    PROVE  Texts(Overwritten(attributes, extra))
BY DEF Texts, Overwritten

LEMMA DigitsAreText ==
    ASSUME NEW digits \in Seq(Digit)
    PROVE  digits \in Utf8
<1>1. Len(digits) \in Nat /\ DOMAIN digits = 1 .. Len(digits)
  OBVIOUS
<1>2. \A i \in 1 .. Len(digits) : digits[i] \in Digit
  OBVIOUS
<1>3. Digit \subseteq Symbol /\ Lead \notin Digit /\ Cont \notin Digit
  BY DEF Digit, Symbol, Lead, Cont
<1>4. digits \in Seq(Symbol)
  BY <1>3
<1> QED
  BY <1>1, <1>2, <1>3, <1>4 DEF Utf8, WholeRunes

\* The notation of a number consists of digits.
Notation(f, n) ==
    f = [i \in 0 .. n |-> IF i < 10 THEN <<i>> ELSE Append(f[i \div 10], i % 10)]

LEMMA Tenth ==
    ASSUME NEW n \in Nat, n >= 10
    PROVE  n \div 10 \in 0 .. n - 1 /\ n % 10 \in 0 .. 9
OBVIOUS

LEMMA NotationExists ==
    ASSUME NEW N \in Nat
    PROVE  \E f : Notation(f, N)
<1> DEFINE Bad == {n \in Nat : ~\E f : Notation(f, n)}
<1>1. ASSUME NEW n \in Bad, \A m \in Bad : ~(m < n) PROVE FALSE
  <2>1. CASE n = 0
    <3> DEFINE f == [i \in 0 .. 0 |-> <<0>>]
    <3>1. Notation(f, 0)
      BY DEF Notation
    <3> QED
      BY <1>1, <2>1, <3>1
  <2>2. CASE n # 0
    <3>1. n \in Nat /\ n - 1 \in Nat /\ n - 1 < n
      BY <1>1, <2>2
    <3>2. PICK f : Notation(f, n - 1)
      BY <1>1, <3>1
    <3> DEFINE next == IF n < 10 THEN <<n>> ELSE Append(f[n \div 10], n % 10)
               g == [i \in 0 .. n |-> IF i < n THEN f[i] ELSE next]
    <3>3. \A i \in 0 .. n - 1 : f[i] = IF i < 10 THEN <<i>> ELSE Append(f[i \div 10], i % 10)
      BY <3>1, <3>2 DEF Notation
    <3>4. ASSUME NEW i \in 0 .. n
          PROVE  g[i] = IF i < 10 THEN <<i>> ELSE Append(g[i \div 10], i % 10)
      <4> HIDE DEF next
      <4>1. ~(i < 10) => g[i \div 10] = f[i \div 10]
        <5>1. SUFFICES ASSUME ~(i < 10) PROVE g[i \div 10] = f[i \div 10]
          OBVIOUS
        <5>2. i \in Nat /\ i >= 10 /\ i <= n
          BY <3>1, <5>1
        <5>3. i \div 10 \in 0 .. i - 1
          BY <5>2, Tenth
        <5>4. i \div 10 \in 0 .. n /\ i \div 10 < n
          BY <3>1, <5>2, <5>3
        <5> QED
          BY <5>4
      <4>2. CASE i = n
        <5>1. g[i] = next
          BY <3>1, <4>2
        <5> HIDE DEF g
        <5> QED
          BY <4>1, <4>2, <5>1 DEF next
      <4>3. CASE i < n
        <5>1. g[i] = f[i] /\ i \in 0 .. n - 1
          BY <3>1, <4>3
        <5> HIDE DEF g
        <5> QED
          BY <3>3, <4>1, <5>1
      <4> QED
        BY <3>1, <4>2, <4>3
    <3>5. Notation(g, n)
      BY <3>4 DEF Notation
    <3> HIDE DEF g
    <3> QED
      BY <1>1, <3>5
  <2> QED
    BY <2>1, <2>2
<1>2. Bad = {}
  <2>1. Bad \in SUBSET Nat
    OBVIOUS
  <2> HIDE DEF Bad
  <2> QED
    BY <1>1, <2>1, LeastNumber
<1> QED
  BY <1>2

LEMMA DecimalText ==
    ASSUME NEW number \in Nat
    PROVE  Decimal(number) \in Seq(Digit) /\ Decimal(number) \in Utf8
<1> DEFINE f == CHOOSE f : Notation(f, number)
<1>1. Notation(f, number)
  BY NotationExists
<1>2. Decimal(number) = f[number]
  BY Zenon DEF Decimal, Notation
<1> HIDE DEF f
<1> DEFINE Bad == {i \in 0 .. number : f[i] \notin Seq(Digit)}
<1>3. ASSUME NEW i \in Bad, \A m \in Bad : ~(m < i) PROVE FALSE
  <2>1. i \in 0 .. number /\ f[i] = IF i < 10 THEN <<i>> ELSE Append(f[i \div 10], i % 10)
    BY <1>1 DEF Notation
  <2>2. CASE i < 10
    <3>1. i \in Digit
      BY <2>1, <2>2 DEF Digit
    <3>2. <<i>> \in Seq(Digit)
      BY <3>1
    <3> QED
      BY <1>3, <2>1, <2>2, <3>2
  <2>3. CASE ~(i < 10)
    <3>1. i \div 10 \in 0 .. i - 1 /\ i % 10 \in Digit
      BY <2>1, <2>3, Tenth DEF Digit
    <3>2. i \div 10 \in 0 .. number /\ i \div 10 < i
      BY <2>1, <3>1
    <3>3. f[i \div 10] \in Seq(Digit)
      BY <1>3, <3>2
    <3>4. Append(f[i \div 10], i % 10) \in Seq(Digit)
      BY <3>1, <3>3
    <3> QED
      BY <1>3, <2>1, <2>3, <3>4
  <2> QED
    BY <2>2, <2>3
<1>4. Bad = {}
  <2>1. Bad \in SUBSET Nat
    OBVIOUS
  <2> HIDE DEF Bad
  <2> QED
    BY <1>3, <2>1, LeastNumber
<1> QED
  BY <1>2, <1>4, DigitsAreText

LEMMA FlagTexts ==
    ASSUME NEW log, log.timestamp \in Int, NEW now \in Int
    PROVE  Texts(TimestampFlags(log, now))
<1>1. True \in Utf8
  BY DEF True, Letter, Utf8, Symbol, WholeRunes, Lead, Cont
<1>2. DOMAIN <<>> = {}
  OBVIOUS
<1>3. CASE log.timestamp = ZeroTime
  BY <1>1, <1>3 DEF TimestampFlags, Texts
<1>4. CASE log.timestamp # ZeroTime /\ Corrected(log, now)
  <2> DEFINE a == log.timestamp - now
             skew == Min({a, MaxDuration})
  <2>1. MaxSkew \in Nat /\ MaxDuration \in Nat /\ Millisecond \in Nat \ {0}
    BY SchemaAssumption
  <2>2. a \in Nat
    BY <1>4, <2>1 DEF Corrected
  <2> HIDE DEF a
  <2>3. skew \in Nat
    <3>1. a <= MaxDuration \/ MaxDuration <= a
      BY <2>1, <2>2
    <3>2. skew \in {a, MaxDuration}
      BY <2>1, <2>2, <3>1 DEF Min
    <3> QED
      BY <2>1, <2>2, <3>2
  <2> HIDE DEF skew
  <2>4. skew \div Millisecond \in Nat
    BY <2>1, <2>3
  <2>5. Decimal(skew \div Millisecond) \in Utf8
    BY <2>4, DecimalText
  <2>6. TimestampFlags(log, now) =
          [key \in {TimestampCorrected, TimestampSkewMillis} |->
              IF key = TimestampCorrected THEN True ELSE Decimal(skew \div Millisecond)]
    BY <1>4 DEF TimestampFlags, skew, a
  <2> QED
    BY <1>1, <2>5, <2>6 DEF Texts
<1>5. CASE log.timestamp # ZeroTime /\ ~Corrected(log, now)
  BY <1>2, <1>5 DEF TimestampFlags, Texts
<1> QED
  BY <1>3, <1>4, <1>5

\* The entries of a normalised and of a redacted record.
LEMMA NormalizeEntries ==
    ASSUME NEW log, Sound(log), NEW now
    PROVE  LET n == NormalizeFieldsAt(log, now)
           IN  /\ DOMAIN n = DOMAIN log
               /\ n.timestamp = IF log.timestamp = ZeroTime \/ Corrected(log, now)
                                THEN Truncate(now) ELSE Truncate(log.timestamp)
               /\ n.ingested_at = IF log.ingested_at = ZeroTime
                                  THEN Truncate(now) ELSE Truncate(log.ingested_at)
               /\ n.message = truncateMessage(log.message)
               /\ n.attributes = Overwritten(log.attributes, TimestampFlags(log, now))
               /\ n.level = NormalizeLevel(log.level)
               /\ n.redacted = log.redacted
               /\ n.service = log.service /\ n.host = log.host /\ n.env = log.env
               /\ n.retention_days = log.retention_days
BY DEF NormalizeFieldsAt, Sound, Entries

LEMMA RedactEntries ==
    ASSUME NEW log, Sound(log)
    PROVE  LET r == Redact(log)
           IN  /\ DOMAIN r = DOMAIN log
               /\ r.timestamp = log.timestamp /\ r.ingested_at = log.ingested_at
               /\ r.message = redactMessage(log.message)
               /\ r.attributes = [key \in DOMAIN log.attributes |->
                                     RedactAttribute(key, log.attributes[key])]
               /\ r.level = log.level
               /\ ~r.redacted => r.message = log.message /\ r.attributes = log.attributes
               /\ ~r.redacted => ~log.redacted
               /\ r.service = log.service /\ r.host = log.host /\ r.env = log.env
               /\ r.retention_days = log.retention_days
BY DEF Redact, Sound, Entries

\* Normalisation leaves a timestamp that its clock tolerates.
LEMMA NormalizeSound ==
    ASSUME NEW log, Sound(log), NEW now \in Int
    PROVE  /\ Sound(NormalizeFieldsAt(log, now))
           /\ NormalizeFieldsAt(log, now).timestamp <= Truncate(now) + MaxSkew
<1> DEFINE r == NormalizeFieldsAt(log, now)
<1>1. /\ DOMAIN r = DOMAIN log
      /\ r.timestamp = IF log.timestamp = ZeroTime \/ Corrected(log, now)
                       THEN Truncate(now) ELSE Truncate(log.timestamp)
      /\ r.ingested_at = IF log.ingested_at = ZeroTime
                         THEN Truncate(now) ELSE Truncate(log.ingested_at)
      /\ r.message = truncateMessage(log.message)
      /\ r.attributes = Overwritten(log.attributes, TimestampFlags(log, now))
  BY NormalizeEntries
<1>2. /\ MaxSkew \in Nat /\ now + MaxSkew \in Int
      /\ log.timestamp \in Int /\ log.ingested_at \in Int
  BY SchemaAssumption DEF Sound
<1>3. /\ Truncate(now) \in Int /\ Truncate(log.timestamp) \in Int
      /\ r.ingested_at \in Int
      /\ r.message \in Utf8
  BY <1>1, <1>2, TruncateQuotient, TruncateText DEF Sound
<1>a. Texts(r.attributes)
  BY <1>1, <1>2, FlagTexts, OverwrittenTexts DEF Sound, Entries
<1> HIDE DEF r
<1>b. SUFFICES Sound(r) /\ r.timestamp <= Truncate(now) + MaxSkew
  BY DEF r
<1>4. CASE log.timestamp = ZeroTime \/ Corrected(log, now)
  BY <1>1, <1>2, <1>3, <1>4, <1>a DEF Sound, Entries
<1>5. CASE log.timestamp # ZeroTime /\ log.timestamp <= now + MaxSkew
  <2>1. Truncate(log.timestamp) <= Truncate(now) + MaxSkew
    BY <1>2, <1>5, TruncateMonotone, TruncateTolerance
  <2>2. r.timestamp = Truncate(log.timestamp)
    BY <1>1, <1>2, <1>5 DEF Corrected
  <2> QED
    BY <1>1, <1>3, <1>a, <2>1, <2>2 DEF Sound, Entries
<1> QED
  BY <1>2, <1>4, <1>5 DEF Corrected

LEMMA MaskIsText == Mask \in Utf8
<1>1. Mask \in Seq(Symbol) /\ DOMAIN Mask = 1 .. 2 /\ Mask[1] = Open /\ Mask[2] = Close
  BY DEF Mask, Symbol, Open, Close
<1>2. Open \notin {Lead, Cont} /\ Close \notin {Lead, Cont}
  BY DEF Open, Close, Lead, Cont
<1> QED
  BY <1>1, <1>2 DEF Utf8, WholeRunes

LEMMA RedactSound ==
    ASSUME NEW log, Sound(log)
    PROVE  Sound(Redact(log)) /\ Redact(log).timestamp = log.timestamp
<1>1. /\ DOMAIN Redact(log) = DOMAIN log
      /\ Redact(log).timestamp = log.timestamp
      /\ Redact(log).ingested_at = log.ingested_at
      /\ Redact(log).message = redactMessage(log.message)
      /\ Redact(log).attributes = [key \in DOMAIN log.attributes |->
                                      RedactAttribute(key, log.attributes[key])]
  BY RedactEntries
<1>2. ASSUME NEW key, NEW value \in Utf8 PROVE RedactAttribute(key, value) \in Utf8
  BY RedactText, MaskIsText DEF RedactAttribute
<1>3. Texts(Redact(log).attributes)
  BY <1>1, <1>2 DEF Texts, Sound, Entries
<1> QED
  BY <1>1, <1>3, RedactText DEF Sound, Entries

LEMMA MaskHasNoCard ==
    ASSUME NEW s \in Intervals(Mask)
    PROVE  ~IsCard(SubSeq(Mask, s[1], s[2]))
<1>1. Mask \in Seq(Symbol) /\ Len(Mask) = 2 /\ Mask[1] = Open /\ Mask[2] = Close
  BY DEF Mask, Symbol, Open, Close
<1>2. {Open, Close} \cap (Digit \cup {Space}) = {}
  BY DEF Open, Close, Digit, Space
<1>3. s[1] \in 1 .. 2 /\ s[2] \in 1 .. 2 /\ s[1] <= s[2]
  BY <1>1 DEF Intervals
<1> DEFINE q == SubSeq(Mask, s[1], s[2])
<1>4. 1 \in DOMAIN q /\ q[1] = Mask[s[1]]
  BY <1>1, <1>3
<1> HIDE DEF q
<1>5. q[1] \notin Digit \cup {Space}
  <2>1. s[1] = 1 \/ s[1] = 2
    BY <1>3
  <2>2. q[1] = Open \/ q[1] = Close
    BY <1>1, <1>4, <2>1, Zenon
  <2> QED
    BY <1>2, <2>2
<1>6. ~IsCard(q)
  BY <1>4, <1>5 DEF IsCard
<1> QED
  BY <1>6 DEF q

\* Neither an absent value nor the mask itself shows anything.
LEMMA MaskShowsNothing ==
    /\ ~ShowsCard(<<>>) /\ ~ShowsSecret(<<>>)
    /\ ~ShowsCard(Mask) /\ ~ShowsSecret(Mask)
<1>1. <<>> \in Seq(Symbol) /\ Len(<<>>) = 0
  OBVIOUS
<1>2. Mask \in Seq(Symbol) /\ Len(Mask) = 2 /\ Mask[1] = Open /\ Mask[2] = Close
  BY DEF Mask, Symbol, Open, Close
<1>3. {Open, Close} \cap (Digit \cup {Space, Key, Mail}) = {}
  BY DEF Open, Close, Digit, Space, Key, Mail
<1>4. Guarded(<<>>) /\ NoToken(<<>>)
  BY <1>1 DEF Guarded, NoToken
<1>5. Guarded(Mask) /\ NoToken(Mask)
  BY <1>2, <1>3 DEF Guarded, NoToken
<1>6. Intervals(<<>>) = {}
  BY <1>1 DEF Intervals
<1> QED
  BY <1>1, <1>2, <1>4, <1>5, <1>6, MaskHasNoCard, ShowsNoSecret DEF ShowsCard

\* Nothing sensitive is left in a text, or in a record, whose sensitive
\* attributes are the ones that redaction knows by their keys.
Bare(text) == ~ShowsCard(text) /\ ~ShowsSecret(text)

Discreet(log) ==
    /\ Bare(log.message)
    /\ \A key \in DOMAIN log.attributes :
           /\ Bare(log.attributes[key])
           /\ sensitiveAttributeKey(key) => log.attributes[key] \in {<<>>, Mask}

LEMMA RedactDiscreet ==
    ASSUME NEW log, Sound(log)
    PROVE  Discreet(Redact(log))
<1>1. /\ Redact(log).message = redactMessage(log.message)
      /\ Redact(log).attributes = [key \in DOMAIN log.attributes |->
                                      RedactAttribute(key, log.attributes[key])]
  BY DEF Redact, Sound, Entries
<1>2. \A text \in Utf8 : Bare(redactMessage(text))
  BY RedactedShowsNothing DEF Utf8, Bare
<1>3. Bare(<<>>) /\ Bare(Mask)
  BY MaskShowsNothing DEF Bare
<1>4. ASSUME NEW key, NEW value \in Utf8
      PROVE  /\ Bare(RedactAttribute(key, value))
             /\ sensitiveAttributeKey(key) => RedactAttribute(key, value) \in {<<>>, Mask}
  BY <1>2, <1>3 DEF RedactAttribute
<1>5. log.message \in Utf8 /\ \A key \in DOMAIN log.attributes : log.attributes[key] \in Utf8
  BY DEF Sound, Entries, Texts
<1> QED
  BY <1>1, <1>2, <1>4, <1>5 DEF Discreet

LEMMA IdentifiedSound ==
    ASSUME NEW log, Sound(log)
    PROVE  Sound(Identified(log))
BY DEF Identified, Sound, Entries

-----------------------------------------------------------------------------
(***************************************************************************)
(* The parsers give every record both, if only the zero time.              *)
(***************************************************************************)
LEMMA TimeStringType ==
    ASSUME NEW time \in Moment, NEW zone \in Int
    PROVE  /\ parseTimestampString(time, zone) \in SUBSET Int
           /\ \A s, t \in parseTimestampString(time, zone) : s = t
BY DEF parseTimestampString, Moment

LEMMA JSONTimeType ==
    ASSUME NEW time \in Moment, NEW zone \in Int
    PROVE  /\ parseJSONTimestamp(time, zone) \in SUBSET Int
           /\ \A s, t \in parseJSONTimestamp(time, zone) : s = t
<1>1. parseEpoch(time.n) \in Int
  <2>1. time.n \in Int /\ UnixEpoch \in Int /\ Millisecond \in Int /\ Second \in Int
    BY SchemaAssumption, ParserAssumption DEF Moment
  <2>2. time.n * Millisecond \in Int /\ time.n * Second \in Int
    BY <2>1
  <2>3. ASSUME NEW n \in Int PROVE Nearest(n) \in Int
    BY ParserAssumption DEF Nearest
  <2>4. Nearest(time.n * Millisecond) \in Int
    BY <2>2, <2>3
  <2> QED
    BY <2>1, <2>2, <2>4 DEF parseEpoch
<1> QED
  BY <1>1, TimeStringType DEF parseJSONTimestamp

LEMMA MaxOfOne ==
    ASSUME NEW S \in SUBSET Int, S # {}, \A s, t \in S : s = t
    PROVE  Max(S) \in Int
<1>1. PICK x \in S : TRUE
  OBVIOUS
<1>2. x \in Int /\ \A y \in S : x >= y
  <2>1. ASSUME NEW y \in S PROVE y = x
    OBVIOUS
  <2> QED
    BY <1>1, <2>1
<1>3. Max(S) \in S
  BY <1>2 DEF Max
<1> QED
  BY <1>3

\* One field of a JSON line.
LEMMA SetFieldSound ==
    ASSUME NEW log, Sound(log), NEW field, WellFormedField(field), NEW zone \in Int
    PROVE  Sound(SetField(log, field, zone))
<1> DEFINE times == parseJSONTimestamp(field.time, zone)
<1>1. times # {} => Max(times) \in Int
  BY JSONTimeType, MaxOfOne DEF WellFormedField
<1>2. ASSUME NEW x, NEW name, name \notin {"timestamp", "message", "attributes", "ingested_at"}
      PROVE  Sound([log EXCEPT ![name] = x])
  BY <1>2 DEF Sound, Entries
<1>3. times # {} => /\ Sound([log EXCEPT !.timestamp = Max(times)])
                    /\ Sound([log EXCEPT !.ingested_at = Max(times)])
  BY <1>1 DEF Sound, Entries
<1>4. normalizeFieldName(field.name) \in MessageKeys =>
        Sound([log EXCEPT !.message = field.raw])
  <2>1. normalizeFieldName(field.name) \in MessageKeys =>
          normalizeFieldName(field.name) \notin NameKeys
    BY DEF MessageKeys, NameKeys, LevelKeys, ServiceKeys, HostKeys, EnvKeys
  <2> QED
    BY <2>1 DEF Sound, Entries, WellFormedField
<1>5. ASSUME NEW extra, Texts(extra)
      PROVE  Sound([log EXCEPT !.attributes = Overwritten(@, extra)])
  BY <1>5, OverwrittenTexts DEF Sound, Entries
<1>6. normalizeFieldName(field.name) \notin NameKeys =>
        Sound([log EXCEPT !.attributes = Overwritten(@, [name \in {field.name} |-> field.raw])])
  BY <1>5 DEF WellFormedField, Texts
<1>7. normalizeFieldName(field.name) = <<"attributes">> =>
        Sound([log EXCEPT !.attributes = Overwritten(@, field.map)])
  BY <1>5 DEF WellFormedField
<1>8. normalizeFieldName(field.name) \in TimestampKeys =>
        normalizeFieldName(field.name) \notin NameKeys
  BY DEF TimestampKeys, NameKeys, LevelKeys, ServiceKeys, HostKeys, EnvKeys
<1> HIDE DEF times
<1> QED
  BY <1>2, <1>3, <1>4, <1>6, <1>7, <1>8 DEF SetField, times, NameKeys

\* The loop over the fields: what it has set up to each field is well defined
\* and sound.
Turn(line, zone, after, i) ==
    IF i = 0 THEN NoLog ELSE SetField(after[i - 1], line.fields[i], zone)

Loop(line, zone, after, n) == after = [i \in 0 .. n |-> Turn(line, zone, after, i)]

LEMMA LoopExists ==
    ASSUME NEW line, NEW zone, NEW N \in Nat
    PROVE  \E after : Loop(line, zone, after, N)
<1> DEFINE Bad == {n \in Nat : ~\E f : Loop(line, zone, f, n)}
<1>1. ASSUME NEW n \in Bad, \A m \in Bad : ~(m < n) PROVE FALSE
  <2>1. CASE n = 0
    <3> DEFINE f == [i \in 0 .. 0 |-> NoLog]
    <3>1. Loop(line, zone, f, 0)
      BY DEF Loop, Turn
    <3> QED
      BY <1>1, <2>1, <3>1
  <2>2. CASE n # 0
    <3>1. n \in Nat /\ n - 1 \in Nat /\ n - 1 < n
      BY <1>1, <2>2
    <3>2. PICK f : Loop(line, zone, f, n - 1)
      BY <1>1, <3>1
    <3> DEFINE next == SetField(f[n - 1], line.fields[n], zone)
               g == [i \in 0 .. n |-> IF i < n THEN f[i] ELSE next]
    <3>3. \A i \in 0 .. n - 1 : f[i] = Turn(line, zone, f, i)
      BY <3>1, <3>2 DEF Loop
    <3>4. ASSUME NEW i \in 0 .. n PROVE g[i] = Turn(line, zone, g, i)
      <4> HIDE DEF next
      <4>1. CASE i = n
        BY <3>1, <4>1 DEF next, Turn
      <4>2. CASE i < n
        <5>1. g[i] = f[i] /\ i \in 0 .. n - 1
          BY <3>1, <4>2
        <5>2. i # 0 => g[i - 1] = f[i - 1]
          BY <3>1, <4>2
        <5> QED
          BY <3>3, <5>1, <5>2 DEF Turn
      <4> QED
        BY <3>1, <4>1, <4>2
    <3>5. Loop(line, zone, g, n)
      BY <3>4 DEF Loop
    <3> HIDE DEF g
    <3> QED
      BY <1>1, <3>5
  <2> QED
    BY <2>1, <2>2
<1>2. Bad = {}
  <2>1. Bad \in SUBSET Nat
    OBVIOUS
  <2> HIDE DEF Bad
  <2> QED
    BY <1>1, <2>1, LeastNumber
<1> QED
  BY <1>2

LEMMA LoopSound ==
    ASSUME NEW line, NEW N \in Nat, NEW zone \in Int, NEW after, Loop(line, zone, after, N),
           \A i \in 1 .. N : WellFormedField(line.fields[i])
    PROVE  Sound(after[N])
<1> DEFINE Bad == {n \in 0 .. N : ~Sound(after[n])}
<1>1. ASSUME NEW n \in Bad, \A m \in Bad : ~(m < n) PROVE FALSE
  <2>1. after[n] = Turn(line, zone, after, n)
    BY DEF Loop
  <2>2. CASE n = 0
    BY <1>1, <2>1, <2>2, NoLogSound DEF Turn
  <2>3. CASE n # 0
    <3>1. n \in 1 .. N /\ n - 1 \in 0 .. N /\ n - 1 < n
      BY <1>1, <2>3
    <3>2. Sound(after[n - 1])
      BY <1>1, <3>1
    <3>3. Sound(SetField(after[n - 1], line.fields[n], zone))
      BY <3>1, <3>2, SetFieldSound
    <3> QED
      BY <1>1, <2>1, <2>3, <3>3 DEF Turn
  <2> QED
    BY <2>2, <2>3
<1>2. Bad = {}
  <2>1. Bad \in SUBSET Nat
    OBVIOUS
  <2> HIDE DEF Bad
  <2> QED
    BY <1>1, <2>1, LeastNumber
<1> QED
  BY <1>2

LEMMA JSONLineSound ==
    ASSUME NEW line, Len(line.fields) \in Nat, NEW zone \in Int,
           \A i \in 1 .. Len(line.fields) : WellFormedField(line.fields[i])
    PROVE  \A log \in parseJSONLine(line, zone) : Sound(log)
<1> DEFINE N == Len(line.fields)
           after == CHOOSE after : Loop(line, zone, after, N)
<1>1. Loop(line, zone, after, N)
  BY LoopExists
<1>2. Sound(after[N])
  BY <1>1, LoopSound
<1>3. parseJSONLine(line, zone) = {after[N]}
  BY DEF parseJSONLine, Loop, Turn
<1> QED
  BY <1>2, <1>3

LEMMA SyslogLineSound ==
    ASSUME NEW line, NEW zone \in Int, NEW now \in Int,
           line.shape = "syslog" => line.moment \in Int,
           line.shape # "syslog" => line.time \in Moment,
           line.message \in Utf8, Texts(line.attributes)
    PROVE  \A log \in parseSyslogLine(line, zone, now) : Sound(log)
<1>1. SyslogTime(line, zone, now) \in SUBSET Int
  <2>1. CASE line.shape = "syslog"
    <3>1. Year \in Nat \ {0} /\ now + zone \in Int
      BY SchemaAssumption
    <3>2. SyslogYear(now, zone) - 1 \in Int
      BY <3>1 DEF SyslogYear, YearOf
    <3>3. (SyslogYear(now, zone) - 1) * Year \in Int
      BY <3>1, <3>2
    <3> QED
      BY <2>1, <3>3 DEF SyslogTime
  <2>2. CASE line.shape # "syslog"
    BY <2>2, TimeStringType DEF SyslogTime, ZeroTime
  <2> QED
    BY <2>1, <2>2
<1> DEFINE level == IF line.priority = NoPriority THEN guessLevel(line.message)
                     ELSE syslogLevel(line.priority % 8)
           log(time) == [NoLog EXCEPT !.timestamp = time, !.host = line.host, !.level = level,
                                      !.message = line.message, !.attributes = line.attributes]
<1>2. ASSUME NEW time \in Int PROVE Sound(log(time))
  BY DEF Sound, Entries, NoLog, ZeroTime
<1>3. ASSUME NEW l \in parseSyslogLine(line, zone, now)
      PROVE  \E time \in SyslogTime(line, zone, now) : l = log(time)
  BY DEF parseSyslogLine
<1> HIDE DEF log
<1> QED
  BY <1>1, <1>2, <1>3

LEMMA TextLineSound ==
    ASSUME NEW line, NEW zone \in Int, line.time \in Moment, line.message \in Utf8
    PROVE  \A log \in parseTextLine(line, zone) : Sound(log)
<1> DEFINE log(time) == [NoLog EXCEPT !.timestamp = time, !.level = line.level,
                                      !.message = line.message]
<1>1. ASSUME NEW time \in Int PROVE Sound(log(time))
  BY NoLogSound DEF Sound, Entries, NoLog
<1>2. ASSUME NEW l \in parseTextLine(line, zone)
      PROVE  \E time \in parseTimestampString(line.time, zone) : l = log(time)
  BY DEF parseTextLine
<1>3. parseTimestampString(line.time, zone) \in SUBSET Int
  BY TimeStringType
<1> HIDE DEF log
<1> QED
  BY <1>1, <1>2, <1>3

LEMMA LevelNames ==
    /\ \A level : NormalizeLevel(level) \in Levels
    /\ \A level \in Levels : NormalizeLevel(level) = level
BY DEF NormalizeLevel, Levels

LEMMA ParseLineSound ==
    ASSUME NEW line, WellFormedLine(line), NEW file, file.location \in Int, NEW now \in Int
    PROVE  Sound(ParseLine(line, file, now)) /\ ParseLine(line, file, now).level \in Levels
<1> DEFINE results == Parse(line, file, now)
           parsed == IF results = {} THEN [NoLog EXCEPT !.message = line.text]
                                     ELSE CHOOSE result \in results : TRUE
           message == IF parsed.message = <<>> THEN line.text ELSE parsed.message
<1>1. \A log \in results : Sound(log)
  <2>1. line.shape = "json" => \A log \in parseJSONLine(line, file.location) : Sound(log)
    BY JSONLineSound DEF WellFormedLine
  <2>2. line.shape \in {"syslog", "syslog5424"} =>
          \A log \in parseSyslogLine(line, file.location, now) : Sound(log)
    BY SyslogLineSound DEF WellFormedLine
  <2>3. line.shape = "text" => \A log \in parseTextLine(line, file.location) : Sound(log)
    BY TextLineSound DEF WellFormedLine
  <2> QED
    BY <2>1, <2>2, <2>3 DEF Parse
<1>2. line.text \in Utf8
  BY DEF WellFormedLine
<1>3. Sound(parsed)
  <2>1. Sound([NoLog EXCEPT !.message = line.text])
    BY <1>2, NoLogSound DEF Sound, Entries
  <2> HIDE DEF results
  <2> QED
    BY <1>1, <2>1
<1>4. PICK level :
        ParseLine(line, file, now) =
            [parsed EXCEPT !.message = message, !.level = NormalizeLevel(level)]
  BY DEF ParseLine
<1> HIDE DEF parsed
<1>5. message \in Utf8
  BY <1>2, <1>3 DEF Sound, Entries
<1> HIDE DEF message
<1> DEFINE name == NormalizeLevel(level)
<1> HIDE DEF name
<1>6. /\ Sound([parsed EXCEPT !.message = message, !.level = name])
      /\ [parsed EXCEPT !.message = message, !.level = name].level = name
  BY <1>3, <1>5 DEF Sound, Entries
<1>7. name \in Levels
  BY LevelNames DEF name
<1> QED
  BY <1>4, <1>6, <1>7 DEF name

-----------------------------------------------------------------------------
(***************************************************************************)
(* The invariant and the theorems.                                         *)
(***************************************************************************)

\* LoadConfig resolves the time zone of the file.
LEMMA LocationType ==
    ASSUME NEW c, "files" \in DOMAIN c, c.files \in Seq(WatchedFile), Valid(applyDefaults(c))
    PROVE  Normalized(applyDefaults(c)).files[1].location \in Int
<1> DEFINE d == applyDefaults(c)
<1>1. "files" \in DOMAIN d /\ d.files = c.files
  BY DEF applyDefaults
<1>2. 1 \in DOMAIN d.files
  <2>1. c.files # <<>>
    BY <1>1 DEF Valid, ValidFiles
  <2>2. \A q \in Seq(WatchedFile) : q # <<>> => 1 \in DOMAIN q
    OBVIOUS
  <2> QED
    BY <1>1, <2>1, <2>2
<1>3. TimeZone(d.files[1]) \in DOMAIN Zones
  BY <1>1, <1>2 DEF Valid, ValidFiles
<1> HIDE DEF d
<1>4. Normalized(d).files = [i \in DOMAIN d.files |->
                                [path     |-> d.files[i].path,
                                 format   |-> OrDefault(d.files[i].format, "", "auto"),
                                 location |-> Zones[TimeZone(d.files[i])]]]
  BY <1>1 DEF Normalized
<1>5. Normalized(d).files[1] = [path     |-> d.files[1].path,
                                format   |-> OrDefault(d.files[1].format, "", "auto"),
                                location |-> Zones[TimeZone(d.files[1])]]
  BY <1>2, <1>4, Zenon
<1>6. Normalized(d).files[1].location = Zones[TimeZone(d.files[1])]
  <2>1. ASSUME NEW p, NEW f, NEW l PROVE [path |-> p, format |-> f, location |-> l].location = l
    OBVIOUS
  <2> QED
    BY <1>5, <2>1, Zenon
<1> QED
  BY <1>3, <1>6, PipelineAssumption DEF d

\* What is known of the record on its way.
PipelineInv ==
    /\ \E i \in DOMAIN Scenarios : scenario \in Scenarios[i]
    /\ scenario.clocks \subseteq Int
    /\ {"files", "host", "env", "min_level"} \subseteq DOMAIN scenario.config
    /\ scenario.config.files \in Seq(WatchedFile)
    /\ WellFormedLine(scenario.line)
    /\ phase = "config" => config = scenario.config
    /\ phase = "read" => config.files[1].location \in Int
    /\ phase \in {"batched", "buffered"} => Sound(record)
    /\ Stored => Discreet(record)
    /\ NeverFarAhead
    /\ RuneSafe

LEMMA PipelineInit == Init => PipelineInv
BY PipelineAssumption DEF Init, PipelineInv, NeverFarAhead, RuneSafe, Stored

LEMMA KeepSound ==
    ASSUME PipelineInv, NEW now \in scenario.clocks, Keep(now)
    PROVE  Sound(record')
<1>1. now \in Int /\ config.files[1].location \in Int
  BY DEF PipelineInv, Keep
<1> DEFINE p == ParseLine(scenario.line, config.files[1], now)
<1>2. Sound(p)
  BY <1>1, ParseLineSound DEF PipelineInv
<1> HIDE DEF p
<1>3. Sound([p EXCEPT !.host = config.host, !.env = config.env])
  BY <1>2 DEF Sound, Entries
<1>4. Sound(Parsed(now))
  BY <1>1, <1>3, NormalizeSound DEF Parsed, p
<1> QED
  BY <1>4, RedactSound DEF Keep

LEMMA AcceptSound ==
    ASSUME NEW log, Sound(log), NEW now \in Int, NEW later \in Int, now <= later
    PROVE  /\ Sound(Accept(log, now, later))
           /\ Discreet(Accept(log, now, later))
           /\ Accept(log, now, later).timestamp <= Accept(log, now, later).ingested_at + MaxSkew
<1> DEFINE n == NormalizeFieldsAt(log, now)
           r == Redact(n)
<1>1. Sound(n) /\ n.timestamp <= Truncate(now) + MaxSkew
  BY NormalizeSound
<1> HIDE DEF n
<1>2. Sound(r) /\ Discreet(r) /\ r.timestamp = n.timestamp
  BY <1>1, RedactSound, RedactDiscreet
<1> HIDE DEF r
<1>3. /\ [r EXCEPT !.ingested_at = Truncate(later)].timestamp = r.timestamp
      /\ [r EXCEPT !.ingested_at = Truncate(later)].ingested_at = Truncate(later)
      /\ Sound([r EXCEPT !.ingested_at = Truncate(later)])
      /\ Discreet([r EXCEPT !.ingested_at = Truncate(later)])
  BY <1>2, TruncateQuotient DEF Sound, Entries, Discreet
<1>4. Accept(log, now, later) = [r EXCEPT !.ingested_at = Truncate(later)]
  BY DEF Accept, r, n
<1>5. Truncate(now) <= Truncate(later)
  BY TruncateMonotone
<1>6. /\ Truncate(now) \in Int /\ Truncate(later) \in Int /\ MaxSkew \in Int
      /\ n.timestamp \in Int
  BY <1>1, TruncateQuotient, SchemaAssumption DEF Sound, Entries
<1> QED
  BY <1>1, <1>2, <1>3, <1>4, <1>5, <1>6

LEMMA PipelineStep ==
    ASSUME PipelineInv, [Next]_vars
    PROVE  PipelineInv'
<1>1. CASE LoadConfig
  <2>1. config'.files[1].location \in Int
    BY <1>1, LocationType DEF LoadConfig, PipelineInv
  <2> QED
    BY <1>1, <2>1 DEF LoadConfig, PipelineInv, NeverFarAhead, RuneSafe, Stored
<1>2. CASE LoadConfigFails
  BY <1>2 DEF LoadConfigFails, PipelineInv, NeverFarAhead, RuneSafe, Stored
<1>3. ASSUME NEW now \in scenario.clocks, Filter(now) PROVE PipelineInv'
  BY <1>3 DEF Filter, PipelineInv, NeverFarAhead, RuneSafe, Stored
<1>4. ASSUME NEW now \in scenario.clocks, Keep(now) PROVE PipelineInv'
  <2>1. Sound(record')
    BY <1>4, KeepSound
  <2> QED
    BY <1>4, <2>1 DEF Keep, PipelineInv, NeverFarAhead, RuneSafe, Stored
<1>5. CASE WriteBatch
  BY <1>5 DEF WriteBatch, PipelineInv, NeverFarAhead, RuneSafe, Stored
<1>6. ASSUME NEW now \in scenario.clocks, NEW later \in {t \in scenario.clocks : t >= now},
             Ingest(now, later)
      PROVE  PipelineInv'
  <2>1. now \in Int /\ later \in Int /\ now <= later
    BY DEF PipelineInv
  <2>2. Sound(Identified(record))
    BY <1>6, IdentifiedSound DEF Ingest, PipelineInv
  <2>3. Sound(record') /\ Discreet(record') /\ record'.timestamp <= record'.ingested_at + MaxSkew
    BY <1>6, <2>1, <2>2, AcceptSound DEF Ingest
  <2>4. WholeRunes(record'.message)
    BY <2>3 DEF Sound, Entries, Utf8
  <2> QED
    BY <1>6, <2>3, <2>4 DEF Ingest, PipelineInv, NeverFarAhead, RuneSafe
<1>7. CASE Reject
  BY <1>7 DEF Reject, PipelineInv, NeverFarAhead, RuneSafe, Stored
<1>8. CASE Rest \/ UNCHANGED vars
  BY <1>8 DEF Rest, vars, PipelineInv, NeverFarAhead, RuneSafe, Stored
<1> QED
  BY <1>1, <1>2, <1>3, <1>4, <1>5, <1>6, <1>7, <1>8 DEF Next

\* NormalizeAt in ingest corrects every timestamp that the agent, with its
\* own clock, or the writer of the line has put too far ahead: a stored record
\* is at most MaxFutureTimestampSkew ahead of the time of its acceptance, for
\* any two clocks, any notation and zone of a time, and any resolution.
THEOREM TimestampsNeverFarAhead == Spec => []NeverFarAhead
<1>1. PipelineInv => NeverFarAhead
  BY DEF PipelineInv
<1> QED
  BY <1>1, PipelineInit, PipelineStep, PTL DEF Spec

\* truncateMessage cuts in the agent and again in ingest, and between the two
\* and after them redaction puts masks into the message; as long as the line
\* and the texts of its fields are UTF-8, a stored message consists of whole
\* runes, for any limit on its length and any card numbers and keys in it.
THEOREM MessagesKeepWholeRunes == Spec => []RuneSafe
<1>1. PipelineInv => RuneSafe
  BY DEF PipelineInv
<1> QED
  BY <1>1, PipelineInit, PipelineStep, PTL DEF Spec

\* Redact, at the agent and again in ingest, leaves nothing sensitive in a
\* stored record: whatever the UTF-8 text of a message or an attribute, and
\* whatever masks and cuts the passes put next to one another in it, there is
\* no token, no key with a value that is not masked and no card number that
\* stands apart, for any bounds on the length of one; and an attribute that
\* its writer means to be secret is masked, as long as the code's lists know
\* it by its key.
THEOREM NothingSensitiveIsStored ==
    ASSUME \A i \in DOMAIN Scenarios : \A s \in Scenarios[i] :
               \A key \in s.secrets : sensitiveAttributeKey(key)
    PROVE  Spec => []NothingSensitiveStored
<1>1. PipelineInv => NothingSensitiveStored
  <2>1. SUFFICES ASSUME PipelineInv, Stored
                 PROVE  /\ Bare(record.message)
                        /\ \A key \in DOMAIN record.attributes :
                               IF key \in scenario.secrets
                               THEN record.attributes[key] \in {<<>>, Mask}
                               ELSE Bare(record.attributes[key])
    BY DEF NothingSensitiveStored, Bare
  <2>2. Discreet(record) /\ \A key \in scenario.secrets : sensitiveAttributeKey(key)
    BY <2>1 DEF PipelineInv
  <2> QED
    BY <2>2 DEF Discreet
<1> QED
  BY <1>1, PipelineInit, PipelineStep, PTL DEF Spec

-----------------------------------------------------------------------------
(***************************************************************************)
(* A text as its writer meant it: the cut is the longest part of whole     *)
(* runes that fits, what shows nothing sensitive is left alone, nothing is *)
(* redacted to white space, and a number is kept or masked as a whole.     *)
(***************************************************************************)
\* Without an interval to mask, masking copies the text.
LEMMA NothingMasked ==
    ASSUME NEW text \in Seq(Symbol)
    PROVE  MaskSpans(text, {}) = text
<1> DEFINE out == MaskSpans(text, {})
           N == Len(text)
<1>1. PICK place : Layout(text, {}, out, place)
  BY LayoutExists DEF Proper
<1>2. N \in Nat
  OBVIOUS
<1> HIDE DEF out
<1>3. \A i \in 1 .. N : /\ place[i - 1] \in Nat
                        /\ place[i] = place[i - 1] + 1 /\ out[place[i]] = text[i]
  BY <1>1 DEF Layout, Placed, Covered
<1>4. out \in Seq(Symbol) /\ place[0] = 0 /\ place[N] = Len(out)
  BY <1>1 DEF Layout
<1> DEFINE Bad == {i \in 0 .. N : place[i] # i}
<1>5. ASSUME NEW i \in Bad, \A m \in Bad : ~(m < i) PROVE FALSE
  <2>1. i \in 1 .. N
    BY <1>4, <1>5
  <2>2. i - 1 \in 0 .. N /\ i - 1 < i /\ (i - 1) + 1 = i
    BY <1>2, <2>1
  <2>3. place[i - 1] = i - 1
    BY <1>5, <2>2
  <2> QED
    BY <1>3, <1>5, <2>1, <2>2, <2>3
<1>6. \A i \in 0 .. N : place[i] = i
  <2>1. Bad \in SUBSET Nat
    BY <1>2
  <2>2. Bad = {}
    <3> HIDE DEF Bad
    <3> QED
      BY <1>5, <2>1, LeastNumber
  <2> QED
    BY <2>2
<1>7. N \in 0 .. N /\ \A i \in 1 .. N : i \in 0 .. N
  BY <1>2
<1>8. Len(out) = N /\ \A i \in 1 .. N : out[i] = text[i]
  BY <1>3, <1>4, <1>6, <1>7
<1>9. out = text
  BY <1>4, <1>8, SeqEqual
<1> QED
  BY <1>9 DEF out

\* A number with the right check digit is a card number.
LEMMA NumberIsCard ==
    ASSUME NEW text \in Seq(Symbol), Len(text) > 0, IsNumber(text), passesLuhn(text)
    PROVE  IsCard(text)
<1> DEFINE n == Len(text)
<1>1. n \in Nat /\ DOMAIN text = 1 .. n /\ 1 \in 1 .. n /\ n \in 1 .. n /\ ~(n < n)
  OBVIOUS
<1>2. /\ text[1] \in Digit
      /\ \A i \in 1 .. n :
           text[i] \in Digit \/ (text[i] = Space /\ i < n /\ text[i + 1] \in Digit)
      /\ Len(DigitsOf(text)) \in MinDigits .. MaxDigits
  BY <1>1, Zenon DEF IsNumber
<1>3. Space \notin Digit
  BY DEF Space, Digit
<1>4. \A i \in 1 .. n : text[i] \in Digit \cup {Space}
  BY <1>2
<1>5. \A i \in 1 .. n - 1 : <<text[i], text[i + 1]>> # <<Space, Space>>
  <2>1. \A i \in 1 .. n - 1 : i \in 1 .. n
    BY <1>1
  <2>2. \A i \in 1 .. n - 1 : ~(text[i] = Space /\ text[i + 1] = Space)
    BY <1>2, <1>3, <2>1
  <2> QED
    BY <2>2
<1>6. Space \notin {text[1], text[n]}
  BY <1>1, <1>2, <1>3
<1>7. CheckDigit(text)
  BY LuhnAgrees
<1> QED
  BY <1>1, <1>2, <1>4, <1>5, <1>6, <1>7, Zenon DEF IsCard, CheckDigit

\* A text without anything sensitive is left as it is.
LEMMA HarmlessKept ==
    ASSUME NEW text \in Seq(Symbol), Harmless(text)
    PROVE  redactMessage(text) = text
<1>1. Len(text) \in Nat /\ DOMAIN text = 1 .. Len(text)
  OBVIOUS
<1>2. \A i \in 1 .. Len(text) : text[i] \notin {Key, Mail}
  BY <1>1 DEF Harmless
<1>3. SecretSpans(text) = {}
  <2>1. SUFFICES ASSUME NEW s \in SecretSpans(text) PROVE FALSE
    OBVIOUS
  <2>2. s[1] \in 2 .. Len(text) /\ text[s[1] - 1] = Key
    BY DEF SecretSpans
  <2>3. s[1] - 1 \in 1 .. Len(text)
    BY <1>1, <2>2
  <2> QED
    BY <1>2, <2>2, <2>3
<1>4. TokenSpans(text) = {}
  BY <1>1, <1>2 DEF TokenSpans
<1>5. CardSpans(text) = {}
  <2>1. SUFFICES ASSUME NEW s \in CardSpans(text) PROVE FALSE
    OBVIOUS
  <2>2. s \in Matches(text) /\ passesLuhn(SubSeq(text, s[1], s[2]))
    BY DEF CardSpans
  <2>3. IsMatch(text, s)
    BY <1>1, <2>2, MatchesOrderly DEF Orderly
  <2> DEFINE a == s[1]
             e == s[2]
             number == SubSeq(text, a, e)
  <2>4. a \in 1 .. Len(text) /\ e \in a .. Len(text) /\ IsNumber(number)
    BY <2>3 DEF IsMatch, Ends
  <2> HIDE DEF a, e
  <2>5. number \in Seq(Symbol) /\ Len(number) > 0
    BY <1>1, <2>4
  <2>6. IsCard(number)
    BY <2>2, <2>4, <2>5, NumberIsCard DEF a, e
  <2>7. <<a, e>> \in Intervals(text)
    BY <1>1, <2>4 DEF Intervals
  <2> QED
    BY <2>6, <2>7 DEF Harmless
<1> QED
  BY <1>3, <1>4, <1>5, NothingMasked DEF redactMessage, redactCardNumbers

\* Redaction does not empty a text.
LEMMA MaskNotBlank ==
    ASSUME NEW text \in Seq(Symbol), NEW spans, Proper(text, spans),
           IsBlank(MaskSpans(text, spans))
    PROVE  IsBlank(text)
<1> DEFINE out == MaskSpans(text, spans)
<1>1. PICK place : Layout(text, spans, out, place)
  BY LayoutExists
<1> HIDE DEF out
<1>2. /\ Len(text) \in Nat /\ DOMAIN text = 1 .. Len(text)
      /\ out \in Seq(Symbol) /\ Len(out) \in Nat /\ DOMAIN out = 1 .. Len(out)
  BY <1>1 DEF Layout
<1>3. \A p \in 1 .. Len(out) : out[p] = Space
  BY <1>2 DEF IsBlank, out
<1>4. SUFFICES ASSUME NEW i \in 1 .. Len(text), text[i] # Space PROVE FALSE
  BY <1>2 DEF IsBlank
<1>5. CASE ~Covered(spans, i)
  <2>1. place[i - 1] \in Nat /\ place[i] = place[i - 1] + 1 /\ place[i] <= Len(out)
        /\ out[place[i]] = text[i]
    BY <1>1, <1>5 DEF Layout, Placed
  <2>2. place[i] \in 1 .. Len(out)
    BY <1>2, <2>1
  <2> QED
    BY <1>3, <1>4, <2>1, <2>2
<1>6. CASE Covered(spans, i)
  <2>1. PICK s \in spans : i \in s[1] .. s[2]
    BY <1>6 DEF Covered
  <2>2. s[1] \in 1 .. Len(text) /\ Starts(spans, s[1])
    BY <2>1 DEF Proper, Starts
  <2> DEFINE j == s[1]
  <2> HIDE DEF j
  <2>3. place[j - 1] \in Nat /\ place[j] = place[j - 1] + 2 /\ place[j] <= Len(out)
        /\ out[place[j]] = Close
    BY <1>1, <2>2 DEF Layout, Placed, j
  <2>4. place[j] \in 1 .. Len(out)
    BY <1>2, <2>3
  <2> QED
    BY <1>3, <2>3, <2>4 DEF Close, Space
<1> QED
  BY <1>5, <1>6

\* A redacted text of white space was one before.
LEMMA RedactNotBlank ==
    ASSUME NEW text \in Seq(Symbol), IsBlank(redactMessage(text))
    PROVE  IsBlank(text)
<1> DEFINE secrets == MaskSpans(text, SecretSpans(text))
           tokens  == MaskSpans(secrets, TokenSpans(secrets))
           cards   == MaskSpans(tokens, CardSpans(tokens))
<1>1. secrets \in Seq(Symbol) /\ Guarded(secrets) /\ Proper(text, SecretSpans(text))
  BY SecretsGuarded, SecretProper
<1> HIDE DEF secrets
<1>2. Mail \notin {Key, Comma, Open, Close}
  BY DEF Mail, Key, Comma, Open, Close
<1>3. tokens \in Seq(Symbol) /\ Proper(secrets, TokenSpans(secrets))
  BY <1>1, <1>2, TokenSpansCover, MaskKeepsGuard
<1> HIDE DEF tokens
<1>4. Proper(tokens, CardSpans(tokens))
  BY <1>3, CardSpansCover
<1>5. IsBlank(cards)
  BY DEF redactMessage, redactCardNumbers, cards, tokens, secrets
<1>6. IsBlank(tokens)
  BY <1>3, <1>4, <1>5, MaskNotBlank
<1>7. IsBlank(secrets)
  BY <1>1, <1>3, <1>6, MaskNotBlank DEF tokens
<1> QED
  BY <1>1, <1>7, MaskNotBlank DEF secrets

\* A prefix is of whole runes unless a rune goes on after it.
LEMMA CutFits ==
    ASSUME NEW text \in Utf8, NEW n \in 1 .. Len(text), n < Len(text)
    PROVE  WholeRunes(SubSeq(text, 1, n)) <=> text[n + 1] # Cont
<1> DEFINE part == SubSeq(text, 1, n)
<1>1. Len(text) \in Nat /\ text \in Seq(Symbol) /\ n + 1 \in 1 .. Len(text) /\ (n + 1) - 1 = n
  BY TextType
<1>2. part \in Seq(Symbol) /\ Len(part) = n /\ \A i \in 1 .. n : part[i] = text[i]
  BY <1>1
<1>3. DOMAIN part = 1 .. n
  BY <1>2
<1> HIDE DEF part
<1>4. text[n + 1] = Cont <=> text[n] = Lead
  <2>1. text[n] = Lead => text[n + 1] = Cont
    BY TextType
  <2>2. text[n + 1] = Cont => text[(n + 1) - 1] = Lead
    BY <1>1, TextType
  <2> QED
    BY <1>1, <2>1, <2>2
<1>5. ASSUME WholeRunes(part) PROVE text[n] # Lead
  <2>1. n \in 1 .. n /\ ~(n < n)
    BY <1>1
  <2> QED
    BY <1>2, <1>3, <1>5, <2>1 DEF WholeRunes
<1>6. ASSUME text[n] # Lead PROVE WholeRunes(part)
  <2>1. ASSUME NEW i \in 1 .. n
        PROVE  /\ part[i] = Lead => i < n /\ part[i + 1] = Cont
               /\ part[i] = Cont => i > 1 /\ part[i - 1] = Lead
    <3>1. i \in 1 .. Len(text) /\ (i # n => i < n /\ i + 1 \in 1 .. n)
          /\ (i > 1 => i - 1 \in 1 .. n)
      BY <1>1
    <3>2. /\ text[i] = Lead => text[i + 1] = Cont
          /\ text[i] = Cont => i > 1 /\ text[i - 1] = Lead
      BY <3>1, TextType
    <3> QED
      BY <1>2, <1>6, <3>1, <3>2
  <2> QED
    BY <1>2, <1>3, <2>1 DEF WholeRunes
<1> QED
  BY <1>4, <1>5, <1>6 DEF part

\* truncateMessage leaves the longest part of whole runes that fits, and a
\* second cut leaves that as it is.
LEMMA TruncateIsCut ==
    ASSUME NEW text \in Utf8
    PROVE  /\ truncateMessage(text) = Cut(text)
           /\ truncateMessage(truncateMessage(text)) = truncateMessage(text)
<1> DEFINE M == MaxMessageLength
           fits == {n \in 0 .. Len(text) : n <= M /\ WholeRunes(SubSeq(text, 1, n))}
           ends == {0} \cup {end \in 1 .. M : text[end + 1] # Cont}
<1>1. M \in Nat /\ Len(text) \in Nat /\ text \in Seq(Symbol)
  BY SchemaAssumption, TextType
<1>2. Cut(text) = SubSeq(text, 1, Max(fits))
  BY Zenon DEF Cut
<1>3. CASE Len(text) <= M
  <2>1. SubSeq(text, 1, Len(text)) = text
    BY <1>1
  <2>2. Len(text) \in fits
    <3>1. Len(text) \in 0 .. Len(text) /\ WholeRunes(text)
      BY <1>1 DEF Utf8
    <3> QED
      BY <1>3, <2>1, <3>1
  <2>3. \A n \in fits : n \in Nat /\ n <= Len(text)
    BY <1>1
  <2> HIDE DEF fits
  <2>4. Max(fits) = Len(text)
    <3>1. \A x \in fits : (\A y \in fits : x >= y) => x = Len(text)
      BY <1>1, <2>2, <2>3
    <3>2. \A y \in fits : Len(text) >= y
      BY <1>1, <2>2, <2>3
    <3> QED
      BY <2>2, <3>1, <3>2 DEF Max
  <2> QED
    BY <1>2, <1>3, <2>1, <2>4 DEF truncateMessage
<1>4. CASE ~(Len(text) <= M)
  <2>1. fits = ends
    <3>1. \A n \in 1 .. M : n \in 1 .. Len(text) /\ n < Len(text) /\ n \in 0 .. Len(text) /\ n <= M
      BY <1>1, <1>4
    <3>2. \A n \in 1 .. M : n \in fits <=> n \in ends
      BY <1>1, <3>1, CutFits
    <3>3. SubSeq(text, 1, 0) = <<>>
      BY <1>1
    <3>4. 0 \in fits
      BY <1>1, <3>3 DEF WholeRunes
    <3>5. \A n \in fits : n = 0 \/ n \in 1 .. M
      BY <1>1
    <3>6. \A n \in ends : n = 0 \/ n \in 1 .. M
      OBVIOUS
    <3>7. 0 \in ends
      OBVIOUS
    <3> HIDE DEF fits, ends
    <3> QED
      BY <3>2, <3>4, <3>5, <3>6, <3>7
  <2>2. truncateMessage(text) = SubSeq(text, 1, Max(ends))
    BY <1>4, Zenon DEF truncateMessage
  <2>3. Max(ends) \in 0 .. M
    <3>1. ends \in SUBSET (0 .. M) /\ ends # {}
      BY <1>1
    <3> HIDE DEF ends
    <3>2. Max(ends) \in ends
      BY <1>1, <3>1, GreatestNumber
    <3> QED
      BY <3>1, <3>2
  <2> DEFINE e == Max(ends)
  <2> HIDE DEF e, ends, fits
  <2>4. Len(SubSeq(text, 1, e)) <= M
    BY <1>1, <1>4, <2>3 DEF e
  <2> QED
    BY <1>2, <2>1, <2>2, <2>4 DEF truncateMessage, e
<1> QED
  BY <1>3, <1>4

\* A number in decimal notation is kept as a whole or masked as a whole.
LEMMA DigitsKept ==
    ASSUME NEW text \in Seq(Digit)
    PROVE  redactMessage(text) \in {text, Mask}
<1> DEFINE N == Len(text)
           cards == CardSpans(text)
           out == MaskSpans(text, cards)
<1>1. N \in Nat /\ DOMAIN text = 1 .. N /\ \A i \in 1 .. N : text[i] \in Digit
  OBVIOUS
<1>2. text \in Seq(Symbol)
  <2>1. Digit \subseteq Symbol
    BY DEF Digit, Symbol
  <2> QED
    BY <2>1
<1>3. Key \notin Digit /\ Mail \notin Digit
  BY DEF Key, Mail, Digit
<1>4. SecretSpans(text) = {}
  <2>1. SUFFICES ASSUME NEW s \in SecretSpans(text) PROVE FALSE
    OBVIOUS
  <2>2. s[1] \in 2 .. N /\ text[s[1] - 1] = Key
    BY DEF SecretSpans
  <2>3. s[1] - 1 \in 1 .. N
    BY <1>1, <2>2
  <2> QED
    BY <1>1, <1>3, <2>2, <2>3
<1>5. TokenSpans(text) = {}
  BY <1>1, <1>3 DEF TokenSpans
<1>6. redactMessage(text) = out
  BY <1>2, <1>4, <1>5, NothingMasked DEF redactMessage, redactCardNumbers
<1>7. \A s \in cards : s[1] = 1 /\ s[2] = N
  <2>1. SUFFICES ASSUME NEW s \in cards PROVE s[1] = 1 /\ s[2] = N
    OBVIOUS
  <2>2. /\ s \in Matches(text)
        /\ s[1] = 1 \/ text[s[1] - 1] \notin Digit
        /\ s[2] = N \/ text[s[2] + 1] \notin Digit
    BY DEF CardSpans
  <2>3. s[1] \in 1 .. N /\ s[2] \in s[1] .. N
    BY <1>1, <1>2, <2>2, MatchesOrderly, MatchSymbols DEF Orderly
  <2>4. (s[1] # 1 => s[1] - 1 \in 1 .. N) /\ (s[2] # N => s[2] + 1 \in 1 .. N)
    BY <1>1, <2>3
  <2> QED
    BY <1>1, <2>2, <2>4
<1>8. Proper(text, cards)
  BY <1>2, CardSpansCover
<1>9. CASE cards = {}
  BY <1>2, <1>6, <1>9, NothingMasked
<1>10. CASE cards # {}
  <2>1. PICK place : Layout(text, cards, out, place)
    BY <1>2, <1>8, LayoutExists
  <2> HIDE DEF out, cards
  <2>2. PICK s \in cards : s[1] = 1 /\ s[2] = N
    BY <1>7, <1>10
  <2>3. N >= 1
    BY <1>1, <1>8, <2>2 DEF Proper
  <2>4. \A i \in 1 .. N : Covered(cards, i) /\ (Starts(cards, i) <=> i = 1)
    BY <1>7, <2>2 DEF Covered, Starts
  <2>5. /\ out \in Seq(Symbol) /\ place[0] = 0 /\ place[N] = Len(out)
        /\ \A i \in 1 .. N : Placed(text, cards, out, place, i)
    BY <2>1 DEF Layout
  <2>6. place[1] = 2 /\ out[1] = Open /\ out[2] = Close
    <3>1. 1 \in 1 .. N /\ Starts(cards, 1)
      BY <1>1, <2>3, <2>4
    <3>2. Placed(text, cards, out, place, 1) /\ 1 - 1 = 0
      BY <2>5, <3>1
    <3> QED
      BY <2>5, <3>1, <3>2 DEF Placed
  <2>7. \A i \in 1 .. N : i # 1 => place[i] = place[i - 1]
    BY <2>4, <2>5 DEF Placed
  <2> DEFINE Bad == {i \in 1 .. N : place[i] # 2}
  <2>8. ASSUME NEW i \in Bad, \A m \in Bad : ~(m < i) PROVE FALSE
    <3>1. i \in 1 .. N /\ i # 1
      BY <2>6, <2>8
    <3>2. i - 1 \in 1 .. N /\ i - 1 < i
      BY <1>1, <3>1
    <3> QED
      BY <2>7, <2>8, <3>1, <3>2
  <2>9. place[N] = 2
    <3>1. Bad \in SUBSET Nat
      BY <1>1
    <3>2. Bad = {}
      <4> HIDE DEF Bad
      <4> QED
        BY <2>8, <3>1, LeastNumber
    <3>3. N \in 1 .. N
      BY <1>1, <2>3
    <3> QED
      BY <3>2, <3>3
  <2>10. Mask \in Seq(Symbol) /\ Len(Mask) = 2 /\ Mask[1] = Open /\ Mask[2] = Close
    BY DEF Mask, Symbol, Open, Close
  <2>11. \A k \in 1 .. 2 : out[k] = Mask[k]
    BY <2>6, <2>10
  <2>12. out = Mask
    BY <2>5, <2>9, <2>10, <2>11, SeqEqual
  <2> QED
    BY <1>6, <2>12
<1> QED
  BY <1>9, <1>10

-----------------------------------------------------------------------------
(***************************************************************************)
(* Levels and times as their writers meant them: ranks order the names,    *)
(* a second truncation changes nothing.                                    *)
(***************************************************************************)
\* The ranks of the code order the levels as their names do.
LEMMA RanksOrder ==
    ASSUME NEW level \in Levels, NEW minimum \in Levels
    PROVE  AtLeast(level, minimum) <=> ~(LevelRank(level) < LevelRank(minimum))
<1>1. /\ LevelRank("trace") = 0 /\ LevelRank("debug") = 1 /\ LevelRank("info") = 2
      /\ LevelRank("warn") = 3 /\ LevelRank("error") = 4 /\ LevelRank("fatal") = 5
  BY LevelNames DEF LevelRank, Levels
<1>2. /\ DOMAIN Severities = 1 .. 6
      /\ Severities[1] = "trace" /\ Severities[2] = "debug" /\ Severities[3] = "info"
      /\ Severities[4] = "warn" /\ Severities[5] = "error" /\ Severities[6] = "fatal"
  BY DEF Severities
<1>3. \A i \in 1 .. 6 : Severities[i] \in Levels /\ LevelRank(Severities[i]) = i - 1
  BY <1>1, <1>2 DEF Levels
<1>4. \A l \in Levels : \E i \in 1 .. 6 : Severities[i] = l
  BY <1>2 DEF Levels
<1> QED
  BY <1>2, <1>3, <1>4 DEF AtLeast

LEMMA TruncateFacts ==
    ASSUME NEW t \in Int
    PROVE  /\ Truncate(t) \in Int /\ Truncate(Truncate(t)) = Truncate(t)
           /\ t - Truncate(t) \in 0 .. Millisecond - 1
           /\ Truncate(t) % Millisecond = 0
           /\ t >= Millisecond => Truncate(t) >= Millisecond
<1>1. Millisecond \in Nat \ {0}
  BY SchemaAssumption
<1>2. \A m \in Nat \ {0} : (t - (t % m)) % m = 0
  OBVIOUS
<1>3. \A m \in Nat \ {0} : t % m \in 0 .. m - 1
  OBVIOUS
<1>4. \A m \in Nat \ {0} : t >= m => t - (t % m) >= m
  OBVIOUS
<1> DEFINE u == t - (t % Millisecond)
<1>5. /\ u \in Int /\ u % Millisecond = 0 /\ t - u \in 0 .. Millisecond - 1
      /\ t >= Millisecond => u >= Millisecond
  <2>1. u % Millisecond = 0 /\ (t >= Millisecond => u >= Millisecond)
    BY <1>1, <1>2, <1>4, Zenon
  <2>2. t % Millisecond \in 0 .. Millisecond - 1
    BY <1>1, <1>3, Zenon
  <2> DEFINE rest == t % Millisecond
  <2> HIDE DEF rest
  <2>3. t - rest \in Int /\ t - (t - rest) \in 0 .. Millisecond - 1
    BY <1>1, <2>2 DEF rest
  <2> QED
    BY <2>1, <2>3 DEF rest
<1>6. Truncate(t) = u
  BY DEF Truncate
<1> HIDE DEF u
<1>7. Truncate(u) = u
  BY <1>5 DEF Truncate
<1> QED
  BY <1>5, <1>6, <1>7

\* The remainders of two numbers whose sum is a multiple.
LEMMA RemaindersAdd ==
    ASSUME NEW m \in Nat \ {0}, NEW a \in Int, NEW b \in Int, (a + b) % m = 0
    PROVE  (a % m) + (b % m) \in {0, m}
<1>1. /\ a % m \in 0 .. m - 1 /\ a \div m \in Int /\ a = m * (a \div m) + (a % m)
      /\ b % m \in 0 .. m - 1 /\ b \div m \in Int /\ b = m * (b \div m) + (b % m)
  OBVIOUS
<1>2. (a + b) \div m \in Int /\ a + b = m * ((a + b) \div m)
  OBVIOUS
<1> DEFINE k == ((a + b) \div m) - (a \div m) - (b \div m)
<1>3. \A x, y, z \in Int : m * (x - y - z) = m * x - m * y - m * z
  OBVIOUS
<1>4. (a % m) + (b % m) = m * k /\ k \in Int
  BY <1>1, <1>2, <1>3
<1>5. \A x \in Int : m * x \in 0 .. 2 * m - 2 => x \in {0, 1}
  <2>1. \A x \in Int : x >= 2 => m * x >= m * 2
    OBVIOUS
  <2>2. \A x \in Int : x <= -1 => m * x <= m * (-1)
    OBVIOUS
  <2> QED
    BY <2>1, <2>2
<1> HIDE DEF k
<1>6. m * k \in 0 .. 2 * m - 2
  BY <1>1, <1>4
<1> QED
  BY <1>4, <1>5, <1>6

\* A clock that JSON has a notation for has one when truncated.
LEMMA EncodableClock ==
    ASSUME NEW t \in Int, t >= Millisecond, Encodable(t)
    PROVE  Encodable(Truncate(t))
<1>1. /\ Millisecond \in Nat \ {0} /\ Year \in Nat \ {0} /\ LastYear \in Nat
      /\ Truncate(t) \in Int /\ Truncate(t) <= t /\ Truncate(t) >= 0
  BY SchemaAssumption, TruncateFacts
<1>2. Truncate(t) \div Year <= t \div Year /\ 0 \div Year <= Truncate(t) \div Year
  BY <1>1, QuotientMonotone
<1>3. 0 \div Year = 0 /\ Truncate(t) \div Year \in Int /\ t \div Year \in Int
  BY <1>1
<1> QED
  BY <1>1, <1>2, <1>3 DEF Encodable, YearOf

-----------------------------------------------------------------------------
(***************************************************************************)
(* A record that is read as it was meant, in the agent's batch and in the  *)
(* stream: its text, its attributes, its time and its skew.                *)
(***************************************************************************)
Flags == {TimestampMissing, TimestampCorrected, TimestampSkewMillis}

AsMeant(parsed, now) ==
    /\ Sound(parsed)
    /\ parsed.message = scenario.said
    /\ parsed.level = scenario.severity /\ scenario.severity \in Levels
    /\ Zone \in Int /\ scenario.event \in Int
    /\ \A time \in {parsed.timestamp, Truncate(parsed.timestamp)} :
           (time = ZeroTime) = (scenario.event = ZeroTime)
    /\ scenario.event # ZeroTime =>
           parsed.timestamp - ClaimedAt(now) \in -Margin .. Margin
    /\ \A time \in {parsed.timestamp, parsed.ingested_at} :
           \/ Encodable(Truncate(time))
           \/ \E claim \in scenario.claims : ~Encodable(Truncate(claim))
    /\ \A key \in DOMAIN scenario.given :
           /\ key \in DOMAIN parsed.attributes
           /\ parsed.attributes[key] = scenario.given[key]
    /\ DOMAIN parsed.attributes \cap Flags = {}

\* The record of the agent's batch, and the one in the stream.
Batched(parsed, now) ==
    Redact(NormalizeFieldsAt([parsed EXCEPT !.host = config.host, !.env = config.env], now))

Accepted(log, now, later) == Accept(Identified(log), now, later)

\* What processing makes of a record, entry by entry.
LEMMA BatchedEntries ==
    ASSUME NEW parsed, Sound(parsed), NEW now \in Int
    PROVE  LET b == Batched(parsed, now)
               attributes == Overwritten(parsed.attributes, TimestampFlags(parsed, now))
           IN  /\ Sound(b)
               /\ b.timestamp = IF parsed.timestamp = ZeroTime \/ Corrected(parsed, now)
                                THEN Truncate(now) ELSE Truncate(parsed.timestamp)
               /\ b.ingested_at = IF parsed.ingested_at = ZeroTime
                                  THEN Truncate(now) ELSE Truncate(parsed.ingested_at)
               /\ b.message = redactMessage(truncateMessage(parsed.message))
               /\ b.attributes = [key \in DOMAIN attributes |->
                                     RedactAttribute(key, attributes[key])]
               /\ b.level = NormalizeLevel(parsed.level)
               /\ ~b.redacted => /\ b.message = truncateMessage(parsed.message)
                                 /\ b.attributes = attributes
               /\ b.host = config.host /\ b.env = config.env
<1> DEFINE p == [parsed EXCEPT !.host = config.host, !.env = config.env]
           n == NormalizeFieldsAt(p, now)
           b == Redact(n)
<1>1. /\ Sound(p) /\ p.host = config.host /\ p.env = config.env
      /\ p.timestamp = parsed.timestamp /\ p.ingested_at = parsed.ingested_at
      /\ p.message = parsed.message /\ p.attributes = parsed.attributes
      /\ p.level = parsed.level
  BY DEF Sound, Entries
<1> HIDE DEF p
<1>2. /\ Corrected(p, now) <=> Corrected(parsed, now)
      /\ TimestampFlags(p, now) = TimestampFlags(parsed, now)
  BY <1>1 DEF Corrected, TimestampFlags
<1>3. /\ Sound(n) /\ n.host = p.host /\ n.env = p.env
      /\ n.timestamp = IF p.timestamp = ZeroTime \/ Corrected(p, now)
                       THEN Truncate(now) ELSE Truncate(p.timestamp)
      /\ n.ingested_at = IF p.ingested_at = ZeroTime
                         THEN Truncate(now) ELSE Truncate(p.ingested_at)
      /\ n.message = truncateMessage(p.message)
      /\ n.attributes = Overwritten(p.attributes, TimestampFlags(p, now))
      /\ n.level = NormalizeLevel(p.level)
  BY <1>1, NormalizeSound, NormalizeEntries
<1> HIDE DEF n
<1>4. /\ Sound(b) /\ b.host = n.host /\ b.env = n.env
      /\ b.timestamp = n.timestamp /\ b.ingested_at = n.ingested_at
      /\ b.message = redactMessage(n.message)
      /\ b.attributes = [key \in DOMAIN n.attributes |->
                            RedactAttribute(key, n.attributes[key])]
      /\ b.level = n.level
      /\ ~b.redacted => b.message = n.message /\ b.attributes = n.attributes
  BY <1>3, RedactSound, RedactEntries
<1>5. Batched(parsed, now) = b
  BY DEF Batched, p, n
<1> HIDE DEF b
<1> QED
  BY <1>1, <1>2, <1>3, <1>4, <1>5

\* What ingest makes of one.
LEMMA AcceptedEntries ==
    ASSUME NEW log, Sound(log), NEW now \in Int, NEW later \in Int
    PROVE  LET a == Accepted(log, now, later)
               attributes == Overwritten(log.attributes, TimestampFlags(log, now))
           IN  /\ a.timestamp = IF log.timestamp = ZeroTime \/ Corrected(log, now)
                                THEN Truncate(now) ELSE Truncate(log.timestamp)
               /\ a.message = redactMessage(truncateMessage(log.message))
               /\ a.attributes = [key \in DOMAIN attributes |->
                                     RedactAttribute(key, attributes[key])]
               /\ a.level = NormalizeLevel(log.level)
               /\ ~a.redacted => /\ a.message = truncateMessage(log.message)
                                 /\ a.attributes = attributes
                                 /\ ~log.redacted
<1> DEFINE p == Identified(log)
           n == NormalizeFieldsAt(p, now)
           r == Redact(n)
           a == [r EXCEPT !.ingested_at = Truncate(later)]
<1>1. /\ Sound(p)
      /\ p.timestamp = log.timestamp /\ p.redacted = log.redacted
      /\ p.message = log.message /\ p.attributes = log.attributes
      /\ p.level = log.level
  BY DEF Sound, Entries, Identified
<1> HIDE DEF p
<1>2. /\ Corrected(p, now) <=> Corrected(log, now)
      /\ TimestampFlags(p, now) = TimestampFlags(log, now)
  BY <1>1 DEF Corrected, TimestampFlags
<1>3. /\ Sound(n)
      /\ n.timestamp = IF p.timestamp = ZeroTime \/ Corrected(p, now)
                       THEN Truncate(now) ELSE Truncate(p.timestamp)
      /\ n.message = truncateMessage(p.message)
      /\ n.attributes = Overwritten(p.attributes, TimestampFlags(p, now))
      /\ n.level = NormalizeLevel(p.level) /\ n.redacted = p.redacted
  BY <1>1, NormalizeSound, NormalizeEntries
<1> HIDE DEF n
<1>4. /\ Sound(r)
      /\ r.timestamp = n.timestamp
      /\ r.message = redactMessage(n.message)
      /\ r.attributes = [key \in DOMAIN n.attributes |->
                            RedactAttribute(key, n.attributes[key])]
      /\ r.level = n.level
      /\ ~r.redacted => r.message = n.message /\ r.attributes = n.attributes
      /\ ~r.redacted => ~n.redacted
  BY <1>3, RedactSound, RedactEntries
<1> HIDE DEF r
<1>5. /\ a.timestamp = r.timestamp /\ a.message = r.message /\ a.attributes = r.attributes
      /\ a.level = r.level /\ a.redacted = r.redacted
  BY <1>4 DEF Sound, Entries
<1>6. Accepted(log, now, later) = a
  BY DEF Accepted, Accept, p, n, r
<1> HIDE DEF a
<1>7. a.redacted = r.redacted /\ n.redacted = log.redacted
  BY <1>1, <1>3, <1>5
<1> QED
  BY <1>1, <1>2, <1>3, <1>4, <1>5, <1>6, <1>7

LEMMA FlagsDiffer ==
    /\ TimestampMissing # TimestampCorrected
    /\ TimestampMissing # TimestampSkewMillis
    /\ TimestampCorrected # TimestampSkewMillis
<1>1. /\ Len(TimestampMissing) = 2 /\ Len(TimestampCorrected) = 2
      /\ Len(TimestampSkewMillis) = 3
  BY DEF TimestampMissing, TimestampCorrected, TimestampSkewMillis
<1>2. TimestampMissing[2] = <<"missing">> /\ TimestampCorrected[2] = <<"corrected">>
  BY DEF TimestampMissing, TimestampCorrected
<1>3. <<"missing">>[1] = "missing" /\ <<"corrected">>[1] = "corrected"
  OBVIOUS
<1> QED
  BY <1>1, <1>2, <1>3

\* The flags that NormalizeAt sets, and the skew.
LEMMA FlagKeys ==
    ASSUME NEW log, NEW now
    PROVE  LET flags == TimestampFlags(log, now)
           IN  /\ DOMAIN flags \subseteq Flags
               /\ TimestampMissing \in DOMAIN flags <=> log.timestamp = ZeroTime
               /\ TimestampCorrected \in DOMAIN flags <=> Corrected(log, now)
               /\ TimestampSkewMillis \in DOMAIN flags <=> Corrected(log, now)
               /\ Corrected(log, now) =>
                      flags[TimestampSkewMillis] =
                          Decimal(Min({log.timestamp - now, MaxDuration}) \div Millisecond)
<1> DEFINE flags == TimestampFlags(log, now)
<1>1. DOMAIN <<>> = {}
  OBVIOUS
<1>2. Corrected(log, now) => log.timestamp # ZeroTime
  BY DEF Corrected
<1>3. CASE log.timestamp = ZeroTime
  <2>1. flags = [key \in {TimestampMissing} |-> True]
    BY <1>3 DEF TimestampFlags
  <2>2. DOMAIN flags = {TimestampMissing}
    BY <2>1
  <2> HIDE DEF flags
  <2>3. /\ DOMAIN flags \subseteq Flags /\ TimestampMissing \in DOMAIN flags
        /\ TimestampCorrected \notin DOMAIN flags /\ TimestampSkewMillis \notin DOMAIN flags
    BY <2>2, FlagsDiffer DEF Flags
  <2> QED
    BY <1>2, <1>3, <2>3 DEF flags
<1>4. CASE log.timestamp # ZeroTime /\ Corrected(log, now)
  <2> DEFINE skew == Decimal(Min({log.timestamp - now, MaxDuration}) \div Millisecond)
  <2>1. flags = [key \in {TimestampCorrected, TimestampSkewMillis} |->
                    IF key = TimestampCorrected THEN True ELSE skew]
    BY <1>4 DEF TimestampFlags
  <2> HIDE DEF flags, skew
  <2>2. /\ DOMAIN flags = {TimestampCorrected, TimestampSkewMillis}
        /\ flags[TimestampSkewMillis] = skew
    BY <2>1, FlagsDiffer
  <2>3. /\ DOMAIN flags \subseteq Flags /\ TimestampMissing \notin DOMAIN flags
        /\ TimestampCorrected \in DOMAIN flags /\ TimestampSkewMillis \in DOMAIN flags
    BY <2>2, FlagsDiffer DEF Flags
  <2> QED
    BY <1>4, <2>2, <2>3 DEF flags, skew
<1>5. CASE log.timestamp # ZeroTime /\ ~Corrected(log, now)
  <2>1. flags = <<>>
    BY <1>5 DEF TimestampFlags
  <2> HIDE DEF flags
  <2>2. DOMAIN flags = {}
    BY <1>1, <2>1
  <2> QED
    BY <1>5, <2>2 DEF flags
<1> QED
  BY <1>2, <1>3, <1>4, <1>5

\* The message of a record in the stream.
LEMMA AcceptedMessage ==
    ASSUME NEW parsed, NEW now \in Int, AsMeant(parsed, now),
           NEW then \in Int, NEW later \in Int
    PROVE  LET a == Accepted(Batched(parsed, now), then, later)
               cut == Cut(scenario.said)
           IN  /\ Harmless(cut) => a.message = cut
               /\ ~a.redacted => a.message = cut
               /\ a.level = scenario.severity
<1> DEFINE b == Batched(parsed, now)
           a == Accepted(b, then, later)
           cut == Cut(scenario.said)
<1>1. Sound(parsed) /\ parsed.message = scenario.said /\ parsed.level = scenario.severity
      /\ scenario.severity \in Levels
  BY DEF AsMeant
<1>2. cut = truncateMessage(parsed.message) /\ truncateMessage(cut) = cut /\ cut \in Utf8
  BY <1>1, TruncateIsCut, TruncateText DEF Sound
<1>3. /\ Sound(b) /\ b.message = redactMessage(truncateMessage(parsed.message))
      /\ b.level = NormalizeLevel(parsed.level)
      /\ ~b.redacted => b.message = truncateMessage(parsed.message)
  BY <1>1, BatchedEntries
<1> HIDE DEF b
<1>4. /\ a.message = redactMessage(truncateMessage(b.message))
      /\ a.level = NormalizeLevel(b.level)
      /\ ~a.redacted => a.message = truncateMessage(b.message) /\ ~b.redacted
  BY <1>3, AcceptedEntries
<1> HIDE DEF a, cut
<1>5. Harmless(cut) => redactMessage(cut) = cut
  BY <1>2, HarmlessKept DEF Utf8
<1>6. Harmless(cut) => a.message = cut
  BY <1>2, <1>3, <1>4, <1>5
<1>7. ~a.redacted => a.message = cut
  BY <1>2, <1>3, <1>4
<1>8. a.level = scenario.severity
  BY <1>1, <1>3, <1>4, LevelNames
<1> QED
  BY <1>6, <1>7, <1>8 DEF a, b, cut

\* Its attributes.
Flagged(attributes, parsed, now, batched, then) ==
    DOMAIN attributes = DOMAIN parsed.attributes \cup DOMAIN TimestampFlags(parsed, now)
                            \cup DOMAIN TimestampFlags(batched, then)

Given(attributes) == \A key \in DOMAIN scenario.given : attributes[key] = scenario.given[key]

LEMMA AcceptedAttributes ==
    ASSUME NEW parsed, NEW now \in Int, AsMeant(parsed, now),
           NEW then \in Int, NEW later \in Int
    PROVE  /\ Flagged(Accepted(Batched(parsed, now), then, later).attributes,
                       parsed, now, Batched(parsed, now), then)
           /\ ~Accepted(Batched(parsed, now), then, later).redacted =>
                  Given(Accepted(Batched(parsed, now), then, later).attributes)
<1> DEFINE b == Batched(parsed, now)
           a == Accepted(b, then, later)
           F == TimestampFlags(parsed, now)
           G == TimestampFlags(b, then)
           A == Overwritten(parsed.attributes, F)
           B == Overwritten(b.attributes, G)
<1>1. /\ Sound(parsed) /\ DOMAIN parsed.attributes \cap Flags = {}
      /\ \A key \in DOMAIN scenario.given :
           /\ key \in DOMAIN parsed.attributes
           /\ parsed.attributes[key] = scenario.given[key]
  BY DEF AsMeant
<1>2. /\ Sound(b) /\ b.attributes = [key \in DOMAIN A |-> RedactAttribute(key, A[key])]
      /\ ~b.redacted => b.attributes = A
  BY <1>1, BatchedEntries
<1> HIDE DEF b
<1>3. /\ a.attributes = [key \in DOMAIN B |-> RedactAttribute(key, B[key])]
      /\ ~a.redacted => a.attributes = B /\ ~b.redacted
  BY <1>2, AcceptedEntries
<1>4. DOMAIN F \subseteq Flags /\ DOMAIN G \subseteq Flags
  BY FlagKeys
<1> HIDE DEF a, F, G
<1>5. /\ DOMAIN A = DOMAIN parsed.attributes \cup DOMAIN F
      /\ \A key \in DOMAIN parsed.attributes : key \notin Flags => A[key] = parsed.attributes[key]
  BY <1>4 DEF Overwritten
<1>6. /\ DOMAIN B = DOMAIN b.attributes \cup DOMAIN G
      /\ \A key \in DOMAIN b.attributes : key \notin Flags => B[key] = b.attributes[key]
  BY <1>4 DEF Overwritten
<1> HIDE DEF A, B
<1>7. DOMAIN b.attributes = DOMAIN A /\ DOMAIN a.attributes = DOMAIN B
  BY <1>2, <1>3
<1>8. ASSUME ~a.redacted, NEW key \in DOMAIN scenario.given
      PROVE  a.attributes[key] = scenario.given[key]
  <2>1. key \in DOMAIN parsed.attributes /\ key \notin Flags
        /\ parsed.attributes[key] = scenario.given[key]
    BY <1>1
  <2>2. a.attributes = B /\ b.attributes = A
    BY <1>2, <1>3, <1>8
  <2>3. A[key] = scenario.given[key] /\ key \in DOMAIN b.attributes
    BY <1>5, <1>7, <2>1
  <2>4. B[key] = A[key]
    BY <1>6, <2>1, <2>2, <2>3
  <2> QED
    BY <2>2, <2>3, <2>4
<1>9. DOMAIN a.attributes = DOMAIN parsed.attributes \cup DOMAIN F \cup DOMAIN G
  BY <1>5, <1>6, <1>7
<1>10. ~a.redacted => Given(a.attributes)
  BY <1>8 DEF Given
<1>11. Flagged(a.attributes, parsed, now, b, then)
  BY <1>9 DEF Flagged, F, G
<1> QED
  BY <1>10, <1>11 DEF a, b

\* Its time.
LEMMA AcceptedTime ==
    ASSUME NEW parsed, NEW now \in Int, now >= Millisecond, AsMeant(parsed, now),
           NEW then \in Int, NEW later \in Int
    PROVE  LET a == Accepted(Batched(parsed, now), then, later)
           IN  /\ (scenario.event = ZeroTime) = (TimestampMissing \in DOMAIN a.attributes)
               /\ \/ TimestampMissing \in DOMAIN a.attributes
                  \/ TimestampCorrected \in DOMAIN a.attributes
                  \/ /\ a.timestamp = Truncate(parsed.timestamp)
                     /\ parsed.timestamp <= now + MaxSkew
<1> DEFINE b == Batched(parsed, now)
           a == Accepted(b, then, later)
           F == TimestampFlags(parsed, now)
           G == TimestampFlags(b, then)
<1>1. /\ Sound(parsed) /\ DOMAIN parsed.attributes \cap Flags = {}
      /\ parsed.timestamp \in Int
      /\ (parsed.timestamp = ZeroTime) = (scenario.event = ZeroTime)
      /\ (Truncate(parsed.timestamp) = ZeroTime) = (scenario.event = ZeroTime)
  BY DEF AsMeant, Sound
<1>2. /\ Sound(b)
      /\ b.timestamp = IF parsed.timestamp = ZeroTime \/ Corrected(parsed, now)
                       THEN Truncate(now) ELSE Truncate(parsed.timestamp)
  BY <1>1, BatchedEntries
<1>3. DOMAIN a.attributes = DOMAIN parsed.attributes \cup DOMAIN F \cup DOMAIN G
  <2>1. Flagged(a.attributes, parsed, now, b, then)
    BY AcceptedAttributes
  <2> QED
    BY <2>1 DEF Flagged
<1> HIDE DEF b
<1>4. a.timestamp = IF b.timestamp = ZeroTime \/ Corrected(b, then)
                    THEN Truncate(then) ELSE Truncate(b.timestamp)
  BY <1>2, AcceptedEntries
<1> HIDE DEF a
<1>5. /\ TimestampMissing \in DOMAIN F <=> parsed.timestamp = ZeroTime
      /\ TimestampCorrected \in DOMAIN F <=> Corrected(parsed, now)
      /\ TimestampMissing \in DOMAIN G <=> b.timestamp = ZeroTime
      /\ TimestampCorrected \in DOMAIN G <=> Corrected(b, then)
  BY FlagKeys
<1> HIDE DEF F, G
<1>6. Millisecond \in Nat \ {0} /\ Truncate(ZeroTime) = ZeroTime /\ Truncate(now) # ZeroTime
      /\ Truncate(Truncate(parsed.timestamp)) = Truncate(parsed.timestamp)
  <2>1. Millisecond \in Nat \ {0}
    BY SchemaAssumption
  <2>2. \A m \in Nat \ {0} : 0 - (0 % m) = 0
    OBVIOUS
  <2>3. Truncate(ZeroTime) = ZeroTime
    BY <2>1, <2>2, Zenon DEF Truncate, ZeroTime
  <2>4. Truncate(now) >= Millisecond /\ Truncate(now) \in Int
    BY TruncateFacts
  <2>5. Truncate(now) # ZeroTime
    BY <2>1, <2>4 DEF ZeroTime
  <2> QED
    BY <1>1, <2>1, <2>3, <2>5, TruncateFacts
<1>8. b.timestamp # ZeroTime
  BY <1>1, <1>2, <1>6
<1>9. {TimestampMissing, TimestampCorrected} \cap DOMAIN parsed.attributes = {}
  BY <1>1 DEF Flags
<1>10. TimestampMissing \in DOMAIN a.attributes <=> parsed.timestamp = ZeroTime
  BY <1>3, <1>5, <1>8, <1>9
<1>11. TimestampCorrected \in DOMAIN a.attributes <=> Corrected(parsed, now) \/ Corrected(b, then)
  BY <1>3, <1>5, <1>9
<1>12. ASSUME parsed.timestamp # ZeroTime, ~Corrected(parsed, now), ~Corrected(b, then)
       PROVE  /\ a.timestamp = Truncate(parsed.timestamp)
              /\ parsed.timestamp <= now + MaxSkew
  <2>1. parsed.timestamp <= now + MaxSkew
    BY <1>1, <1>12, SchemaAssumption DEF Corrected
  <2>2. b.timestamp = Truncate(parsed.timestamp)
    BY <1>1, <1>2, <1>12
  <2>3. a.timestamp = Truncate(b.timestamp)
    BY <1>4, <1>8, <1>12
  <2> QED
    BY <1>6, <2>1, <2>2, <2>3
<1> QED
  BY <1>1, <1>10, <1>11, <1>12 DEF a, b

LEMMA AcceptedTimeType ==
    ASSUME NEW parsed, NEW now \in Int, AsMeant(parsed, now),
           NEW then \in Int, NEW later \in Int
    PROVE  Accepted(Batched(parsed, now), then, later).timestamp \in Int
<1> DEFINE b == Batched(parsed, now)
<1>1. Sound(parsed)
  BY DEF AsMeant
<1>2. Sound(b)
  BY <1>1, BatchedEntries
<1> HIDE DEF b
<1>3. b.timestamp \in Int /\ Truncate(then) \in Int
  BY <1>2, TruncateFacts DEF Sound
<1>4. Truncate(b.timestamp) \in Int
  BY <1>3, TruncateFacts
<1>5. Accepted(b, then, later).timestamp \in Int
  BY <1>2, <1>3, <1>4, AcceptedEntries
<1> QED
  BY <1>5 DEF b

\* The skew survives both redactions or is masked.
LEMMA SkewKept ==
    ASSUME NEW key, NEW n \in Nat
    PROVE  /\ RedactAttribute(key, Decimal(n)) \in {Decimal(n), Mask}
           /\ RedactAttribute(key, Mask) = Mask
<1>1. redactMessage(Decimal(n)) \in {Decimal(n), Mask}
  BY DecimalText, DigitsKept
<1>2. redactMessage(Mask) = Mask
  <2>1. Mask \in Seq(Symbol) /\ DOMAIN Mask = 1 .. 2 /\ Len(Mask) = 2
        /\ Mask[1] = Open /\ Mask[2] = Close
    BY DEF Mask, Symbol, Open, Close
  <2>2. Open \notin {Key, Mail} /\ Close \notin {Key, Mail}
    BY DEF Open, Close, Key, Mail
  <2>3. \A i \in DOMAIN Mask : Mask[i] \notin {Key, Mail}
    BY <2>1, <2>2
  <2>4. Harmless(Mask)
    BY <2>3, MaskHasNoCard DEF Harmless
  <2> QED
    BY <2>1, <2>4, HarmlessKept
<1> QED
  BY <1>1, <1>2 DEF RedactAttribute

LEMMA MinOfFirst ==
    ASSUME NEW x \in Int, NEW y \in Int, x <= y
    PROVE  Min({x, y}) = x
<1>1. \A z \in {x, y} : (\A w \in {x, y} : z <= w) => z = x
  OBVIOUS
<1>2. \A w \in {x, y} : x <= w
  OBVIOUS
<1> QED
  BY <1>1, <1>2 DEF Min

\* A time, less the recorded milliseconds and the time put in its place.
LEMMA SkewOnce ==
    ASSUME NEW m \in Nat \ {0}, NEW t \in Int, NEW now \in Int, t > now
    PROVE  LET n == (t - now) \div m
           IN  /\ n \in Nat /\ n <= t - now
               /\ t - ((now - (now % m)) + n * m) \in 0 .. 2 * m - 1
<1> DEFINE a == t - now
           n == a \div m
<1>1. a \in Nat
  OBVIOUS
<1> HIDE DEF a
<1>2. n \in Nat /\ n <= a
  BY <1>1
<1>3. a = m * n + (a % m) /\ a % m \in 0 .. m - 1
  BY <1>1
<1>4. now % m \in 0 .. m - 1
  OBVIOUS
<1> HIDE DEF n
<1> DEFINE r == a % m
           s == now % m
           w == n * m
<1>5. a = w + r /\ r \in 0 .. m - 1 /\ w \in Int
  BY <1>2, <1>3
<1>6. s \in 0 .. m - 1
  BY <1>4
<1> HIDE DEF r, s, w
<1>7. t - ((now - s) + w) = r + s
  BY <1>5, <1>6 DEF a
<1>8. t - ((now - s) + w) \in 0 .. 2 * m - 1
  BY <1>5, <1>6, <1>7
<1> QED
  BY <1>2, <1>8 DEF a, n, s, w

\* The same if the time was truncated once before.
LEMMA SkewTwice ==
    ASSUME NEW m \in Nat \ {0}, NEW t \in Int, NEW u \in Int, NEW then \in Int,
           u % m = 0, t - u \in 0 .. m - 1, u > then
    PROVE  LET n == (u - then) \div m
           IN  /\ n \in Nat /\ n <= u - then
               /\ t - ((then - (then % m)) + n * m) \in 0 .. 2 * m - 1
<1> DEFINE a == u - then
           n == a \div m
<1>1. a \in Nat /\ a + then = u
  OBVIOUS
<1> HIDE DEF a
<1>2. n \in Nat /\ n <= a
  BY <1>1
<1>3. a = m * n + (a % m) /\ a % m \in 0 .. m - 1 /\ then % m \in 0 .. m - 1
  BY <1>1
<1>4. (a % m) + (then % m) \in {0, m}
  <2>1. a \in Int /\ (a + then) % m = 0
    BY <1>1
  <2> QED
    BY <2>1, RemaindersAdd
<1> HIDE DEF n
<1> DEFINE r == a % m
           s == then % m
           w == n * m
<1>5. a = w + r /\ r \in Int /\ s \in Int /\ w \in Int /\ r + s \in {0, m}
  BY <1>2, <1>3, <1>4
<1> HIDE DEF r, s, w
<1>6. t - ((then - s) + w) = (t - u) + (r + s)
  BY <1>1, <1>5
<1>7. t - ((then - s) + w) \in 0 .. 2 * m - 1
  BY <1>5, <1>6
<1> QED
  BY <1>2, <1>7 DEF a, n, s, w

\* And the skew, from the agent's correction or from that of ingest.
LEMMA AcceptedSkew ==
    ASSUME NEW parsed, NEW now \in Int, now >= Millisecond, AsMeant(parsed, now),
           NEW then \in Int, NEW later \in Int,
           scenario.event # ZeroTime,
           parsed.timestamp - now <= MaxDuration, parsed.timestamp - then <= MaxDuration,
           now <= then + MaxSkew,
           TimestampCorrected \in DOMAIN Accepted(Batched(parsed, now), then, later).attributes
    PROVE  LET a == Accepted(Batched(parsed, now), then, later)
               skew == a.attributes[TimestampSkewMillis]
           IN  \/ skew = Mask
               \/ \E n \in 0 .. MaxDuration :
                      /\ Decimal(n) = skew
                      /\ parsed.timestamp - (a.timestamp + n * Millisecond)
                             \in 0 .. 2 * Millisecond - 1
<1> DEFINE b == Batched(parsed, now)
           a == Accepted(b, then, later)
           F == TimestampFlags(parsed, now)
           G == TimestampFlags(b, then)
           A == Overwritten(parsed.attributes, F)
           B == Overwritten(b.attributes, G)
           k == TimestampSkewMillis
           t == parsed.timestamp
           u == Truncate(t)
<1>1. /\ Sound(parsed) /\ DOMAIN parsed.attributes \cap Flags = {}
      /\ parsed.timestamp = t /\ t \in Int /\ u # ZeroTime
  BY DEF AsMeant, Sound
<1>2. /\ Sound(b)
      /\ b.attributes = [key \in DOMAIN A |-> RedactAttribute(key, A[key])]
      /\ b.timestamp = IF parsed.timestamp = ZeroTime \/ Corrected(parsed, now)
                       THEN Truncate(now) ELSE u
  BY <1>1, BatchedEntries
<1>a. DOMAIN a.attributes = DOMAIN parsed.attributes \cup DOMAIN F \cup DOMAIN G
  <2>1. Flagged(a.attributes, parsed, now, b, then)
    BY AcceptedAttributes
  <2> QED
    BY <2>1 DEF Flagged
<1>b. TimestampCorrected \in DOMAIN a.attributes
  OBVIOUS
<1> HIDE DEF b
<1>3. /\ a.attributes = [key \in DOMAIN B |-> RedactAttribute(key, B[key])]
      /\ a.timestamp = IF b.timestamp = ZeroTime \/ Corrected(b, then)
                       THEN Truncate(then) ELSE Truncate(b.timestamp)
  BY <1>2, AcceptedEntries
<1>4. /\ DOMAIN F \subseteq Flags /\ DOMAIN G \subseteq Flags
      /\ TimestampCorrected \in DOMAIN F <=> Corrected(parsed, now)
      /\ TimestampCorrected \in DOMAIN G <=> Corrected(b, then)
      /\ k \in DOMAIN F <=> Corrected(parsed, now)
      /\ k \in DOMAIN G <=> Corrected(b, then)
      /\ Corrected(parsed, now) =>
            F[k] = Decimal(Min({parsed.timestamp - now, MaxDuration}) \div Millisecond)
      /\ Corrected(b, then) =>
            G[k] = Decimal(Min({b.timestamp - then, MaxDuration}) \div Millisecond)
  BY FlagKeys
<1> HIDE DEF a, F, G
<1>6. Corrected(parsed, now) \/ Corrected(b, then)
  BY <1>1, <1>4, <1>a, <1>b DEF Flags
<1>7. /\ DOMAIN A = DOMAIN parsed.attributes \cup DOMAIN F
      /\ k \in DOMAIN F => A[k] = F[k]
  BY DEF Overwritten
<1>8. /\ DOMAIN B = DOMAIN b.attributes \cup DOMAIN G
      /\ k \in DOMAIN G => B[k] = G[k]
      /\ k \notin DOMAIN G /\ k \in DOMAIN b.attributes => B[k] = b.attributes[k]
  BY DEF Overwritten
<1>9. /\ Millisecond \in Nat \ {0} /\ MaxSkew \in Nat /\ MaxDuration \in Nat
      /\ Truncate(now) \in Int /\ Truncate(now) >= Millisecond /\ Truncate(now) <= now
      /\ Truncate(Truncate(now)) = Truncate(now)
      /\ u \in Int /\ u % Millisecond = 0 /\ t - u \in 0 .. Millisecond - 1
  BY <1>1, SchemaAssumption, TruncateFacts
<1> HIDE DEF A, B, k, t, u
<1>10. CASE Corrected(parsed, now)
  <2> DEFINE n == (t - now) \div Millisecond
  <2>1. t > now /\ t - now <= MaxDuration /\ t - now \in Int
    BY <1>1, <1>9, <1>10 DEF Corrected, t
  <2>2. /\ n \in Nat /\ n <= t - now
        /\ t - (Truncate(now) + n * Millisecond) \in 0 .. 2 * Millisecond - 1
    BY <1>1, <1>9, <2>1, SkewOnce DEF Truncate
  <2>3. F[k] = Decimal(n)
    BY <1>1, <1>4, <1>9, <1>10, <2>1, MinOfFirst
  <2> HIDE DEF n
  <2>4. n \in 0 .. MaxDuration
    BY <1>9, <2>1, <2>2
  <2>5. k \in DOMAIN b.attributes /\ b.attributes[k] \in {Decimal(n), Mask}
    BY <1>2, <1>4, <1>7, <1>10, <2>2, <2>3, SkewKept
  <2>6. b.timestamp = Truncate(now) /\ b.timestamp # ZeroTime
    BY <1>2, <1>9, <1>10 DEF ZeroTime
  <2>7. ~Corrected(b, then)
    BY <1>9, <2>6 DEF Corrected
  <2>8. B[k] \in {Decimal(n), Mask} /\ k \in DOMAIN B
    BY <1>4, <1>8, <2>5, <2>7
  <2>9. a.attributes[k] \in {Decimal(n), Mask}
    BY <1>3, <2>2, <2>8, SkewKept
  <2>10. a.timestamp = Truncate(now)
    BY <1>3, <1>9, <2>6, <2>7
  <2> QED
    BY <2>2, <2>4, <2>9, <2>10 DEF a, b, k, t
<1>11. CASE ~Corrected(parsed, now)
  <2> DEFINE n == (u - then) \div Millisecond
  <2>1. Corrected(b, then)
    BY <1>6, <1>11
  <2>2. b.timestamp = u
    <3>1. Truncate(ZeroTime) = ZeroTime
      <4>1. \A m \in Nat \ {0} : 0 - (0 % m) = 0
        OBVIOUS
      <4> QED
        BY <1>9, <4>1, Zenon DEF Truncate, ZeroTime
    <3>2. t # ZeroTime
      BY <1>1, <3>1 DEF u
    <3> QED
      BY <1>1, <1>2, <1>11, <3>2
  <2>3. u > then /\ u - then <= MaxDuration /\ u - then \in Int
    BY <1>1, <1>9, <2>1, <2>2 DEF Corrected, t
  <2>4. /\ n \in Nat /\ n <= u - then
        /\ t - (Truncate(then) + n * Millisecond) \in 0 .. 2 * Millisecond - 1
    BY <1>1, <1>9, <2>3, SkewTwice DEF Truncate
  <2>5. G[k] = Decimal(n)
    BY <1>4, <1>9, <2>1, <2>2, <2>3, MinOfFirst
  <2> HIDE DEF n
  <2>6. n \in 0 .. MaxDuration
    BY <1>9, <2>3, <2>4
  <2>7. B[k] = Decimal(n) /\ k \in DOMAIN B
    BY <1>4, <1>8, <2>1, <2>5
  <2>8. a.attributes[k] \in {Decimal(n), Mask}
    BY <1>3, <2>4, <2>7, SkewKept
  <2>9. a.timestamp = Truncate(then)
    BY <1>3, <2>1
  <2> QED
    BY <2>4, <2>6, <2>8, <2>9 DEF a, b, k, t
<1> QED
  BY <1>10, <1>11

-----------------------------------------------------------------------------
(***************************************************************************)
(* A record is kept from the disk, or rejected by ingest, for its own      *)
(* sake.                                                                   *)
(***************************************************************************)
LEMMA BatchedStuck ==
    ASSUME NEW parsed, NEW now \in Int, now >= Millisecond, Encodable(now),
           AsMeant(parsed, now),
           \/ ~Encodable(Batched(parsed, now).timestamp)
           \/ ~Encodable(Batched(parsed, now).ingested_at)
    PROVE  \E time \in scenario.claims : ~Encodable(Truncate(time))
<1> DEFINE b == Batched(parsed, now)
<1>1. /\ Sound(parsed)
      /\ \A time \in {parsed.timestamp, parsed.ingested_at} :
           \/ Encodable(Truncate(time))
           \/ \E claim \in scenario.claims : ~Encodable(Truncate(claim))
  BY DEF AsMeant
<1>2. /\ b.timestamp = IF parsed.timestamp = ZeroTime \/ Corrected(parsed, now)
                       THEN Truncate(now) ELSE Truncate(parsed.timestamp)
      /\ b.ingested_at = IF parsed.ingested_at = ZeroTime
                         THEN Truncate(now) ELSE Truncate(parsed.ingested_at)
  BY <1>1, BatchedEntries
<1>3. ~Encodable(b.timestamp) \/ ~Encodable(b.ingested_at)
  OBVIOUS
<1> HIDE DEF b
<1>4. Encodable(Truncate(now))
  BY EncodableClock
<1> QED
  BY <1>1, <1>2, <1>3, <1>4

LEMMA BatchedIncomplete ==
    ASSUME NEW parsed, NEW now \in Int, AsMeant(parsed, now),
           Incomplete(Identified(Batched(parsed, now)))
    PROVE  \/ config.host \in {"", " "} \/ config.env \in {"", " "}
           \/ IsBlank(Cut(scenario.said))
<1> DEFINE b == Batched(parsed, now)
           d == Identified(b)
<1>1. Sound(parsed) /\ parsed.message = scenario.said
  BY DEF AsMeant
<1>2. /\ Sound(b) /\ b.host = config.host /\ b.env = config.env
      /\ b.message = redactMessage(truncateMessage(parsed.message))
  BY <1>1, BatchedEntries
<1>3. Incomplete(d)
  OBVIOUS
<1> HIDE DEF b
<1>4. /\ d.service = "service" /\ d.retention_days = 1
      /\ d.host = b.host /\ d.env = b.env /\ d.message = b.message
  BY <1>2 DEF Identified, Sound, Entries
<1> HIDE DEF d
<1>5. \/ config.host \in {"", " "} \/ config.env \in {"", " "} \/ IsBlank(b.message)
  <2>1. "service" # "" /\ 1 # 0
    OBVIOUS
  <2> QED
    BY <1>2, <1>3, <1>4, <2>1, Zenon DEF Incomplete
<1>6. scenario.said \in Utf8
  BY <1>1 DEF Sound
<1>7. Cut(scenario.said) = truncateMessage(parsed.message) /\ Cut(scenario.said) \in Seq(Symbol)
  BY <1>1, <1>6, TruncateIsCut, TruncateText DEF Utf8
<1>8. IsBlank(b.message) => IsBlank(Cut(scenario.said))
  BY <1>2, <1>7, RedactNotBlank
<1> QED
  BY <1>5, <1>8

\* What LoadConfig makes of the configured names.
LEMMA ConfigNames ==
    ASSUME NEW c, {"files", "host", "env", "min_level"} \subseteq DOMAIN c
    PROVE  /\ Normalized(applyDefaults(c)).host = OrDefault(c.host, "", Hostname)
           /\ Normalized(applyDefaults(c)).env = OrDefault(c.env, "", "development")
           /\ Normalized(applyDefaults(c)).min_level \in Levels
<1> DEFINE d == applyDefaults(c)
<1>1. /\ {"files", "host", "env", "min_level"} \subseteq DOMAIN d
      /\ d.host = OrDefault(c.host, "", Hostname)
      /\ d.env = OrDefault(c.env, "", "development")
  BY DEF applyDefaults
<1> HIDE DEF d
<1>2. /\ Normalized(d).host = d.host /\ Normalized(d).env = d.env
      /\ Normalized(d).min_level = NormalizeLevel(d.min_level)
  BY <1>1 DEF Normalized
<1> QED
  BY <1>1, <1>2, LevelNames DEF d

-----------------------------------------------------------------------------
(***************************************************************************)
(* The invariant: where the line is read as it was meant, the record of    *)
(* the batch is what normalisation and redaction make of such a record,    *)
(* and the one in the stream what ingest makes of that.                    *)
(***************************************************************************)
\* What the filter lets through.
Passes ==
    /\ ~(LevelRank(scenario.severity) < LevelRank(scenario.min))
    /\ scenario.percent[scenario.severity] > 0

Dropped ==
    \/ LevelRank(scenario.severity) < LevelRank(scenario.min)
    \/ scenario.percent[scenario.severity] < 100

\* What is known of the configuration in force, of the writer's levels, of the
\* record of the batch and of the one in the stream.
Named ==
    /\ config.host = OrDefault(scenario.config.host, "", Hostname)
    /\ config.env = OrDefault(scenario.config.env, "", "development")
    /\ config.min_level \in Levels

Leveled == scenario.min \in Levels /\ scenario.severity \in Levels

Origin(log) ==
    \E parsed : \E now \in scenario.clocks :
        now = readAt /\ AsMeant(parsed, now) /\ log = Batched(parsed, now)

InStream(stored, then) ==
    \E log : \E later \in Int : Origin(log) /\ stored = Accepted(log, then, later)

MeantInv ==
    /\ PipelineInv
    /\ phase \notin {"config", "refused"} => Named
    /\ phase \notin {"config", "refused", "read"} => Leveled
    /\ phase = "filtered" => Dropped
    /\ phase \in {"batched", "buffered", "stuck", "rejected", "stored"} => Passes
    /\ phase \in {"batched", "buffered", "stuck", "rejected"} =>
           \E log : log = record /\ Origin(log)
    /\ phase = "stored" =>
           \E stored : \E then \in scenario.clocks :
               stored = record /\ then = ingestAt /\ InStream(stored, then)
    /\ phase = "stuck" => ~Encodable(record.timestamp) \/ ~Encodable(record.ingested_at)
    /\ phase = "rejected" => Incomplete(Identified(record))

LEMMA MeantInit == Init => MeantInv
<1>1. SUFFICES ASSUME Init PROVE MeantInv
  OBVIOUS
<1>2. phase = "config"
  BY <1>1 DEF Init
<1> QED
  BY <1>1, <1>2, PipelineInit DEF MeantInv

\* As long as the scenario, the configuration and the reading stay.
LEMMA FactsKept ==
    ASSUME UNCHANGED <<scenario, config, readAt>>
    PROVE  /\ Named => Named'
           /\ Leveled => Leveled'
           /\ Dropped => Dropped'
           /\ Passes => Passes'
           /\ \A log : Origin(log) => Origin(log)'
<1>1. scenario' = scenario /\ config' = config /\ readAt' = readAt
  OBVIOUS
<1>2. /\ Named => Named'
      /\ Leveled => Leveled'
      /\ Dropped => Dropped'
      /\ Passes => Passes'
  BY <1>1 DEF Named, Leveled, Dropped, Passes
<1>3. ASSUME NEW log, Origin(log) PROVE Origin(log)'
  <2>1. PICK parsed : \E now \in scenario.clocks :
          now = readAt /\ AsMeant(parsed, now) /\ log = Batched(parsed, now)
    BY <1>3 DEF Origin
  <2>2. PICK now \in scenario.clocks :
          now = readAt /\ AsMeant(parsed, now) /\ log = Batched(parsed, now)
    BY <2>1
  <2>3. AsMeant(parsed, now)'
    BY <1>1, <2>2 DEF AsMeant, ClaimedAt, Zone, Margin, StatesMillis
  <2>4. log = Batched(parsed, now)'
    BY <1>1, <2>2 DEF Batched
  <2>5. now \in scenario'.clocks /\ now = readAt'
    BY <1>1, <2>2
  <2> QED
    BY <2>3, <2>4, <2>5 DEF Origin
<1> QED
  BY <1>2, <1>3

Understood(parsed, now) ==
    /\ AsMeant(parsed, now)
    /\ Parsed(now) = NormalizeFieldsAt(
                         [parsed EXCEPT !.host = config.host, !.env = config.env], now)
    /\ Parsed(now).level = scenario.severity
    /\ Leveled /\ config.min_level = scenario.min
    /\ SamplingPercentage(config, scenario.severity) = scenario.percent[scenario.severity]

\* The record of a line that is read is as meant, and so is its filter.
LEMMA ReadMeans ==
    ASSUME MeantInv, ReadAsMeant, phase = "read", NEW now \in scenario.clocks
    PROVE  Understood(ParseLine(scenario.line, config.files[1], now), now)
<1> DEFINE parsed == ParseLine(scenario.line, config.files[1], now)
           read == [parsed EXCEPT !.host = config.host, !.env = config.env]
<1>1. /\ now \in Int /\ config.files[1].location \in Int /\ WellFormedLine(scenario.line)
      /\ config.min_level \in Levels
  BY DEF MeantInv, PipelineInv, Named
<1>2. Sound(parsed) /\ parsed.level \in Levels
  BY <1>1, ParseLineSound
<1>3. AsMeant(parsed, now)
  <2>1. Zone \in Int
    BY <1>1 DEF Zone
  <2>2. scenario.event \in Int
    BY PipelineAssumption DEF MeantInv, PipelineInv
  <2> QED
    BY <1>2, <2>1, <2>2 DEF ReadAsMeant, AsMeant, Flags
<1>4. /\ config.min_level = scenario.min
      /\ \A level \in Levels : SamplingPercentage(config, level) = scenario.percent[level]
  BY DEF ReadAsMeant
<1>5. parsed.level = scenario.severity
  BY <1>3 DEF AsMeant
<1>6. Parsed(now) = NormalizeFieldsAt(read, now)
  BY DEF Parsed
<1> HIDE DEF parsed
<1>7. Sound(read) /\ read.level = parsed.level
  BY <1>2 DEF Sound, Entries
<1> HIDE DEF read
<1>8. Parsed(now).level = NormalizeLevel(parsed.level)
  BY <1>6, <1>7, NormalizeEntries
<1>9. Parsed(now).level = scenario.severity /\ scenario.severity \in Levels
  BY <1>2, <1>5, <1>8, LevelNames
<1>10. Understood(parsed, now)
  BY <1>1, <1>3, <1>4, <1>6, <1>9 DEF read, Understood, Leveled
<1> QED
  BY <1>10 DEF parsed

\* As long as what is read is what was meant, every step keeps the invariant.
LEMMA MeantStep ==
    ASSUME MeantInv, ReadAsMeant, [Next]_vars
    PROVE  MeantInv'
<1>0. PipelineInv' /\ PipelineInv
  BY PipelineStep DEF MeantInv
<1>1. CASE LoadConfig
  <2>1. /\ scenario' = scenario /\ phase' = "read"
        /\ config' = Normalized(applyDefaults(scenario.config))
    BY <1>0, <1>1 DEF LoadConfig, PipelineInv
  <2>2. Named'
    BY <1>0, <2>1, ConfigNames DEF PipelineInv, Named
  <2> QED
    BY <1>0, <2>1, <2>2 DEF MeantInv
<1>2. CASE LoadConfigFails
  BY <1>0, <1>2 DEF LoadConfigFails, MeantInv
<1>3. ASSUME NEW now \in scenario.clocks, Filter(now) PROVE MeantInv'
  <2> DEFINE parsed == ParseLine(scenario.line, config.files[1], now)
  <2>1. /\ phase = "read" /\ phase' = "filtered" /\ UNCHANGED <<scenario, config, readAt>>
        /\ BelowMinLevel(Parsed(now)) \/ MayDrop(Parsed(now))
    BY <1>3 DEF Filter
  <2>2. Understood(parsed, now)
    BY <2>1, ReadMeans
  <2> HIDE DEF parsed
  <2>3. Leveled /\ Dropped
    BY <2>1, <2>2 DEF BelowMinLevel, MayDrop, Dropped, Understood
  <2>4. Leveled' /\ Dropped' /\ Named'
    BY <2>1, <2>3, FactsKept DEF MeantInv
  <2> QED
    BY <1>0, <2>1, <2>4 DEF MeantInv
<1>4. ASSUME NEW now \in scenario.clocks, Keep(now) PROVE MeantInv'
  <2>1. /\ phase = "read" /\ phase' = "batched" /\ scenario' = scenario /\ config' = config
        /\ ~BelowMinLevel(Parsed(now)) /\ MayKeep(Parsed(now))
        /\ record' = Redact(Parsed(now)) /\ readAt' = now
    BY <1>4 DEF Keep
  <2>2. PICK parsed : Understood(parsed, now)
    BY <2>1, ReadMeans
  <2>3. Leveled' /\ Passes' /\ Named'
    BY <2>1, <2>2 DEF BelowMinLevel, MayKeep, Passes, Understood, Leveled, Named, MeantInv
  <2>4. AsMeant(parsed, now) /\ record' = Batched(parsed, now)
    BY <2>1, <2>2 DEF Understood, Batched
  <2>5. PICK log : log = record'
    OBVIOUS
  <2>6. AsMeant(parsed, now)'
    BY <2>1, <2>4 DEF AsMeant, ClaimedAt, Zone, Margin, StatesMillis
  <2>7. log = Batched(parsed, now)'
    BY <2>1, <2>4, <2>5 DEF Batched
  <2>8. now \in scenario'.clocks /\ now = readAt'
    BY <2>1
  <2>9. Origin(log)'
    BY <2>6, <2>7, <2>8 DEF Origin
  <2> QED
    BY <1>0, <2>1, <2>3, <2>5, <2>9 DEF MeantInv
<1>5. CASE WriteBatch
  <2>1. /\ phase = "batched" /\ phase' \in {"buffered", "stuck"}
        /\ phase' = "stuck" => ~Encodable(record.timestamp) \/ ~Encodable(record.ingested_at)
        /\ UNCHANGED <<scenario, config, readAt>> /\ record' = record
    BY <1>5 DEF WriteBatch
  <2>2. Named' /\ Leveled' /\ Passes' /\ \E log : log = record' /\ Origin(log)'
    BY <2>1, FactsKept DEF MeantInv
  <2> QED
    BY <1>0, <2>1, <2>2 DEF MeantInv
<1>6. ASSUME NEW now \in scenario.clocks, NEW later \in {t \in scenario.clocks : t >= now},
             Ingest(now, later)
      PROVE  MeantInv'
  <2>1. /\ phase = "buffered" /\ phase' = "stored" /\ UNCHANGED <<scenario, config, readAt>>
        /\ record' = Accepted(record, now, later) /\ ingestAt' = now
    BY <1>6 DEF Ingest, Accepted
  <2>2. Origin(record) /\ later \in Int
    BY <1>0, <2>1 DEF MeantInv, PipelineInv
  <2>3. PICK log : log = record /\ Origin(log)
    BY <2>1 DEF MeantInv
  <2>4. Named' /\ Leveled' /\ Passes' /\ Origin(log)'
    BY <2>1, <2>3, FactsKept DEF MeantInv
  <2>5. PICK stored : stored = Accepted(log, now, later)
    OBVIOUS
  <2>6. InStream(stored, now)'
    BY <2>2, <2>4, <2>5 DEF InStream
  <2>7. stored = record' /\ now \in scenario'.clocks
    BY <2>1, <2>3, <2>5
  <2> QED
    BY <1>0, <2>1, <2>4, <2>6, <2>7 DEF MeantInv
<1>7. CASE Reject
  <2>1. /\ phase = "buffered" /\ phase' = "rejected" /\ Incomplete(Identified(record))
        /\ UNCHANGED <<scenario, config, readAt>> /\ record' = record
    BY <1>7 DEF Reject
  <2>2. Named' /\ Leveled' /\ Passes' /\ \E log : log = record' /\ Origin(log)'
    BY <2>1, FactsKept DEF MeantInv
  <2> QED
    BY <1>0, <2>1, <2>2 DEF MeantInv
<1>8. CASE Rest \/ UNCHANGED vars
  <2>1. /\ UNCHANGED <<scenario, config, readAt>> /\ phase' = phase
        /\ record' = record /\ ingestAt' = ingestAt /\ scenario' = scenario
    BY <1>8 DEF Rest, vars
  <2>2. /\ Named => Named'
        /\ Leveled => Leveled'
        /\ Dropped => Dropped'
        /\ Passes => Passes'
        /\ \A log : Origin(log) => Origin(log)'
    BY <2>1, FactsKept
  <2>3. ASSUME phase \in {"batched", "buffered", "stuck", "rejected"}
        PROVE  \E log : log = record' /\ Origin(log)'
    <3>1. PICK log : log = record /\ Origin(log)
      BY <2>3 DEF MeantInv
    <3> QED
      BY <2>1, <2>2, <3>1
  <2>4. ASSUME phase = "stored"
        PROVE  \E stored : \E then \in scenario'.clocks :
                   stored = record' /\ then = ingestAt' /\ InStream(stored, then)'
    <3>1. PICK stored : \E then \in scenario.clocks :
                   stored = record /\ then = ingestAt /\ InStream(stored, then)
      BY <2>4 DEF MeantInv
    <3>2. PICK then \in scenario.clocks :
                   stored = record /\ then = ingestAt /\ InStream(stored, then)
      BY <3>1
    <3>3. PICK log : \E later \in Int : Origin(log) /\ stored = Accepted(log, then, later)
      BY <3>2 DEF InStream
    <3>4. InStream(stored, then)'
      BY <2>2, <3>3 DEF InStream
    <3> QED
      BY <2>1, <3>2, <3>4
  <2>5. phase' = "stuck" => ~Encodable(record'.timestamp) \/ ~Encodable(record'.ingested_at)
    BY <2>1 DEF MeantInv
  <2>6. phase' = "rejected" => Incomplete(Identified(record'))
    BY <2>1 DEF MeantInv
  <2>7. /\ phase' \notin {"config", "refused"} => Named'
        /\ phase' \notin {"config", "refused", "read"} => Leveled'
        /\ phase' = "filtered" => Dropped'
        /\ phase' \in {"batched", "buffered", "stuck", "rejected", "stored"} => Passes'
    BY <2>1, <2>2 DEF MeantInv
  <2> QED
    BY <1>0, <2>1, <2>3, <2>4, <2>5, <2>6, <2>7 DEF MeantInv
<1> QED
  BY <1>1, <1>2, <1>3, <1>4, <1>5, <1>6, <1>7, <1>8 DEF Next

\* Of all behaviours in which what is read is what was meant.
LEMMA MeantAlways == Spec /\ []ReadAsMeant => []MeantInv
<1>1. MeantInv /\ ReadAsMeant /\ [Next]_vars => MeantInv'
  BY MeantStep
<1> QED
  BY MeantInit, <1>1, PTL DEF Spec

-----------------------------------------------------------------------------
(***************************************************************************)
(* The theorems.                                                           *)
(***************************************************************************)
LEMMA ClocksRun ==
    ASSUME MeantInv, NEW t \in scenario.clocks
    PROVE  t \in Int /\ t >= Millisecond /\ Encodable(t)
<1>1. \E i \in DOMAIN Scenarios : scenario \in Scenarios[i]
  BY DEF MeantInv, PipelineInv
<1> QED
  BY <1>1, PipelineAssumption

\* Where a record in the stream comes from.
StoredAs(log, parsed, later) ==
    /\ log = record /\ log = Accepted(Batched(parsed, readAt), ingestAt, later)
    /\ AsMeant(parsed, readAt)
    /\ readAt \in Int /\ readAt >= Millisecond /\ ingestAt \in Int /\ later \in Int

LEMMA StoredFrom ==
    ASSUME MeantInv, Stored
    PROVE  Passes /\ Leveled /\ \E log, parsed, later : StoredAs(log, parsed, later)
<1>1. phase = "stored"
  BY DEF Stored
<1>2. Passes /\ Leveled
  BY <1>1 DEF MeantInv
<1>3. PICK stored : \E then \in scenario.clocks :
          stored = record /\ then = ingestAt /\ InStream(stored, then)
  BY <1>1 DEF MeantInv
<1>4. PICK then \in scenario.clocks :
          stored = record /\ then = ingestAt /\ InStream(stored, then)
  BY <1>3
<1>5. PICK log : \E later \in Int : Origin(log) /\ stored = Accepted(log, then, later)
  BY <1>4 DEF InStream
<1>6. PICK later \in Int : Origin(log) /\ stored = Accepted(log, then, later)
  BY <1>5
<1>7. PICK parsed : \E now \in scenario.clocks :
          now = readAt /\ AsMeant(parsed, now) /\ log = Batched(parsed, now)
  BY <1>6 DEF Origin
<1>8. PICK now \in scenario.clocks :
          now = readAt /\ AsMeant(parsed, now) /\ log = Batched(parsed, now)
  BY <1>7
<1>9. now \in Int /\ now >= Millisecond /\ then \in Int
  BY ClocksRun
<1>10. StoredAs(stored, parsed, later)
  BY <1>4, <1>6, <1>8, <1>9 DEF StoredAs
<1> QED
  BY <1>2, <1>10

\* "Credit-card numbers are redacted only when they pass the Luhn check": where
\* what is read is what was meant, a message without anything sensitive is
\* stored as it is, up to its length.
THEOREM HarmlessMessagesAreKept == Spec /\ []ReadAsMeant => []OnlySensitiveMasked
<1>1. ASSUME MeantInv PROVE OnlySensitiveMasked
  <2>1. SUFFICES ASSUME Stored, Harmless(Cut(scenario.said))
                 PROVE  record.message = Cut(scenario.said)
    BY DEF OnlySensitiveMasked
  <2>2. PICK log, parsed, later : StoredAs(log, parsed, later)
    BY <1>1, <2>1, StoredFrom
  <2>3. Harmless(Cut(scenario.said)) => log.message = Cut(scenario.said)
    BY <2>2, AcceptedMessage DEF StoredAs
  <2> QED
    BY <2>1, <2>2, <2>3 DEF StoredAs
<1> QED
  BY <1>1, MeantAlways, PTL

\* "Redacted logs have redacted set to true": where what is read is what was
\* meant, a stored record without the flag has the message and the attributes
\* that were written.
THEOREM UnflaggedIsUntouched == Spec /\ []ReadAsMeant => []UnflaggedUntouched
<1>1. ASSUME MeantInv PROVE UnflaggedUntouched
  <2>1. SUFFICES ASSUME Stored, ~record.redacted
                 PROVE  /\ record.message = Cut(scenario.said)
                        /\ \A key \in DOMAIN scenario.given :
                               record.attributes[key] = scenario.given[key]
    BY DEF UnflaggedUntouched
  <2>2. PICK log, parsed, later : StoredAs(log, parsed, later)
    BY <1>1, <2>1, StoredFrom
  <2>3. ~log.redacted => log.message = Cut(scenario.said)
    BY <2>2, AcceptedMessage DEF StoredAs
  <2>4. ~log.redacted => Given(log.attributes)
    BY <2>2, AcceptedAttributes DEF StoredAs
  <2> QED
    BY <2>1, <2>2, <2>3, <2>4 DEF StoredAs, Given
<1> QED
  BY <1>1, MeantAlways, PTL

\* A date without a year, read in the year after that of the event, is later
\* than the reading, by more than the tolerance.
LEMMA DateAhead ==
    ASSUME NEW event \in Int, NEW now \in Int, NEW zone \in Int,
           event <= now, now + MaxSkew < event + Year
    PROVE  LET years == YearOf(now + zone) - YearOf(event + zone)
           IN  years = 0 \/ (years = 1 /\ event + Year * years > now + MaxSkew)
<1>1. Year \in Nat \ {0} /\ MaxSkew \in Nat
  BY SchemaAssumption
<1> DEFINE s == event + zone
           t == now + zone
<1>2. s \in Int /\ t \in Int /\ s <= t /\ t <= s + Year
  BY <1>1
<1>3. YearOf(t) - YearOf(s) = (t \div Year) - (s \div Year)
  BY <1>1, <1>2 DEF YearOf
<1> HIDE DEF s, t
<1>4. s \div Year <= t \div Year /\ t \div Year <= (s + Year) \div Year
  BY <1>1, <1>2, QuotientMonotone
<1>5. (s + Year) \div Year = (s \div Year) + 1
  <2>1. Year % Year = 0 /\ Year \div Year = 1
    BY <1>1
  <2> QED
    BY <1>1, <1>2, <2>1, QuotientOfSum
<1>6. s \div Year \in Int /\ t \div Year \in Int
  BY <1>1, <1>2
<1>7. YearOf(t) - YearOf(s) \in {0, 1}
  BY <1>3, <1>4, <1>5, <1>6
<1>8. event + Year * 1 > now + MaxSkew
  BY <1>1
<1> QED
  BY <1>7, <1>8 DEF s, t

MarginOf == Margin \in 0 .. Millisecond - 1

LEMMA MarginSmall == MarginOf
<1>1. Millisecond - 1 \in 0 .. Millisecond - 1 /\ 0 \in 0 .. Millisecond - 1
  BY SchemaAssumption
<1> QED
  BY <1>1 DEF Margin, MarginOf

\* The instant that is read is the one the writer meant, unless it is corrected.
LEMMA MeantIfAccepted ==
    ASSUME NEW parsed, readAt \in Int, AsMeant(parsed, readAt), scenario.event # ZeroTime,
           parsed.timestamp <= readAt + MaxSkew
    PROVE  /\ Meant \in Int /\ Margin \in Nat
           /\ Meant - Margin <= parsed.timestamp /\ parsed.timestamp <= Meant + Margin
<1> DEFINE years == YearOf(readAt + Zone) - YearOf(scenario.event + Zone)
<1>1. /\ Zone \in Int /\ scenario.event \in Int /\ parsed.timestamp \in Int
      /\ parsed.timestamp - Claimed \in -Margin .. Margin
  BY DEF AsMeant, Sound, Claimed
<1>2. Margin \in Nat /\ Year \in Nat /\ MaxSkew \in Nat
  BY MarginSmall, SchemaAssumption DEF MarginOf
<1>3. years \in Int
  BY <1>1, SchemaAssumption DEF YearOf
<1>4. Claimed = IF scenario.line.shape = "syslog" THEN scenario.event + Year * years
                                                  ELSE scenario.event
  BY DEF Claimed, ClaimedAt
<1> HIDE DEF years
<1>5. Claimed \in Int
  <2>1. scenario.event + Year * years \in Int
    BY <1>1, <1>2, <1>3
  <2> QED
    BY <1>1, <1>4, <2>1
<1>6. Meant = Claimed
  <2>1. CASE scenario.line.shape # "syslog"
    BY <1>4, <2>1 DEF Meant
  <2>2. CASE scenario.line.shape = "syslog"
    <3>1. Margin = 0
      BY <2>2 DEF Margin, StatesMillis
    <3>2. parsed.timestamp = scenario.event + Year * years
      BY <1>1, <1>4, <1>5, <2>2, <3>1
    <3>3. ASSUME scenario.event <= readAt, readAt + MaxSkew < scenario.event + Year
          PROVE  scenario.event = Claimed
      <4>1. years = 0 \/ scenario.event + Year * years > readAt + MaxSkew
        BY <1>1, <3>3, DateAhead DEF years
      <4>2. years = 0
        BY <1>1, <1>2, <1>5, <3>2, <4>1
      <4>3. Year * 0 = 0
        BY <1>2
      <4> QED
        BY <1>1, <1>4, <2>2, <4>2, <4>3
    <3> QED
      BY <3>3 DEF Meant
  <2> QED
    BY <2>1, <2>2
<1> QED
  BY <1>1, <1>2, <1>5, <1>6

\* "Event time in UTC with millisecond precision": where what is read is what
\* was meant, an instant that is not flagged is the one the writer meant, or
\* for milliseconds since 1970 perhaps the millisecond before, and a line
\* without one is flagged.
THEOREM TimestampsAreHonest == Spec /\ []ReadAsMeant => []TimestampHonest
<1>1. ASSUME MeantInv PROVE TimestampHonest
  <2>1. SUFFICES ASSUME Stored
                 PROVE  /\ (scenario.event = ZeroTime) = Has(TimestampMissing)
                        /\ \/ Has(TimestampMissing) \/ Has(TimestampCorrected)
                           \/ record.timestamp \in
                                  Truncate(Meant - Margin) .. Truncate(Meant + Margin)
    BY DEF TimestampHonest
  <2>2. PICK log, parsed, later : StoredAs(log, parsed, later)
    BY <1>1, <2>1, StoredFrom
  <2>3. /\ (scenario.event = ZeroTime) = (TimestampMissing \in DOMAIN log.attributes)
        /\ \/ TimestampMissing \in DOMAIN log.attributes
           \/ TimestampCorrected \in DOMAIN log.attributes
           \/ /\ log.timestamp = Truncate(parsed.timestamp)
              /\ parsed.timestamp <= readAt + MaxSkew
    BY <2>2, AcceptedTime DEF StoredAs
  <2>4. log = record /\ readAt \in Int /\ AsMeant(parsed, readAt) /\ parsed.timestamp \in Int
    BY <2>2 DEF StoredAs, AsMeant, Sound
  <2>5. ASSUME scenario.event # ZeroTime, parsed.timestamp <= readAt + MaxSkew
        PROVE  Truncate(parsed.timestamp) \in Truncate(Meant - Margin) .. Truncate(Meant + Margin)
    <3>1. /\ Meant \in Int /\ Margin \in Nat
          /\ Meant - Margin <= parsed.timestamp /\ parsed.timestamp <= Meant + Margin
      BY <2>4, <2>5, MeantIfAccepted
    <3>2. /\ Truncate(Meant - Margin) <= Truncate(parsed.timestamp)
          /\ Truncate(parsed.timestamp) <= Truncate(Meant + Margin)
      BY <2>4, <3>1, TruncateMonotone
    <3>3. /\ Truncate(Meant - Margin) \in Int /\ Truncate(parsed.timestamp) \in Int
          /\ Truncate(Meant + Margin) \in Int
      BY <2>4, <3>1, TruncateQuotient
    <3> QED
      BY <3>2, <3>3
  <2> QED
    BY <2>3, <2>4, <2>5 DEF Has
<1> QED
  BY <1>1, MeantAlways, PTL

\* Where what is read is what was meant, the recorded skew of a corrected time
\* leads back to the instant in the line as it is read, within the margin of
\* reading, but for the cases SkewTells names.
THEOREM SkewLeadsBack == Spec /\ []ReadAsMeant => []SkewTells
<1>1. ASSUME MeantInv PROVE SkewTells
  <2>1. SUFFICES ASSUME Stored, Has(TimestampCorrected), ~Has(TimestampMissing),
                        ~(readAt > ingestAt + MaxSkew),
                        ~(Claimed + Margin - readAt > MaxDuration),
                        ~(Claimed + Margin - ingestAt > MaxDuration)
                 PROVE  LET skew == record.attributes[TimestampSkewMillis]
                        IN  \/ skew = Mask
                            \/ \E n \in 0 .. MaxDuration :
                                   /\ Decimal(n) = skew
                                   /\ Claimed - (record.timestamp + n * Millisecond)
                                          \in -Margin .. 2 * Millisecond - 1 + Margin
    BY DEF SkewTells
  <2>2. PICK log, parsed, later : StoredAs(log, parsed, later)
    BY <1>1, <2>1, StoredFrom
  <2>3. log = record
    BY <2>2 DEF StoredAs
  <2>4. /\ (scenario.event = ZeroTime) = (TimestampMissing \in DOMAIN log.attributes)
        /\ \/ TimestampMissing \in DOMAIN log.attributes
           \/ TimestampCorrected \in DOMAIN log.attributes
           \/ /\ log.timestamp = Truncate(parsed.timestamp)
              /\ parsed.timestamp <= readAt + MaxSkew
    BY <2>2, AcceptedTime DEF StoredAs
  <2>5. scenario.event # ZeroTime /\ TimestampCorrected \in DOMAIN log.attributes
    BY <2>1, <2>3, <2>4 DEF Has
  <2>6. /\ readAt \in Int /\ readAt >= Millisecond /\ ingestAt \in Int /\ later \in Int
        /\ AsMeant(parsed, readAt) /\ log = Accepted(Batched(parsed, readAt), ingestAt, later)
    BY <2>2 DEF StoredAs
  <2>7. /\ MaxDuration \in Nat /\ MaxSkew \in Int /\ Millisecond \in Nat
        /\ Margin \in Nat /\ parsed.timestamp \in Int
        /\ parsed.timestamp - Claimed \in -Margin .. Margin
    BY <2>5, <2>6, MarginSmall, SchemaAssumption DEF MarginOf, AsMeant, Sound, Claimed
  <2>8. Claimed \in Int
    <3>1. /\ Zone \in Int /\ scenario.event \in Int
      BY <2>6 DEF AsMeant
    <3>2. YearOf(readAt + Zone) \in Int /\ YearOf(scenario.event + Zone) \in Int /\ Year \in Int
      BY <2>6, <3>1, SchemaAssumption DEF YearOf
    <3>3. Year * (YearOf(readAt + Zone) - YearOf(scenario.event + Zone)) \in Int
      BY <3>2
    <3> QED
      BY <3>1, <3>3 DEF Claimed, ClaimedAt
  <2>9. /\ parsed.timestamp - readAt <= MaxDuration
        /\ parsed.timestamp - ingestAt <= MaxDuration
        /\ readAt <= ingestAt + MaxSkew
    BY <2>1, <2>6, <2>7, <2>8
  <2>10. LET skew == log.attributes[TimestampSkewMillis]
         IN  \/ skew = Mask
             \/ \E n \in 0 .. MaxDuration :
                    /\ Decimal(n) = skew
                    /\ parsed.timestamp - (log.timestamp + n * Millisecond)
                           \in 0 .. 2 * Millisecond - 1
    BY <2>5, <2>6, <2>9, AcceptedSkew
  <2>11. ASSUME NEW n \in 0 .. MaxDuration,
                parsed.timestamp - (log.timestamp + n * Millisecond) \in 0 .. 2 * Millisecond - 1
         PROVE  Claimed - (log.timestamp + n * Millisecond)
                    \in -Margin .. 2 * Millisecond - 1 + Margin
    <3>1. PICK x : x = log.timestamp + n * Millisecond
      OBVIOUS
    <3>2. x \in Int
      <4>1. log.timestamp \in Int
        BY <2>6, AcceptedTimeType
      <4>2. n \in Int /\ n * Millisecond \in Int
        BY <2>7
      <4> QED
        BY <3>1, <4>1, <4>2
    <3> QED
      BY <2>7, <2>8, <2>11, <3>1, <3>2
  <2> QED
    BY <2>3, <2>10, <2>11
<1> QED
  BY <1>1, MeantAlways, PTL

\* The filter does what the configuration says: where what is read is what was
\* meant, a line that is stored passes it, and one that is filtered may be.
THEOREM TheFilterIsHonoured == Spec /\ []ReadAsMeant => []FilterHonoured
<1>1. ASSUME MeantInv PROVE FilterHonoured
  <2>1. ASSUME Stored
        PROVE  /\ AtLeast(scenario.severity, scenario.min)
               /\ scenario.percent[scenario.severity] > 0
               /\ record.level = scenario.severity
    <3>1. PICK log, parsed, later : StoredAs(log, parsed, later)
      BY <1>1, <2>1, StoredFrom
    <3>2. log.level = scenario.severity
      BY <3>1, AcceptedMessage DEF StoredAs
    <3>3. Passes /\ Leveled
      BY <1>1, <2>1, StoredFrom
    <3> QED
      BY <3>1, <3>2, <3>3, RanksOrder DEF StoredAs, Passes, Leveled
  <2>2. ASSUME phase = "filtered"
        PROVE  \/ ~AtLeast(scenario.severity, scenario.min)
               \/ scenario.percent[scenario.severity] < 100
    BY <1>1, <2>2, RanksOrder DEF MeantInv, Dropped, Leveled
  <2> QED
    BY <2>1, <2>2 DEF FilterHonoured
<1> QED
  BY <1>1, MeantAlways, PTL

\* Where what is read is what was meant, on a host with a name, a line that
\* passes the filter is withheld only for its own sake or for a name of white
\* space in the configuration.
THEOREM WithheldOnlyForCause ==
    ASSUME Hostname \notin {"", " "}
    PROVE  Spec /\ []ReadAsMeant => []WithheldOnlyIfUnusable
<1>1. ASSUME MeantInv PROVE WithheldOnlyIfUnusable
  <2>1. ASSUME phase \in {"stuck", "rejected"}
        PROVE  \E parsed : \E now \in scenario.clocks :
                   AsMeant(parsed, now) /\ record = Batched(parsed, now)
    <3>1. PICK log : log = record /\ Origin(log)
      BY <1>1, <2>1 DEF MeantInv
    <3> QED
      BY <3>1 DEF Origin
  <2>2. ASSUME phase = "rejected"
        PROVE  \/ IsBlank(Cut(scenario.said))
               \/ " " \in {scenario.config.host, scenario.config.env}
    <3>1. PICK parsed : \E now \in scenario.clocks :
              AsMeant(parsed, now) /\ record = Batched(parsed, now)
      BY <2>1, <2>2
    <3>2. PICK now \in scenario.clocks :
              AsMeant(parsed, now) /\ record = Batched(parsed, now)
      BY <3>1
    <3>3. now \in Int
      BY <1>1, ClocksRun
    <3>4. Incomplete(Identified(Batched(parsed, now)))
      BY <1>1, <2>2, <3>2 DEF MeantInv
    <3>5. \/ config.host \in {"", " "} \/ config.env \in {"", " "}
          \/ IsBlank(Cut(scenario.said))
      BY <3>2, <3>3, <3>4, BatchedIncomplete
    <3>6. Named
      BY <1>1, <2>2 DEF MeantInv
    <3>7. config.host \in {"", " "} => scenario.config.host = " "
      BY <3>6 DEF Named, OrDefault
    <3>8. config.env \in {"", " "} => scenario.config.env = " "
      BY <3>6 DEF Named, OrDefault
    <3> QED
      BY <3>5, <3>7, <3>8
  <2>3. ASSUME phase = "stuck"
        PROVE  \E time \in scenario.claims : ~Encodable(Truncate(time))
    <3>1. PICK parsed : \E now \in scenario.clocks :
              AsMeant(parsed, now) /\ record = Batched(parsed, now)
      BY <2>1, <2>3
    <3>2. PICK now \in scenario.clocks :
              AsMeant(parsed, now) /\ record = Batched(parsed, now)
      BY <3>1
    <3>3. now \in Int /\ now >= Millisecond /\ Encodable(now)
      BY <1>1, ClocksRun
    <3>4. \/ ~Encodable(Batched(parsed, now).timestamp)
          \/ ~Encodable(Batched(parsed, now).ingested_at)
      BY <1>1, <2>3, <3>2 DEF MeantInv
    <3> QED
      BY <3>2, <3>3, <3>4, BatchedStuck
  <2> QED
    BY <2>2, <2>3 DEF WithheldOnlyIfUnusable
<1> QED
  BY <1>1, MeantAlways, PTL
=============================================================================
