---------------------------- MODULE SenderProofs ----------------------------
(***************************************************************************)
(* What the operations of the disk buffer and of the sender preserve, for  *)
(* every size limit, every set of batch sizes and every retry delay.  The  *)
(* lemmas speak of single steps, so that they serve the sender alone and   *)
(* the whole agent process alike.                                          *)
(***************************************************************************)
EXTENDS Sender, SequenceTheorems, FunctionTheorems, FiniteSetTheorems, TLAPS

-----------------------------------------------------------------------------
(***************************************************************************)
(* The size of a set of batches adds up.                                   *)
(***************************************************************************)

BytesWithin(b, S) == UNION {{n} \X (1 .. b[n].bytes) : n \in S}
TotalOf(b, S) == Cardinality(BytesWithin(b, S))

Sized(b, S) == IsFiniteSet(S) /\ \A n \in S : b[n].bytes \in Nat

LEMMA BytesAreTotal == \A S : Bytes(S) = TotalOf(batches, S)
BY DEF Bytes, BytesIn, BytesOf, TotalOf, BytesWithin

LEMMA BytesWithinFinite ==
    ASSUME NEW b, NEW S, Sized(b, S)
    PROVE  IsFiniteSet(BytesWithin(b, S))
<1> DEFINE f == [n \in S |-> {n} \X (1 .. b[n].bytes)]
           T == {{n} \X (1 .. b[n].bytes) : n \in S}
<1>1. f \in Surjection(S, T)
  BY Fun_IsSurj
<1>2. IsFiniteSet(T)
  BY <1>1, FS_Surjection DEF Sized
<1>3. ASSUME NEW n \in S PROVE IsFiniteSet({n} \X (1 .. b[n].bytes))
  <2>1. IsFiniteSet({n}) /\ IsFiniteSet(1 .. b[n].bytes)
    <3>1. b[n].bytes \in Int /\ 1 \in Int
      BY DEF Sized
    <3> QED
      BY <3>1, FS_Singleton, FS_Interval
  <2> QED
    BY <2>1, FS_Product
<1> QED
  BY <1>2, <1>3, FS_UNION DEF BytesWithin

LEMMA TotalType ==
    ASSUME NEW b, NEW S, Sized(b, S)
    PROVE  TotalOf(b, S) \in Nat
BY BytesWithinFinite, FS_CardinalityType DEF TotalOf

LEMMA TotalMonotone ==
    ASSUME NEW b, NEW S, NEW T \in SUBSET S, Sized(b, S)
    PROVE  Sized(b, T) /\ TotalOf(b, T) <= TotalOf(b, S)
<1>1. IsFiniteSet(BytesWithin(b, S))
  BY BytesWithinFinite
<1>2. BytesWithin(b, T) \in SUBSET BytesWithin(b, S)
  BY DEF BytesWithin
<1>3. IsFiniteSet(T)
  BY FS_Subset DEF Sized
<1> QED
  BY <1>1, <1>2, <1>3, FS_Subset DEF TotalOf, Sized

LEMMA TotalSplits ==
    ASSUME NEW b, NEW S, NEW T \in SUBSET S, Sized(b, S)
    PROVE  TotalOf(b, S) = TotalOf(b, T) + TotalOf(b, S \ T)
<1>1. Sized(b, T) /\ Sized(b, S \ T)
  BY TotalMonotone, S \ T \in SUBSET S
<1>2. IsFiniteSet(BytesWithin(b, T)) /\ IsFiniteSet(BytesWithin(b, S \ T))
  BY <1>1, BytesWithinFinite
<1>3. BytesWithin(b, S) = BytesWithin(b, T) \cup BytesWithin(b, S \ T)
  BY DEF BytesWithin
<1>4. BytesWithin(b, T) \cap BytesWithin(b, S \ T) = {}
  BY DEF BytesWithin
<1>5. TotalOf(b, T) \in Nat /\ TotalOf(b, S \ T) \in Nat
  BY <1>1, TotalType
<1> DEFINE X == BytesWithin(b, T)
           Y == BytesWithin(b, S \ T)
<1>6. Cardinality(X \cup Y) = Cardinality(X) + Cardinality(Y) - Cardinality(X \cap Y)
  BY <1>2, FS_Union
<1>7. Cardinality(X \cap Y) = 0
  BY <1>4, FS_EmptySet
<1> QED
  BY <1>3, <1>5, <1>6, <1>7 DEF TotalOf

LEMMA TotalOfOne ==
    ASSUME NEW b, NEW n, b[n].bytes \in Nat
    PROVE  TotalOf(b, {n}) = b[n].bytes
<1> DEFINE k == b[n].bytes
<1>1. IsFiniteSet({n}) /\ Cardinality({n}) = 1
  BY FS_Singleton
<1>2. IsFiniteSet(1 .. k) /\ Cardinality(1 .. k) = k
  <2> HIDE DEF k
  <2>1. k \in Nat
    BY DEF k
  <2>2. IsFiniteSet(1 .. k) /\ Cardinality(1 .. k) = IF 1 > k THEN 0 ELSE k - 1 + 1
    BY <2>1, FS_Interval
  <2> QED
    BY <2>1, <2>2
<1>3. Cardinality({n} \X (1 .. k)) = 1 * k
  BY <1>1, <1>2, FS_Product
<1>4. BytesWithin(b, {n}) = {n} \X (1 .. b[n].bytes)
  BY DEF BytesWithin
<1> QED
  BY <1>3, <1>4 DEF TotalOf

LEMMA TotalOfNone == \A b : TotalOf(b, {}) = 0
<1>1. \A b : BytesWithin(b, {}) = {}
  BY DEF BytesWithin
<1> QED
  BY <1>1, FS_EmptySet DEF TotalOf

LEMMA TotalSame ==
    ASSUME NEW b, NEW c, NEW S, \A n \in S : b[n].bytes = c[n].bytes
    PROVE  TotalOf(b, S) = TotalOf(c, S)
<1>1. BytesWithin(b, S) = BytesWithin(c, S)
  BY DEF BytesWithin
<1> QED
  BY <1>1 DEF TotalOf

-----------------------------------------------------------------------------
(***************************************************************************)
(* The operations of the buffer.                                           *)
(***************************************************************************)

LEMMA NamesType ==
    ASSUME batches \in Seq(Batch)
    PROVE  /\ Len(batches) \in Nat
           /\ Names = 1 .. Len(batches)
           /\ \A n \in Names : batches[n] \in Batch
BY DEF Names

LEMMA SequenceSized ==
    ASSUME NEW b \in Seq(Batch), NEW S \in SUBSET DOMAIN b
    PROVE  Sized(b, S)
<1>1. Len(b) \in Int /\ 1 \in Int /\ DOMAIN b = 1 .. Len(b)
  OBVIOUS
<1>2. IsFiniteSet(DOMAIN b)
  BY <1>1, FS_Interval
<1>3. IsFiniteSet(S)
  BY <1>2, FS_Subset
<1>4. \A n \in DOMAIN b : b[n] \in Batch
  OBVIOUS
<1>5. \A n \in S : b[n].bytes \in Nat
  BY <1>4 DEF Batch
<1> QED
  BY <1>3, <1>5 DEF Sized

LEMMA NamesSized ==
    ASSUME batches \in Seq(Batch), NEW S \in SUBSET Names
    PROVE  Sized(batches, S)
BY SequenceSized DEF Names

\* What no operation changes of a batch.
SameBatch(n) ==
    /\ batches'[n].time = batches[n].time
    /\ batches'[n].lines = batches[n].lines
    /\ batches'[n].count = batches[n].count
    /\ batches'[n].bytes = batches[n].bytes

Renamed(S, s) ==
    /\ batches' \in Seq(Batch)
    /\ Len(batches') = Len(batches)
    /\ Names' = Names
    /\ \A n \in Names : /\ SameBatch(n)
                        /\ batches'[n].state = IF n \in S THEN s ELSE batches[n].state

LEMMA SetStateRenames ==
    ASSUME batches \in Seq(Batch), NEW S, NEW s \in BatchStates,
           batches' = SetState(S, s)
    PROVE  Renamed(S, s)
<1>1. /\ Len(batches) \in Nat /\ Names = 1 .. Len(batches)
      /\ \A n \in Names : batches[n] \in Batch
  BY NamesType
<1>2. ASSUME NEW n \in Names
      PROVE  /\ batches'[n] \in Batch /\ SameBatch(n)
             /\ batches'[n].state = IF n \in S THEN s ELSE batches[n].state
  <2>1. batches[n] \in Batch
    BY <1>1
  <2>2. batches'[n] = IF n \in S THEN [batches[n] EXCEPT !.state = s] ELSE batches[n]
    BY DEF SetState
  <2>3. CASE n \in S
    BY <2>1, <2>2, <2>3 DEF Batch, SameBatch
  <2>4. CASE n \notin S
    BY <2>1, <2>2, <2>4 DEF SameBatch
  <2> QED
    BY <2>3, <2>4
<1>3. batches' \in [1 .. Len(batches) -> Batch]
  BY <1>1, <1>2 DEF SetState
<1>4. batches' \in Seq(Batch) /\ Len(batches') = Len(batches)
  BY <1>1, <1>3, SeqDef
<1>5. Names' = Names
  BY <1>1, <1>3 DEF Names
<1> QED
  BY <1>2, <1>4, <1>5 DEF Renamed

Published(lines, count) ==
    LET last == Len(batches) + 1
    IN  /\ batches' \in Seq(Batch)
        /\ Len(batches') = last
        /\ Names' = Names \cup {last}
        /\ last \notin Names
        /\ \A n \in Names : batches'[n] = batches[n]
        /\ batches'[last].state = "pending"
        /\ batches'[last].time \in NewTimes
        /\ batches'[last].lines = lines
        /\ batches'[last].count = count

LEMMA PublishAppends ==
    ASSUME batches \in Seq(Batch), NEW lines \in SUBSET Line, NEW count \in Nat,
           Publish(lines, count)
    PROVE  Published(lines, count)
<1>1. PICK b \in ByteSizes, t \in NewTimes :
        batches' = Append(batches, [state |-> "pending", time |-> t, lines |-> lines,
                                    count |-> count, bytes |-> b])
  BY DEF Publish
<1> DEFINE new == [state |-> "pending", time |-> t, lines |-> lines,
                   count |-> count, bytes |-> b]
<1>2. t \in Nat
  <2>1. Len(batches) \in Nat
    OBVIOUS
  <2> QED
    BY <2>1 DEF NewTimes
<1>3. /\ new \in Batch
      /\ new.state = "pending" /\ new.time = t /\ new.lines = lines /\ new.count = count
  BY <1>2, StoreAssumption DEF Batch, BatchStates
<1> HIDE DEF new
<1>4. batches' = Append(batches, new)
  BY <1>1 DEF new
<1>5. /\ batches' \in Seq(Batch)
      /\ Len(batches') = Len(batches) + 1
      /\ batches'[Len(batches) + 1] = new
      /\ \A n \in 1 .. Len(batches) : batches'[n] = batches[n]
  BY <1>3, <1>4, AppendProperties
<1>6. Len(batches) \in Nat /\ Names = 1 .. Len(batches)
  BY NamesType
<1>7. Names' = 1 .. Len(batches) + 1
  BY <1>5, <1>6 DEF Names
<1> QED
  BY <1>3, <1>5, <1>6, <1>7 DEF Published

\* What may happen to the buffer, whoever does it: nothing, a write, the
\* removal of the oldest batches, a claim, or the end of claims.
StoreChange ==
    \/ UNCHANGED batches
    \/ \E lines \in SUBSET Line, count \in Nat : Publish(lines, count)
    \/ \E who \in Clients : EnforceLimit(who)
    \/ \E n \in Pending : batches' = SetState({n}, "sending")
    \/ \E S \in SUBSET Sending, s \in {"pending", "deleted", "failed"} :
         batches' = SetState(S, s)

StoreKept ==
    /\ batches' \in Seq(Batch)
    /\ Len(batches) <= Len(batches')
    /\ Names \subseteq Names'
    /\ \A n \in Names : SameBatch(n)

LEMMA StoreChangeKeeps ==
    ASSUME batches \in Seq(Batch), StoreChange
    PROVE  StoreKept
<1>1. Len(batches) \in Nat
  OBVIOUS
<1>2. CASE UNCHANGED batches
  BY <1>1, <1>2 DEF StoreKept, SameBatch, Names
<1>3. ASSUME NEW lines \in SUBSET Line, NEW count \in Nat, Publish(lines, count)
      PROVE  StoreKept
  <2>1. Published(lines, count)
    BY <1>3, PublishAppends
  <2> QED
    BY <1>1, <2>1 DEF Published, StoreKept, SameBatch
<1>4. ASSUME NEW S, NEW s \in BatchStates, batches' = SetState(S, s)
      PROVE  StoreKept
  <2>1. Renamed(S, s)
    BY <1>4, SetStateRenames
  <2> QED
    BY <1>1, <2>1 DEF Renamed, StoreKept
<1>5. ASSUME NEW who, EnforceLimit(who)
      PROVE  StoreKept
  BY <1>2, <1>4, <1>5 DEF EnforceLimit, BatchStates
<1> QED
  BY <1>2, <1>3, <1>4, <1>5 DEF StoreChange, BatchStates

LEMMA SenderStoreChange ==
    ASSUME NEW n, ClaimOldest(n) \/ Unclaim(n) \/ DeleteClaim(n) \/ MoveToFailed(n)
    PROVE  StoreChange
<1>1. CASE ClaimOldest(n)
  BY <1>1 DEF ClaimOldest, StoreChange
<1>2. CASE Unclaim(n) \/ DeleteClaim(n) \/ MoveToFailed(n)
  <2>1. {n} \in SUBSET Sending
    BY <1>2 DEF Unclaim, DeleteClaim, MoveToFailed
  <2>2. \E s \in {"pending", "deleted", "failed"} : batches' = SetState({n}, s)
    BY <1>2 DEF Unclaim, DeleteClaim, MoveToFailed
  <2> QED
    BY <2>1, <2>2 DEF StoreChange
<1> QED
  BY <1>1, <1>2

LEMMA RecoverStoreChange ==
    ASSUME RecoverClaims \/ RecoverFails
    PROVE  StoreChange
<1>1. CASE RecoverClaims
  BY <1>1 DEF RecoverClaims, StoreChange
<1>2. CASE RecoverFails
  <2>1. PICK n \in Sending :
          batches' = SetState({m \in Sending : Older(m, n)}, "pending")
    BY <1>2 DEF RecoverFails
  <2>2. {m \in Sending : Older(m, n)} \in SUBSET Sending
    OBVIOUS
  <2> QED
    BY <2>1, <2>2 DEF StoreChange
<1> QED
  BY <1>1, <1>2

-----------------------------------------------------------------------------
(***************************************************************************)
(* enforceLimitLocked.                                                     *)
(***************************************************************************)

\* What is left when the loop comes to n, having removed batches of E.
LeftAt(E, n) == Bytes(Pending) - Bytes({m \in E : Older(m, n)})

LEMMA EvictionType ==
    ASSUME batches \in Seq(Batch), NEW E \in SUBSET Pending
    PROVE  /\ Pending \in SUBSET Names
           /\ Bytes(Pending) = Bytes(E) + Bytes(Pending \ E)
           /\ \A S \in SUBSET Names : Bytes(S) \in Nat
           /\ \A S \in SUBSET Names : \A T \in SUBSET S : Bytes(T) <= Bytes(S)
           /\ \A m, n \in Names : batches[m].time \in Nat
<1>1. Pending \in SUBSET Names
  BY DEF Pending, InState
<1>2. ASSUME NEW S \in SUBSET Names
      PROVE  Bytes(S) \in Nat /\ \A T \in SUBSET S : Bytes(T) <= Bytes(S)
  <2>1. Sized(batches, S)
    BY NamesSized
  <2> QED
    BY <2>1, TotalType, TotalMonotone, BytesAreTotal
<1>3. Bytes(Pending) = Bytes(E) + Bytes(Pending \ E)
  <2>1. Sized(batches, Pending)
    BY <1>1, NamesSized
  <2> QED
    BY <2>1, TotalSplits, BytesAreTotal
<1>4. \A n \in Names : batches[n].time \in Nat
  BY NamesType DEF Batch
<1> QED
  BY <1>1, <1>2, <1>3, <1>4

\* When every removal succeeds, the queue ends within the limit.
LEMMA EvictionSuffices ==
    ASSUME batches \in Seq(Batch), NEW E \in SUBSET Pending, IsEviction(E, {})
    PROVE  Bytes(Pending \ E) <= MaxBytes
<1>1. CASE Pending \ E = {}
  <2>1. Bytes(Pending \ E) = 0
    BY <1>1, BytesAreTotal, TotalOfNone
  <2> QED
    BY <2>1, StoreAssumption
<1>2. ASSUME NEW n \in Pending \ E
      PROVE  Bytes(Pending \ E) <= MaxBytes
  <2>1. LeftAt(E, n) <= MaxBytes
    <3>1. ~(LeftAt(E, n) > MaxBytes)
      BY <1>2 DEF IsEviction, LeftAt
    <3>2. LeftAt(E, n) \in Int
      <4>1. {m \in E : Older(m, n)} \in SUBSET Names /\ Pending \in SUBSET Names
        BY DEF Pending, InState
      <4>2. Bytes({m \in E : Older(m, n)}) \in Nat /\ Bytes(Pending) \in Nat
        BY <4>1, EvictionType
      <4> QED
        BY <4>2 DEF LeftAt
    <3> QED
      BY <3>1, <3>2, StoreAssumption
  <2> DEFINE O == {m \in E : Older(m, n)}
  <2>2. O \in SUBSET E /\ E \in SUBSET Names /\ Pending \ E \in SUBSET Names
    BY EvictionType
  <2>3. Bytes(O) <= Bytes(E)
    BY <2>2, EvictionType
  <2>4. Bytes(O) \in Nat /\ Bytes(E) \in Nat /\ Bytes(Pending \ E) \in Nat
    <3>1. O \in SUBSET Names
      BY <2>2
    <3> QED
      BY <2>2, <3>1, EvictionType
  <2>5. Bytes(Pending) = Bytes(E) + Bytes(Pending \ E)
    BY EvictionType
  <2>6. LeftAt(E, n) = Bytes(Pending) - Bytes(O)
    BY DEF LeftAt
  <2> HIDE DEF O
  <2> QED
    BY <2>1, <2>3, <2>4, <2>5, <2>6, StoreAssumption
<1> QED
  BY <1>1, <1>2

\* When every removal succeeds, what goes is the older part of the queue: a
\* removed batch and the batches that are not older exceed the limit.
LEMMA EvictionNeeded ==
    ASSUME batches \in Seq(Batch), NEW E \in SUBSET Pending, IsEviction(E, {}),
           NEW n \in E
    PROVE  Bytes(NotOlder(n)) > MaxBytes
<1> DEFINE O == {m \in E : Older(m, n)}
           P == {m \in Pending : Older(m, n)}
<1>1. Pending \in SUBSET Names /\ \A m \in Names : batches[m].time \in Nat
  BY EvictionType
<1>2. LeftAt(E, n) > MaxBytes
  BY DEF IsEviction, LeftAt
<1>3. ASSUME NEW m \in Pending, Older(m, n)
      PROVE  m \in E
  <2> DEFINE Q == {k \in E : Older(k, m)}
  <2>1. Q \in SUBSET O
    BY <1>1, <1>3 DEF Older
  <2>2. O \in SUBSET Names /\ Q \in SUBSET Names
    BY <1>1
  <2>3. Bytes(Q) <= Bytes(O)
    BY <2>1, <2>2, EvictionType
  <2>4. Bytes(Q) \in Nat /\ Bytes(O) \in Nat /\ Bytes(Pending) \in Nat
    BY <1>1, <2>2, EvictionType
  <2>5. LeftAt(E, m) = Bytes(Pending) - Bytes(Q) /\ LeftAt(E, n) = Bytes(Pending) - Bytes(O)
    BY DEF LeftAt
  <2>6. LeftAt(E, m) > MaxBytes
    <3> HIDE DEF Q, O
    <3> QED
      BY <1>2, <2>3, <2>4, <2>5, StoreAssumption
  <2> QED
    BY <2>6, <1>3 DEF IsEviction, LeftAt
<1>4. O = P
  BY <1>3
<1>5. P \in SUBSET Pending /\ Pending \ P \in SUBSET NotOlder(n)
  BY <1>1 DEF NotOlder
<1>6. Bytes(Pending) = Bytes(P) + Bytes(Pending \ P)
  BY <1>5, EvictionType
<1>7. Bytes(Pending \ P) <= Bytes(NotOlder(n))
  <2>1. NotOlder(n) \in SUBSET Names
    BY DEF NotOlder
  <2> QED
    BY <1>5, <2>1, EvictionType
<1>8. Bytes(P) \in Nat /\ Bytes(Pending \ P) \in Nat /\ Bytes(NotOlder(n)) \in Nat
  <2>1. P \in SUBSET Names /\ Pending \ P \in SUBSET Names /\ NotOlder(n) \in SUBSET Names
    BY <1>1 DEF NotOlder
  <2> QED
    BY <2>1, EvictionType
<1>9. LeftAt(E, n) = Bytes(Pending) - Bytes(P)
  BY <1>4 DEF LeftAt
<1> HIDE DEF P
<1> QED
  BY <1>2, <1>6, <1>7, <1>8, <1>9, StoreAssumption

\* Whatever cannot be removed: keeping the newest removed batch too would
\* exceed the limit, as names are told apart by their times.
LEMMA EvictionMinimal ==
    ASSUME batches \in Seq(Batch), NEW stuck, NEW E \in SUBSET Pending,
           IsEviction(E, stuck),
           \A m, k \in Names : batches[m].time = batches[k].time => m = k,
           NEW n \in E, \A m \in E : ~Older(n, m)
    PROVE  Bytes(Pending \ E) + BytesOf(n) > MaxBytes
<1> DEFINE O == {m \in E : Older(m, n)}
<1>1. Pending \in SUBSET Names /\ \A m \in Names : batches[m].time \in Nat
  BY EvictionType
<1>2. LeftAt(E, n) > MaxBytes
  BY DEF IsEviction, LeftAt
<1>3. O = E \ {n}
  BY <1>1 DEF Older
<1>4. Bytes(E) = Bytes({n}) + Bytes(E \ {n})
  <2>1. Sized(batches, E) /\ {n} \in SUBSET E
    BY <1>1, NamesSized
  <2> QED
    BY <2>1, TotalSplits, BytesAreTotal
<1>5. Bytes({n}) = BytesOf(n)
  <2>1. batches[n].bytes \in Nat
    BY <1>1, NamesType DEF Batch
  <2> QED
    BY <2>1, TotalOfOne, BytesAreTotal DEF BytesOf
<1>6. Bytes(Pending) = Bytes(E) + Bytes(Pending \ E)
  BY EvictionType
<1>7. /\ Bytes(Pending) \in Nat /\ Bytes(E) \in Nat /\ Bytes(Pending \ E) \in Nat
      /\ Bytes({n}) \in Nat /\ Bytes(E \ {n}) \in Nat
  <2>1. /\ E \in SUBSET Names /\ Pending \ E \in SUBSET Names
        /\ {n} \in SUBSET Names /\ E \ {n} \in SUBSET Names
    BY <1>1
  <2> QED
    BY <1>1, <2>1, EvictionType
<1>8. LeftAt(E, n) = Bytes(Pending) - Bytes(E \ {n})
  BY <1>3 DEF LeftAt
<1> QED
  BY <1>2, <1>4, <1>5, <1>6, <1>7, <1>8, StoreAssumption

-----------------------------------------------------------------------------
(***************************************************************************)
(* What every change of the buffer preserves.                              *)
(***************************************************************************)

\* The clock shows a time once: names are unique.
UniqueTimes ==
    /\ \A n \in Names : batches[n].time < 2 * Len(batches)
    /\ \A m, n \in Names : batches[m].time = batches[n].time => m = n

LEMMA UniqueTimesStep ==
    ASSUME batches \in Seq(Batch), UniqueTimes, StoreChange
    PROVE  UniqueTimes'
<1>1. Len(batches) \in Nat /\ \A n \in Names : batches[n].time \in Nat
  BY NamesType DEF Batch
<1>2. CASE Len(batches') = Len(batches) /\ Names' = Names /\ \A n \in Names : SameBatch(n)
  BY <1>2 DEF UniqueTimes, SameBatch
<1>3. ASSUME NEW lines \in SUBSET Line, NEW count \in Nat, Publish(lines, count)
      PROVE  UniqueTimes'
  <2> DEFINE last == Len(batches) + 1
             t == batches'[last].time
  <2>1. Published(lines, count)
    BY <1>3, PublishAppends
  <2>2. /\ Len(batches') = last /\ Names' = Names \cup {last}
        /\ \A n \in Names : batches'[n] = batches[n]
        /\ t \in NewTimes
    BY <2>1 DEF Published
  <2>3. t \in Nat /\ t < 2 * last /\ \A n \in Names : batches[n].time # t
    <3>1. CASE t = 2 * Len(batches) + 1
      BY <1>1, <3>1 DEF UniqueTimes
    <3>2. CASE t \in 0 .. 2 * Len(batches) /\ t \notin {batches[n].time : n \in Names}
      BY <1>1, <3>2
    <3> QED
      BY <2>2, <3>1, <3>2 DEF NewTimes
  <2>4. \A n \in Names : batches[n].time < 2 * last
    BY <1>1 DEF UniqueTimes
  <2> QED
    BY <2>2, <2>3, <2>4 DEF UniqueTimes
<1>4. ASSUME NEW S, NEW s \in BatchStates, batches' = SetState(S, s)
      PROVE  UniqueTimes'
  <2>1. Renamed(S, s)
    BY <1>4, SetStateRenames
  <2> QED
    BY <1>2, <2>1 DEF Renamed
<1>5. CASE UNCHANGED batches
  BY <1>2, <1>5 DEF SameBatch, Names
<1> QED
  BY <1>3, <1>4, <1>5 DEF StoreChange, EnforceLimit, BatchStates

LEMMA NotOlderGrows ==
    ASSUME batches \in Seq(Batch), StoreKept, NEW n \in Names
    PROVE  Bytes(NotOlder(n)) <= Bytes(NotOlder(n))'
<1> DEFINE S == NotOlder(n)
           T == NotOlder(n)'
<1>1. S \in SUBSET T /\ S \in SUBSET Names /\ T \in SUBSET DOMAIN batches'
  BY DEF StoreKept, NotOlder, Older, SameBatch, Names
<1>2. Sized(batches', T)
  BY <1>1, SequenceSized DEF StoreKept
<1>3. TotalOf(batches', S) <= TotalOf(batches', T)
  BY <1>1, <1>2, TotalMonotone
<1>4. TotalOf(batches', S) = TotalOf(batches, S)
  BY <1>1, TotalSame DEF StoreKept, SameBatch
<1>5. Bytes(S) = TotalOf(batches, S) /\ Bytes(NotOlder(n))' = TotalOf(batches', T)
  BY DEF Bytes, BytesIn, BytesOf, TotalOf, BytesWithin
<1> QED
  BY <1>3, <1>4, <1>5

\* A batch that is gone stays gone; without failing removals only the older
\* part of the queue goes.
LEMMA EvictedStep ==
    ASSUME "remove_fault" \notin Env, batches \in Seq(Batch), EvictedOnlyForSpace,
           StoreChange
    PROVE  EvictedOnlyForSpace'
<1>1. StoreKept
  BY StoreChangeKeeps
<1>2. ASSUME NEW n \in Names, Bytes(NotOlder(n)) > MaxBytes
      PROVE  Bytes(NotOlder(n))' > MaxBytes
  <2>1. Bytes(NotOlder(n)) <= Bytes(NotOlder(n))'
    BY <1>1, NotOlderGrows
  <2>2. Bytes(NotOlder(n)) \in Nat /\ Bytes(NotOlder(n))' \in Nat
    <3>1. Sized(batches, NotOlder(n)) /\ Sized(batches', NotOlder(n)')
      BY <1>1, SequenceSized DEF NotOlder, Names, StoreKept
    <3>2. TotalOf(batches, NotOlder(n)) \in Nat /\ TotalOf(batches', NotOlder(n)') \in Nat
      BY <3>1, TotalType
    <3> QED
      BY <3>2 DEF Bytes, BytesIn, BytesOf, TotalOf, BytesWithin
  <2> QED
    BY <1>2, <2>1, <2>2, StoreAssumption
<1>3. ASSUME NEW n \in InState("evicted")
      PROVE  n \in Names /\ Bytes(NotOlder(n)) > MaxBytes
  BY <1>3 DEF EvictedOnlyForSpace, InState
<1>4. CASE InState("evicted")' \subseteq InState("evicted")
  BY <1>2, <1>3, <1>4 DEF EvictedOnlyForSpace
<1>5. ASSUME NEW who, EnforceLimit(who)
      PROVE  EvictedOnlyForSpace'
  <2>1. CASE UNCHANGED batches
    BY <1>4, <2>1 DEF InState, Names
  <2>2. ASSUME NEW E \in SUBSET Pending, IsEviction(E, {}),
               batches' = SetState(E, "evicted")
        PROVE  EvictedOnlyForSpace'
    <3>1. Renamed(E, "evicted")
      BY <2>2, SetStateRenames DEF BatchStates
    <3>2. InState("evicted")' = InState("evicted") \cup E
      BY <3>1 DEF Renamed, InState, Pending
    <3>3. \A n \in E : n \in Names /\ Bytes(NotOlder(n)) > MaxBytes
      BY <2>2, EvictionNeeded, EvictionType
    <3> QED
      BY <1>2, <1>3, <3>2, <3>3 DEF EvictedOnlyForSpace
  <2> QED
    BY <1>5, <2>1, <2>2 DEF EnforceLimit, Stuck
<1>6. ASSUME NEW S, NEW s \in BatchStates \ {"evicted"}, batches' = SetState(S, s)
      PROVE  EvictedOnlyForSpace'
  <2>1. Renamed(S, s)
    BY <1>6, SetStateRenames
  <2> QED
    BY <1>4, <2>1 DEF Renamed, InState
<1>7. ASSUME NEW lines \in SUBSET Line, NEW count \in Nat, Publish(lines, count)
      PROVE  EvictedOnlyForSpace'
  <2>1. Published(lines, count)
    BY <1>7, PublishAppends
  <2>2. InState("evicted")' \subseteq InState("evicted")
    BY <2>1 DEF Published, InState
  <2> QED
    BY <1>4, <2>2
<1>8. CASE UNCHANGED batches
  BY <1>4, <1>8 DEF InState, Names
<1> QED
  BY <1>5, <1>6, <1>7, <1>8 DEF StoreChange, BatchStates

\* The batches a step evicts.
Gone == {n \in Pending : batches'[n].state = "evicted"}

LEMMA EvictsNoMoreStep ==
    ASSUME batches \in Seq(Batch), UniqueTimes, StoreChange,
           NEW n \in Gone, \A m \in Gone : ~Older(n, m)
    PROVE  Bytes(Pending') + BytesOf(n) > MaxBytes
<1>1. Pending \in SUBSET Names /\ \A m \in Pending : batches[m].state = "pending"
  BY DEF Pending, InState
<1>2. ASSUME NEW S, NEW s \in BatchStates \ {"evicted"}, batches' = SetState(S, s)
      PROVE  FALSE
  <2>1. Renamed(S, s)
    BY <1>2, SetStateRenames
  <2> QED
    BY <1>1, <2>1 DEF Renamed, Gone
<1>3. CASE UNCHANGED batches
  BY <1>1, <1>3 DEF Gone
<1>4. ASSUME NEW lines \in SUBSET Line, NEW count \in Nat, Publish(lines, count)
      PROVE  FALSE
  <2>1. Published(lines, count)
    BY <1>4, PublishAppends
  <2> QED
    BY <1>1, <2>1 DEF Published, Gone
<1>5. ASSUME NEW stuck, NEW E \in SUBSET Pending, IsEviction(E, stuck),
             batches' = SetState(E, "evicted")
      PROVE  Bytes(Pending') + BytesOf(n) > MaxBytes
  <2>1. Renamed(E, "evicted")
    BY <1>5, SetStateRenames DEF BatchStates
  <2>2. Gone = E
    BY <1>1, <2>1 DEF Renamed, Gone
  <2>3. Pending' = Pending \ E
    BY <2>1 DEF Renamed, Pending, InState
  <2> QED
    BY <1>5, <2>2, <2>3, EvictionMinimal DEF UniqueTimes
<1> QED
  BY <1>2, <1>3, <1>4, <1>5 DEF StoreChange, EnforceLimit, BatchStates

-----------------------------------------------------------------------------
(***************************************************************************)
(* At-least-once delivery: the sender knows what became of its claim.      *)
(***************************************************************************)

Holding == {"send", "await", "delete", "quarantine", "unclaim"}
Accepted(n) == batches[n].lines \ Blank \subseteq queued
Refused(n) == batches[n].count > MaxBatchSize

\* The sender decides to delete or to quarantine its claim on an answer that
\* describes what ingest did, or would do again, with this very batch.
ClaimInv ==
    /\ spc \in Holding => claim \in Names
    /\ spc # "await" => reply = NoReply
    /\ spc = "delete" \/ (spc = "await" /\ reply = 202) => Accepted(claim)
    /\ spc = "quarantine" \/ (spc = "await" /\ reply \in {400, 413}) => Refused(claim)

SenderInv ==
    /\ SenderTypeOK
    /\ ClaimInv
    /\ DeletedOnlyIfQueued
    /\ QuarantinedOnlyIfRefused

LEMMA AnswerKept ==
    ASSUME SenderTypeOK, StoreKept, queued \subseteq queued', NEW n \in Names
    PROVE  /\ n \in Names'
           /\ Accepted(n) => Accepted(n)'
           /\ Refused(n) => Refused(n)'
BY DEF StoreKept, SameBatch, Accepted, Refused

LEMMA SettledKept ==
    ASSUME SenderInv, StoreKept, queued \subseteq queued',
           \A n \in InState("deleted")' : n \in Names /\ (n \in InState("deleted") \/ Accepted(n)),
           \A n \in InState("failed")' : n \in Names /\ (n \in InState("failed") \/ Refused(n))
    PROVE  DeletedOnlyIfQueued' /\ QuarantinedOnlyIfRefused'
<1>1. \A n \in InState("deleted") : Accepted(n)
  BY DEF SenderInv, DeletedOnlyIfQueued, Accepted
<1>2. \A n \in InState("failed") : Refused(n)
  BY DEF SenderInv, QuarantinedOnlyIfRefused, Refused
<1>3. \A n \in InState("deleted")' : Accepted(n)'
  BY <1>1, AnswerKept DEF SenderInv
<1>4. \A n \in InState("failed")' : Refused(n)'
  BY <1>2, AnswerKept DEF SenderInv
<1> QED
  BY <1>3, <1>4 DEF DeletedOnlyIfQueued, QuarantinedOnlyIfRefused, Accepted, Refused

\* A change of the buffer that settles no batch.
Unsettling ==
    /\ StoreKept
    /\ InState("deleted")' \subseteq InState("deleted")
    /\ InState("failed")' \subseteq InState("failed")

LEMMA UnchangedUnsettling ==
    ASSUME batches \in Seq(Batch), UNCHANGED batches
    PROVE  Unsettling
<1>1. StoreKept
  BY StoreChangeKeeps DEF StoreChange
<1> QED
  BY <1>1 DEF Unsettling, InState, Names

LEMMA SetStateUnsettling ==
    ASSUME batches \in Seq(Batch), NEW S, NEW s \in {"pending", "sending", "evicted"},
           batches' = SetState(S, s)
    PROVE  Unsettling
<1>1. Renamed(S, s)
  BY SetStateRenames DEF BatchStates
<1>2. StoreKept
  <2>1. Len(batches) \in Nat
    OBVIOUS
  <2> QED
    BY <1>1, <2>1 DEF Renamed, StoreKept
<1> QED
  BY <1>1, <1>2 DEF Unsettling, Renamed, InState

LEMMA EnforceUnsettling ==
    ASSUME batches \in Seq(Batch), NEW who, EnforceLimit(who)
    PROVE  Unsettling
BY UnchangedUnsettling, SetStateUnsettling DEF EnforceLimit

LEMMA PublishUnsettling ==
    ASSUME batches \in Seq(Batch), NEW lines \in SUBSET Line, NEW count \in Nat,
           Publish(lines, count)
    PROVE  Unsettling
<1>1. Published(lines, count)
  BY PublishAppends
<1>2. StoreKept
  BY StoreChangeKeeps DEF StoreChange
<1> QED
  BY <1>1, <1>2 DEF Unsettling, Published, InState

LEMMA RecoverUnsettling ==
    ASSUME batches \in Seq(Batch), RecoverClaims \/ RecoverFails
    PROVE  Unsettling
<1>1. \E S : batches' = SetState(S, "pending")
  BY DEF RecoverClaims, RecoverFails
<1> QED
  BY <1>1, SetStateUnsettling

\* What the rest of the process does to the buffer does not concern the
\* sender.
LEMMA OthersStep ==
    ASSUME SenderInv, Unsettling, UNCHANGED senderVars, mu' \in Clients \cup {Free}
    PROVE  SenderInv'
<1>1. /\ UNCHANGED spc /\ UNCHANGED claim /\ UNCHANGED delay /\ UNCHANGED grow
      /\ UNCHANGED reply /\ UNCHANGED ctx /\ UNCHANGED late /\ UNCHANGED queued
  BY DEF senderVars, senderCtl, ingestVars
<1>2. SenderTypeOK /\ StoreKept /\ ClaimInv
  BY DEF SenderInv, Unsettling
<1>3. SenderTypeOK'
  BY <1>1, <1>2 DEF SenderTypeOK, StoreTypeOK, StoreKept
<1>4. ClaimInv'
  <2>1. claim \in Names => /\ claim \in Names'
                           /\ Accepted(claim) => Accepted(claim)'
                           /\ Refused(claim) => Refused(claim)'
    BY <1>1, <1>2, AnswerKept DEF Accepted, Refused
  <2> QED
    BY <1>1, <1>2, <2>1 DEF ClaimInv, Holding
<1>5. DeletedOnlyIfQueued' /\ QuarantinedOnlyIfRefused'
  BY <1>1, SettledKept DEF Unsettling, InState
<1> QED
  BY <1>3, <1>4, <1>5 DEF SenderInv

LEMMA NextRetryDelayType ==
    ASSUME NEW d \in InitialRetryDelay .. MaximumRetryDelay
    PROVE  NextRetryDelay(d) \in InitialRetryDelay .. MaximumRetryDelay
BY SenderAssumption DEF NextRetryDelay

\* Steps of the goroutine that leave the files as they are.
LEMMA SenderQuietStep ==
    ASSUME SenderInv,
           \/ ClaimNothing \/ Send \/ OpenFails \/ Receive \/ RequestFails
           \/ DeleteFails \/ QuarantineFails \/ ReturnFails
           \/ Wake \/ PollAgain \/ Finish
    PROVE  SenderInv'
<1> USE DEF Goto, senderVars, senderCtl, ingestVars, storeVars
<1>1. SenderTypeOK /\ ClaimInv
  BY DEF SenderInv
<1>2. UNCHANGED batches /\ UNCHANGED mu /\ UNCHANGED queued /\ UNCHANGED ctx
  BY DEF ClaimNothing, Send, OpenFails, Receive, RequestFails, DeleteFails,
         QuarantineFails, ReturnFails, Wake, PollAgain, Finish
<1>3. /\ Names' = Names
      /\ \A n : Accepted(n)' = Accepted(n) /\ Refused(n)' = Refused(n)
  BY <1>2 DEF Names, Accepted, Refused
<1>4. spc' \in SenderPC /\ grow' \in BOOLEAN /\ reply' \in Statuses \cup {NoReply}
  BY <1>1 DEF ClaimNothing, Send, OpenFails, Receive, RequestFails, DeleteFails,
         QuarantineFails, ReturnFails, Wake, PollAgain, Finish, SenderTypeOK,
         SenderPC, NextStep
<1>5. delay' \in InitialRetryDelay .. MaximumRetryDelay
  <2>1. CASE Wake
    BY <1>1, <2>1, NextRetryDelayType DEF Wake, SenderTypeOK
  <2>2. CASE UNCHANGED delay
    BY <1>1, <2>2 DEF SenderTypeOK
  <2> QED
    BY <2>1, <2>2 DEF ClaimNothing, Send, OpenFails, Receive, RequestFails, DeleteFails,
           QuarantineFails, ReturnFails, PollAgain, Finish
<1>6. claim' \in {claim, NoClaim} /\ (claim' # claim => spc' \notin Holding)
  BY DEF ClaimNothing, Send, OpenFails, Receive, RequestFails, DeleteFails,
         QuarantineFails, ReturnFails, Wake, PollAgain, Finish, Holding
<1>7. spc' \in Holding => spc \in Holding /\ claim' = claim
  BY <1>6 DEF ClaimNothing, Send, OpenFails, Receive, RequestFails, DeleteFails,
         QuarantineFails, ReturnFails, Wake, PollAgain, Finish, Holding, NextStep
<1>8. late' \subseteq Names
  <2>1. CASE RequestFails
    BY <1>1, <2>1 DEF RequestFails, ClaimInv, Holding, SenderTypeOK
  <2>2. CASE UNCHANGED late
    BY <1>1, <2>2 DEF SenderTypeOK
  <2> QED
    BY <2>1, <2>2 DEF ClaimNothing, Send, OpenFails, Receive, DeleteFails,
         QuarantineFails, ReturnFails, Wake, PollAgain, Finish
<1>9. SenderTypeOK'
  BY <1>1, <1>2, <1>3, <1>4, <1>5, <1>6, <1>8 DEF SenderTypeOK, StoreTypeOK
<1>10. ClaimInv'
  <2>1. spc' = "delete" => spc = "await" /\ reply = 202
    BY DEF ClaimNothing, Send, OpenFails, Receive, RequestFails, DeleteFails,
           QuarantineFails, ReturnFails, Wake, PollAgain, Finish, NextStep
  <2>2. spc' = "quarantine" => spc = "await" /\ reply \in {400, 413}
    BY DEF ClaimNothing, Send, OpenFails, Receive, RequestFails, DeleteFails,
           QuarantineFails, ReturnFails, Wake, PollAgain, Finish, NextStep
  <2>3. spc' = "await" => spc = "send" /\ UNCHANGED reply
    BY DEF ClaimNothing, Send, OpenFails, Receive, RequestFails, DeleteFails,
           QuarantineFails, ReturnFails, Wake, PollAgain, Finish, NextStep
  <2>4. spc' # "await" => reply' = NoReply
    BY <1>1 DEF ClaimNothing, Send, OpenFails, Receive, RequestFails, DeleteFails,
           QuarantineFails, ReturnFails, Wake, PollAgain, Finish, NextStep, ClaimInv
  <2>5. ~(spc' = "await" /\ reply' \in {202, 400, 413})
    BY <1>1, <2>3 DEF ClaimInv, NoReply
  <2>6. /\ spc' \in Holding => claim' \in Names'
        /\ spc' = "delete" => Accepted(claim)
        /\ spc' = "quarantine" => Refused(claim)
    BY <1>1, <1>3, <1>7, <2>1, <2>2 DEF ClaimInv
  <2>7. /\ spc' = "delete" => Accepted(claim)'
        /\ spc' = "quarantine" => Refused(claim)'
    BY <1>2, <1>7, <2>6 DEF Holding, Accepted, Refused
  <2> QED
    BY <2>4, <2>5, <2>6, <2>7 DEF ClaimInv
<1>11. DeletedOnlyIfQueued' /\ QuarantinedOnlyIfRefused'
  BY <1>1, <1>2, UnchangedUnsettling, SettledKept
     DEF SenderTypeOK, StoreTypeOK, Unsettling, InState
<1> QED
  BY <1>9, <1>10, <1>11 DEF SenderInv

\* Steps of the goroutine that rename or remove files.
LEMMA SenderFileStep ==
    ASSUME SenderInv, Claim \/ Delete \/ Quarantine \/ Return \/ EnforceReturn
    PROVE  SenderInv'
<1> USE DEF Goto, ingestVars
<1>1. /\ SenderTypeOK /\ ClaimInv /\ batches \in Seq(Batch)
      /\ mu \in Clients \cup {Free}
  BY DEF SenderInv, SenderTypeOK, StoreTypeOK
<1>2. UNCHANGED reply /\ UNCHANGED ctx /\ UNCHANGED late /\ UNCHANGED queued /\ UNCHANGED grow
  BY DEF Claim, Delete, Quarantine, Return, EnforceReturn
<1>3. mu' \in Clients \cup {Free}
  BY <1>1 DEF Claim, Delete, Quarantine, Return, EnforceReturn, ClaimOldest, DeleteClaim,
         MoveToFailed, Unclaim, EnforceLimit, Clients
<1>4. StoreChange
  <2>1. CASE EnforceReturn
    BY <2>1 DEF EnforceReturn, StoreChange, Clients
  <2>2. CASE Claim \/ Delete \/ Quarantine \/ Return
    BY <2>2, SenderStoreChange DEF Claim, Delete, Quarantine, Return
  <2> QED
    BY <2>1, <2>2
<1>5. StoreKept
  BY <1>1, <1>4, StoreChangeKeeps
<1>6. spc' \in {"send", "claim", "enforce", "sleep"} /\ spc # "await"
  BY DEF Claim, Delete, Quarantine, Return, EnforceReturn
<1>7. /\ claim' \in Names \cup {NoClaim}
      /\ spc' = "send" => claim' \in Names
  <2>1. CASE Claim
    BY <2>1 DEF Claim
  <2>2. CASE Delete \/ Quarantine \/ Return \/ EnforceReturn
    BY <1>1, <2>2 DEF Delete, Quarantine, Return, EnforceReturn, SenderTypeOK
  <2> QED
    BY <2>1, <2>2
<1>8. delay' \in InitialRetryDelay .. MaximumRetryDelay
  <2>1. delay' \in {delay, InitialRetryDelay}
    BY DEF Claim, Delete, Quarantine, Return, EnforceReturn
  <2> QED
    BY <1>1, <2>1, SenderAssumption DEF SenderTypeOK
<1>9. SenderTypeOK'
  <2>1. Names \subseteq Names' /\ batches' \in Seq(Batch)
    BY <1>5 DEF StoreKept
  <2>2. spc' \in SenderPC
    BY <1>6 DEF SenderPC
  <2> QED
    BY <1>1, <1>2, <1>3, <1>7, <1>8, <2>1, <2>2 DEF SenderTypeOK, StoreTypeOK
<1>10. ClaimInv'
  BY <1>1, <1>2, <1>5, <1>6, <1>7 DEF ClaimInv, Holding, StoreKept
<1>11. DeletedOnlyIfQueued' /\ QuarantinedOnlyIfRefused'
  <2>1. CASE Delete
    <3>1. Renamed({claim}, "deleted") /\ Accepted(claim) /\ claim \in Names
      BY <1>1, <2>1, SetStateRenames DEF Delete, DeleteClaim, BatchStates, ClaimInv, Holding
    <3>2. /\ InState("deleted")' \subseteq InState("deleted") \cup {claim}
          /\ InState("failed")' \subseteq InState("failed")
      BY <3>1 DEF Renamed, InState
    <3> QED
      BY <1>2, <1>5, <3>1, <3>2, SettledKept DEF InState
  <2>2. CASE Quarantine
    <3>1. Renamed({claim}, "failed") /\ Refused(claim) /\ claim \in Names
      BY <1>1, <2>2, SetStateRenames DEF Quarantine, MoveToFailed, BatchStates, ClaimInv,
         Holding
    <3>2. /\ InState("failed")' \subseteq InState("failed") \cup {claim}
          /\ InState("deleted")' \subseteq InState("deleted")
      BY <3>1 DEF Renamed, InState
    <3> QED
      BY <1>2, <1>5, <3>1, <3>2, SettledKept DEF InState
  <2>3. CASE Claim \/ Return \/ EnforceReturn
    <3>1. Unsettling
      BY <1>1, <2>3, SetStateUnsettling, EnforceUnsettling
         DEF Claim, ClaimOldest, Return, Unclaim, EnforceReturn
    <3> QED
      BY <1>2, <3>1, SettledKept DEF Unsettling, InState
  <2> QED
    BY <2>1, <2>2, <2>3
<1> QED
  BY <1>9, <1>10, <1>11 DEF SenderInv

\* Ingest answers 202 only when the batch is in the stream, 413 only when it
\* will refuse the batch again; what else it does only adds to the stream.
LEMMA IngestStepKeeps ==
    ASSUME SenderInv, IngestStep
    PROVE  SenderInv'
<1> USE DEF storeVars, senderCtl
<1>1. SenderTypeOK /\ ClaimInv /\ batches \in Seq(Batch)
  BY DEF SenderInv, SenderTypeOK, StoreTypeOK
<1>2. ASSUME NEW n \in Names, NEW status \in Statuses, Answers(n, status)
      PROVE  /\ queued \subseteq queued' /\ queued' \subseteq Line
             /\ status = 202 => batches[n].lines \ Blank \subseteq queued'
             /\ status \in {400, 413} => Refused(n)
  <2>1. batches[n].lines \subseteq Line /\ queued \subseteq Line
    BY <1>1, NamesType DEF Batch, SenderTypeOK
  <2>2. \E part \in SUBSET (batches[n].lines \ Blank) :
          queued' = queued \cup part /\ (status = 202 => part = batches[n].lines \ Blank)
    <3> DEFINE valid == batches[n].lines \ Blank
    <3>1. \/ status = 202 /\ queued' = queued \cup valid
          \/ status # 202 /\ queued' = queued \cup {}
          \/ status # 202 /\ \E part \in SUBSET valid : queued' = queued \cup part
      BY <1>2 DEF Answers, Enqueue
    <3>2. valid \in SUBSET valid /\ {} \in SUBSET valid
      OBVIOUS
    <3> HIDE DEF valid
    <3>3. \E part \in SUBSET valid :
            queued' = queued \cup part /\ (status = 202 => part = valid)
      BY <3>1, <3>2, Zenon
    <3> QED
      BY <3>3 DEF valid
  <2>3. status \in {400, 413} => Refused(n)
    BY <1>2 DEF Answers, Refused
  <2> QED
    BY <2>1, <2>2, <2>3
<1>3. /\ UNCHANGED batches /\ UNCHANGED mu /\ UNCHANGED spc /\ UNCHANGED claim
      /\ UNCHANGED delay /\ UNCHANGED grow /\ UNCHANGED ctx
  BY DEF IngestStep, IngestAnswers, HandleLate, LoseLate
<1>4. Names' = Names /\ \A n : Refused(n)' = Refused(n)
  BY <1>3 DEF Names, Refused
<1>5. /\ queued \subseteq queued' /\ queued' \subseteq Line /\ late' \subseteq late
      /\ reply' \in Statuses \cup {NoReply}
      /\ spc # "await" => reply' = reply
      /\ spc = "await" /\ reply' = 202 => batches[claim].lines \ Blank \subseteq queued'
      /\ spc = "await" /\ reply' \in {400, 413} => Refused(claim)
  <2>1. ASSUME NEW status \in Statuses, IngestAnswers(status)
        PROVE  <1>5!:
    <3>1. spc = "await" /\ Answers(claim, status) /\ reply' = status /\ late' = late
      BY <2>1 DEF IngestAnswers
    <3>2. claim \in Names
      BY <1>1, <3>1 DEF ClaimInv, Holding
    <3> QED
      BY <1>2, <3>1, <3>2
  <2>2. ASSUME NEW n \in late, HandleLate(n) \/ LoseLate(n)
        PROVE  <1>5!:
    <3>1. late' \subseteq late /\ reply' = reply
      BY <2>2 DEF HandleLate, LoseLate
    <3>2. queued \subseteq queued' /\ queued' \subseteq Line
      BY <1>1, <1>2, <2>2 DEF HandleLate, LoseLate, SenderTypeOK
    <3> QED
      BY <1>1, <3>1, <3>2 DEF ClaimInv, Accepted, SenderTypeOK
  <2> QED
    BY <2>1, <2>2 DEF IngestStep
<1>6. SenderTypeOK'
  BY <1>1, <1>3, <1>4, <1>5 DEF SenderTypeOK, StoreTypeOK
<1>7. ClaimInv'
  <2>1. spc = "delete" => Accepted(claim)'
    BY <1>1, <1>3, <1>5 DEF ClaimInv, Accepted
  <2>2. spc = "await" /\ reply' = 202 => Accepted(claim)'
    BY <1>3, <1>5 DEF Accepted
  <2>3. spc = "quarantine" \/ (spc = "await" /\ reply' \in {400, 413}) => Refused(claim)'
    BY <1>1, <1>3, <1>5 DEF ClaimInv, Refused
  <2> QED
    BY <1>1, <1>3, <1>4, <1>5, <2>1, <2>2, <2>3 DEF ClaimInv
<1>8. DeletedOnlyIfQueued' /\ QuarantinedOnlyIfRefused'
  <2>1. Unsettling
    BY <1>1, <1>3, UnchangedUnsettling
  <2> QED
    BY <1>5, <2>1, SettledKept DEF Unsettling, InState
<1> QED
  BY <1>6, <1>7, <1>8 DEF SenderInv

\* A signal, the end of the process and its start leave no decision open.
LEMMA CancelKeeps ==
    ASSUME SenderInv, Cancel
    PROVE  SenderInv'
<1>1. /\ UNCHANGED batches /\ UNCHANGED mu /\ UNCHANGED spc /\ UNCHANGED claim
      /\ UNCHANGED delay /\ UNCHANGED grow /\ UNCHANGED reply /\ UNCHANGED late
      /\ UNCHANGED queued /\ ctx' = TRUE
  BY DEF Cancel, storeVars, senderCtl, ingestVars
<1> QED
  BY <1>1 DEF SenderInv, SenderTypeOK, StoreTypeOK, ClaimInv, Holding, Accepted, Refused,
     DeletedOnlyIfQueued, QuarantinedOnlyIfRefused, InState, Names

LEMMA RestartKeeps ==
    ASSUME SenderInv, Unsettling, mu' \in Clients \cup {Free}, KillSender \/ StartSender
    PROVE  SenderInv'
<1>1. /\ SenderTypeOK /\ ClaimInv /\ StoreKept
      /\ Names \subseteq Names' /\ batches' \in Seq(Batch)
  BY DEF SenderInv, Unsettling, StoreKept
<1>2. /\ spc' \in {"claim", "done"} /\ claim' = NoClaim /\ reply' = NoReply
      /\ delay' = InitialRetryDelay /\ grow' = FALSE /\ ctx' = FALSE /\ UNCHANGED queued
  BY DEF KillSender, StartSender, ingestVars
<1>3. late' \subseteq Names
  BY <1>1 DEF KillSender, StartSender, ingestVars, SenderTypeOK, ClaimInv, Holding
<1>4. SenderTypeOK'
  <2>1. delay' \in InitialRetryDelay .. MaximumRetryDelay
    BY <1>2, SenderAssumption
  <2>2. spc' \in SenderPC
    BY <1>2 DEF SenderPC
  <2> QED
    BY <1>1, <1>2, <1>3, <2>1, <2>2 DEF SenderTypeOK, StoreTypeOK
<1>5. ClaimInv'
  BY <1>2 DEF ClaimInv, Holding
<1>6. DeletedOnlyIfQueued' /\ QuarantinedOnlyIfRefused'
  BY <1>2, SettledKept DEF Unsettling, InState
<1> QED
  BY <1>4, <1>5, <1>6 DEF SenderInv

LEMMA SenderRunKeeps ==
    ASSUME SenderInv, SenderRun
    PROVE  SenderInv'
BY SenderQuietStep, SenderFileStep DEF SenderRun

LEMMA SenderInvInit ==
    ASSUME StoreInit, SenderInit
    PROVE  SenderInv
<1>1. batches = <<>> /\ Names = {} /\ batches \in Seq(Batch)
  BY DEF StoreInit, Names
<1>2. delay \in InitialRetryDelay .. MaximumRetryDelay
  BY SenderAssumption DEF SenderInit
<1>3. SenderTypeOK
  BY <1>1, <1>2 DEF StoreInit, SenderInit, SenderTypeOK, StoreTypeOK, SenderPC
<1>4. ClaimInv
  BY DEF SenderInit, ClaimInv, Holding
<1> QED
  BY <1>1, <1>3, <1>4 DEF SenderInv, DeletedOnlyIfQueued, QuarantinedOnlyIfRefused, InState

-----------------------------------------------------------------------------
(***************************************************************************)
(* Claims: when renames succeed, what is claimed is what the sender holds. *)
(***************************************************************************)

Tidy == Sending \subseteq {claim}
IdleInv == spc \notin Holding => claim = NoClaim

LEMMA IdleRun ==
    ASSUME IdleInv, SenderRun
    PROVE  IdleInv'
<1> USE DEF Goto, IdleInv, Holding
<1>1. CASE Claim \/ Send \/ OpenFails \/ Receive \/ RequestFails
           \/ DeleteFails \/ QuarantineFails
  BY <1>1 DEF Claim, Send, OpenFails, Receive, RequestFails, DeleteFails, QuarantineFails,
     NextStep
<1>2. CASE ClaimNothing \/ Delete \/ Quarantine \/ Return \/ ReturnFails \/ EnforceReturn
           \/ Wake \/ PollAgain \/ Finish
  BY <1>2 DEF ClaimNothing, Delete, Quarantine, Return, ReturnFails, EnforceReturn,
     Wake, PollAgain, Finish
<1> QED
  BY <1>1, <1>2 DEF SenderRun

LEMMA SendingKept ==
    ASSUME batches \in Seq(Batch),
           \/ UNCHANGED batches
           \/ \E lines \in SUBSET Line, count \in Nat : Publish(lines, count)
           \/ \E who : EnforceLimit(who)
    PROVE  Sending' \subseteq Sending
<1>1. ASSUME NEW lines \in SUBSET Line, NEW count \in Nat, Publish(lines, count)
      PROVE  Sending' \subseteq Sending
  <2>1. Published(lines, count)
    BY <1>1, PublishAppends
  <2> QED
    BY <2>1 DEF Published, Sending, InState
<1>2. ASSUME NEW E, batches' = SetState(E, "evicted")
      PROVE  Sending' \subseteq Sending
  <2>1. Renamed(E, "evicted")
    BY <1>2, SetStateRenames DEF BatchStates
  <2> QED
    BY <2>1 DEF Renamed, Sending, InState
<1>3. CASE UNCHANGED batches
  BY <1>3 DEF Sending, InState, Names
<1> QED
  BY <1>1, <1>2, <1>3 DEF EnforceLimit

LEMMA TidyRun ==
    ASSUME "rename_fault" \notin Env, batches \in Seq(Batch), IdleInv, Tidy, SenderRun
    PROVE  Tidy'
<1> USE DEF Goto, storeVars
<1>1. Len(batches) \in Nat /\ Names = 1 .. Len(batches)
  BY NamesType
<1>2. Sending \subseteq Names
  BY DEF Sending, InState
<1>3. CASE Claim
  <2>1. PICK n \in Names : batches' = SetState({n}, "sending") /\ claim' = n
    BY <1>3 DEF Claim, ClaimOldest
  <2>2. Renamed({n}, "sending")
    BY <2>1, SetStateRenames DEF BatchStates
  <2>3. Sending = {}
    BY <1>1, <1>2, <1>3 DEF Tidy, IdleInv, Holding, Claim, NoClaim
  <2>4. Sending' \subseteq Sending \cup {n}
    BY <2>2 DEF Renamed, Sending, InState
  <2> QED
    BY <2>1, <2>3, <2>4 DEF Tidy
<1>4. CASE Delete \/ Quarantine \/ Return
  <2>1. PICK s \in {"pending", "deleted", "failed"} : batches' = SetState({claim}, s)
    BY <1>4 DEF Delete, DeleteClaim, Quarantine, MoveToFailed, Return, Unclaim
  <2>2. Renamed({claim}, s)
    BY <2>1, SetStateRenames DEF BatchStates
  <2>3. Sending' \subseteq Sending \ {claim}
    BY <2>2 DEF Renamed, Sending, InState
  <2> QED
    BY <2>3 DEF Tidy
<1>5. CASE EnforceReturn
  <2>1. Sending' \subseteq Sending /\ claim' = claim
    BY <1>5, SendingKept DEF EnforceReturn
  <2> QED
    BY <2>1 DEF Tidy
<1>6. CASE ClaimNothing \/ Send \/ OpenFails \/ Receive \/ RequestFails \/ DeleteFails
           \/ Wake \/ PollAgain \/ Finish
  <2>1. UNCHANGED batches /\ UNCHANGED claim
    BY <1>6 DEF ClaimNothing, Send, OpenFails, Receive, RequestFails, DeleteFails,
       Wake, PollAgain, Finish
  <2> QED
    BY <2>1 DEF Tidy, Sending, InState, Names
<1> QED
  BY <1>3, <1>4, <1>5, <1>6 DEF SenderRun, QuarantineFails, ReturnFails

LEMMA RecoverReturnsAll ==
    ASSUME batches \in Seq(Batch), RecoverClaims
    PROVE  Sending' = {} /\ Pending' = Pending \cup Sending
<1>1. Renamed(Sending, "pending")
  BY SetStateRenames DEF RecoverClaims, BatchStates
<1> QED
  BY <1>1 DEF Renamed, Sending, Pending, InState

-----------------------------------------------------------------------------
(***************************************************************************)
(* The limit: when removals and inspections succeed, whoever adds to the   *)
(* queue leaves it within the limit before releasing the lock.             *)
(***************************************************************************)

WithinLimit == mu = Free => Bytes(Pending) <= MaxBytes

LEMMA PendingShrinks ==
    ASSUME batches \in Seq(Batch), StoreKept, Pending' \subseteq Pending,
           Bytes(Pending) <= MaxBytes
    PROVE  Bytes(Pending)' <= MaxBytes
<1>1. Pending \in SUBSET Names /\ Pending' \in SUBSET Pending
  BY DEF Pending, InState
<1>2. Sized(batches, Pending) /\ Sized(batches, Pending')
  BY <1>1, NamesSized
<1>3. TotalOf(batches, Pending') <= TotalOf(batches, Pending)
  BY <1>1, <1>2, TotalMonotone
<1>4. TotalOf(batches', Pending') = TotalOf(batches, Pending')
  BY <1>1, TotalSame DEF StoreKept, SameBatch
<1>5. Bytes(Pending) = TotalOf(batches, Pending) /\ Bytes(Pending)' = TotalOf(batches', Pending')
  BY DEF Bytes, BytesIn, BytesOf, TotalOf, BytesWithin
<1>6. TotalOf(batches, Pending) \in Nat /\ TotalOf(batches, Pending') \in Nat
  BY <1>2, TotalType
<1> QED
  BY <1>3, <1>4, <1>5, <1>6, StoreAssumption

LEMMA EnforceWithinLimit ==
    ASSUME Env \cap {"remove_fault", "readdir_fault"} = {}, batches \in Seq(Batch),
           NEW who, EnforceLimit(who)
    PROVE  WithinLimit'
<1>1. PICK E \in SUBSET Pending : IsEviction(E, {}) /\ batches' = SetState(E, "evicted")
  BY DEF EnforceLimit, Stuck
<1>2. Renamed(E, "evicted")
  BY <1>1, SetStateRenames DEF BatchStates
<1>3. Pending' = Pending \ E /\ Pending \in SUBSET Names
  BY <1>2 DEF Renamed, Pending, InState
<1>4. Bytes(Pending \ E) <= MaxBytes
  BY <1>1, EvictionSuffices
<1>5. TotalOf(batches', Pending') = TotalOf(batches, Pending \ E)
  BY <1>2, <1>3, TotalSame DEF Renamed, SameBatch
<1>6. Bytes(Pending)' = TotalOf(batches', Pending')
  BY DEF Bytes, BytesIn, BytesOf, TotalOf, BytesWithin
<1> QED
  BY <1>4, <1>5, <1>6, BytesAreTotal DEF WithinLimit

LEMMA UnchangedWithinLimit ==
    ASSUME WithinLimit, UNCHANGED storeVars
    PROVE  WithinLimit'
BY DEF WithinLimit, storeVars, Bytes, BytesIn, BytesOf, Pending, InState, Names

LEMMA SenderWithinLimit ==
    ASSUME Env \cap {"remove_fault", "readdir_fault"} = {}, batches \in Seq(Batch),
           WithinLimit, SenderRun
    PROVE  WithinLimit'
<1> USE DEF Goto
<1>1. ASSUME NEW n, NEW s \in BatchStates \ {"pending"}, mu = Free,
             batches' = SetState({n}, s)
      PROVE  WithinLimit'
  <2>1. Renamed({n}, s)
    BY <1>1, SetStateRenames
  <2>2. Pending' \subseteq Pending
    BY <2>1 DEF Renamed, Pending, InState
  <2>3. StoreKept
    <3>1. Len(batches) \in Nat
      OBVIOUS
    <3> QED
      BY <2>1, <3>1 DEF Renamed, StoreKept
  <2> QED
    BY <1>1, <2>2, <2>3, PendingShrinks DEF WithinLimit
<1>2. CASE Claim \/ Delete \/ Quarantine
  BY <1>1, <1>2 DEF Claim, ClaimOldest, Delete, DeleteClaim, Quarantine, MoveToFailed,
     BatchStates
<1>3. CASE Return
  BY <1>3 DEF Return, Unclaim, WithinLimit, Free
<1>4. CASE EnforceReturn
  BY <1>4, EnforceWithinLimit DEF EnforceReturn
<1>5. CASE ClaimNothing \/ Send \/ OpenFails \/ Receive \/ RequestFails \/ DeleteFails
           \/ QuarantineFails \/ ReturnFails \/ Wake \/ PollAgain \/ Finish
  <2>1. UNCHANGED storeVars
    BY <1>5 DEF ClaimNothing, Send, OpenFails, Receive, RequestFails, DeleteFails,
       QuarantineFails, ReturnFails, Wake, PollAgain, Finish
  <2> QED
    BY <2>1, UnchangedWithinLimit
<1> QED
  BY <1>2, <1>3, <1>4, <1>5 DEF SenderRun
=============================================================================
