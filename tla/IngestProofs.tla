---------------------------- MODULE IngestProofs ----------------------------
(***************************************************************************)
(* For every number of services and of handlers and every limit: the       *)
(* overrun of the queue is bounded, answers tell the sender the truth, the *)
(* stream carries retentions that services have had, and keys keep working.*)
(***************************************************************************)
EXTENDS Ingest, FiniteSetTheorems, TLAPS

\* A request that has passed the lookup carries a service and a retention the
\* service has had; so do the table, the cache, the rows of a refresh, the
\* entries of the stream and the pipelines that Redis may still get to.
HadOrNone(table) == \A s \in Service : table[s] # NoRow => table[s] \in hadDays[s]

Identified(r) ==
    r.at \in {"length", "body", "add"} =>
        r.service \in Service /\ r.days \in hadDays[r.service]

IdentityInv ==
    /\ HadOrNone(services)
    /\ HadOrNone(entries)
    /\ rows # NoRows => HadOrNone(rows)
    /\ \A h \in Handler : Identified(req[h])
    /\ IdentityFromKey
    /\ \A p \in strays : p.from.days \in hadDays[p.from.service]

\* uint16(retentionDays) is a uint16, and is the retention where Refresh has
\* accepted it.
LEMMA LoadedType ==
    ASSUME NEW table \in [Service -> Nat]
    PROVE  /\ Loaded(table) \in [Service -> 0 .. MaxDays]
           /\ Acceptable(table) => Loaded(table) = table
<1>1. ASSUME NEW n \in Nat
      PROVE  /\ n % (MaxDays + 1) \in 0 .. MaxDays
             /\ n <= MaxDays => n % (MaxDays + 1) = n
  BY IngestAssumption
<1>2. Acceptable(table) => \A s \in Service : table[s] <= MaxDays
  BY IngestAssumption DEF Acceptable, NoRow
<1> QED
  BY <1>1, <1>2 DEF Loaded

\* What a handler does to its request leaves it a request.
LEMMA AnswerType ==
    ASSUME NEW r \in Request, NEW status \in Statuses
    PROVE  [r EXCEPT !.at = "answered", !.status = status] \in Request
BY DEF Request, Phases

LEMMA AnsweredType ==
    ASSUME NEW r \in Request, NEW X \in SUBSET (1 .. MaxBatchSize), NEW status \in Statuses
    PROVE  [r EXCEPT !.at = "answered", !.queued = r.queued \cup X, !.status = status] \in Request
BY DEF Request, Phases

LEMMA RetriedType ==
    ASSUME NEW r \in Request, NEW X \in SUBSET (1 .. MaxBatchSize), r.retries > 0
    PROVE  [r EXCEPT !.queued = r.queued \cup X, !.retries = r.retries - 1] \in Request
<1>1. r.retries - 1 \in 0 .. MaxRetries
  <2>1. r.retries \in 0 .. MaxRetries
    BY DEF Request
  <2> QED
    BY <2>1, IngestAssumption
<1>2. r.queued \cup X \in SUBSET (1 .. MaxBatchSize)
  BY DEF Request
<1> QED
  BY <1>1, <1>2 DEF Request

LEMMA LookupType ==
    ASSUME NEW r \in Request, NEW s \in Service, NEW d \in 0 .. MaxDays
    PROVE  [r EXCEPT !.at = "length", !.service = s, !.days = d] \in Request
BY DEF Request, Phases

LEMMA BodyType ==
    ASSUME NEW r \in Request
    PROVE  [r EXCEPT !.at = "body"] \in Request
BY DEF Request, Phases

LEMMA ValidType ==
    ASSUME NEW r \in Request, NEW n \in 0 .. MaxBatchSize
    PROVE  [r EXCEPT !.at = "add", !.valid = n] \in Request
BY DEF Request, Phases

LEMMA RetriesType ==
    ASSUME NEW r \in Request
    PROVE  r.retries \in Nat
<1>1. r.retries \in 0 .. MaxRetries
  BY DEF Request
<1> QED
  BY <1>1, IngestAssumption

LEMMA IdleType == Idle \in Request
BY IngestAssumption DEF Idle, Request, Phases

LEMMA RecordCount ==
    ASSUME NEW S \in SUBSET (1 .. MaxBatchSize)
    PROVE  Cardinality(S) \in 0 .. MaxBatchSize
<1>1. IsFiniteSet(1 .. MaxBatchSize) /\ Cardinality(1 .. MaxBatchSize) = MaxBatchSize
  BY IngestAssumption, FS_Interval
<1>2. IsFiniteSet(S) /\ Cardinality(S) <= MaxBatchSize
  BY <1>1, FS_Subset
<1> QED
  BY <1>2, FS_CardinalityType, IngestAssumption

\* What an attempt does to the request, and to the attempts Redis may still
\* get to.
Attempted(h, X) ==
    \/ X = 1 .. req[h].valid /\ Answered(h, X, 202)
    \/ Answered(h, X, 503)
    \/ Retried(h, X)

Behind(h) == UNCHANGED strayVars \/ \E n \in 0 .. MaxBatchSize : LeftBehind(h, n)

\* An attempt adds some of the records of one batch.
LEMMA AddBatchEffect ==
    ASSUME IngestTypeOK, NEW h \in Handler, AddBatch(h)
    PROVE  \E X \in SUBSET (1 .. MaxBatchSize) :
               /\ X \subseteq 1 .. req[h].valid
               /\ Executed(h, X) /\ Attempted(h, X) /\ Behind(h)
<1> DEFINE records == 1 .. req[h].valid
<1>1. records \in SUBSET (1 .. MaxBatchSize)
  <2>1. req[h].valid \in 0 .. MaxBatchSize
    BY DEF IngestTypeOK, Request
  <2> QED
    BY <2>1, IngestAssumption
<1>2. CASE Executed(h, records) /\ Answered(h, records, 202) /\ UNCHANGED strayVars
  BY <1>1, <1>2 DEF Attempted, Behind
<1>3. ASSUME NEW X \in SUBSET records,
             Executed(h, X), Answered(h, X, 503) \/ Retried(h, X),
             UNCHANGED strayVars \/ LeftBehind(h, Cardinality(records \ X))
      PROVE  X \in SUBSET (1 .. MaxBatchSize) /\ Executed(h, X) /\ Attempted(h, X) /\ Behind(h)
  <2>1. Cardinality(records \ X) \in 0 .. MaxBatchSize
    BY <1>1, RecordCount
  <2>2. Behind(h)
    BY <1>3, <2>1 DEF Behind
  <2> QED
    BY <1>1, <1>3, <2>2 DEF Attempted
<1> QED
  BY <1>2, <1>3 DEF AddBatch

\* A handler's step replaces its own request by another one.
LEMMA HandleReq ==
    ASSUME IngestTypeOK, NEW h \in Handler, Handle(h)
    PROVE  \E r \in Request : req' = [req EXCEPT ![h] = r]
<1>0. req[h] \in Request
  BY DEF IngestTypeOK
<1>1. ASSUME NEW status \in Statuses, Answer(h, status)
      PROVE  \E r \in Request : req' = [req EXCEPT ![h] = r]
  <2>1. [req[h] EXCEPT !.at = "answered", !.status = status] \in Request
    BY <1>0, AnswerType
  <2> QED
    BY <1>1, <2>1 DEF Answer
<1>2. ASSUME NEW s \in Service, Lookup(h, s)
      PROVE  \E r \in Request : req' = [req EXCEPT ![h] = r]
  <2>1. entries[s] \in 0 .. MaxDays
    BY DEF IngestTypeOK
  <2>2. [req[h] EXCEPT !.at = "length", !.service = s, !.days = entries[s]] \in Request
    BY <1>0, <2>1, LookupType
  <2>3. 401 \in Statuses
    BY DEF Statuses
  <2> QED
    BY <1>1, <1>2, <2>2, <2>3 DEF Lookup
<1>3. CASE CheckLength(h)
  <2>1. [req[h] EXCEPT !.at = "body"] \in Request
    BY <1>0, BodyType
  <2>2. 429 \in Statuses /\ 503 \in Statuses
    BY DEF Statuses
  <2> QED
    BY <1>1, <1>3, <2>1, <2>2 DEF CheckLength
<1>4. CASE ReadBody(h)
  <2>1. ASSUME NEW v \in 1 .. MaxBatchSize
        PROVE  [req[h] EXCEPT !.at = "add", !.valid = v] \in Request
    <3>1. v \in 0 .. MaxBatchSize
      BY IngestAssumption
    <3> QED
      BY <1>0, <3>1, ValidType
  <2>2. 202 \in Statuses /\ \A s \in {400, 413, 415} : s \in Statuses
    BY DEF Statuses
  <2> QED
    BY <1>1, <1>4, <2>1, <2>2 DEF ReadBody
<1>5. CASE AddBatch(h)
  <2>1. PICK X \in SUBSET (1 .. MaxBatchSize) : Attempted(h, X)
    BY <1>5, AddBatchEffect
  <2>2. ASSUME NEW status \in Statuses, Answered(h, X, status)
        PROVE  \E r \in Request : req' = [req EXCEPT ![h] = r]
    <3>1. [req[h] EXCEPT !.at = "answered", !.queued = req[h].queued \cup X, !.status = status] \in Request
      BY <1>0, AnsweredType
    <3> QED
      BY <2>2, <3>1 DEF Answered
  <2>3. ASSUME Retried(h, X)
        PROVE  \E r \in Request : req' = [req EXCEPT ![h] = r]
    <3>1. [req[h] EXCEPT !.queued = req[h].queued \cup X, !.retries = req[h].retries - 1] \in Request
      BY <1>0, <2>3, RetriedType DEF Retried
    <3> QED
      BY <2>3, <3>1 DEF Retried
  <2>4. 202 \in Statuses /\ 503 \in Statuses
    BY DEF Statuses
  <2> QED
    BY <2>1, <2>2, <2>3, <2>4 DEF Attempted
<1>6. CASE Finished(h)
  BY <1>6, IdleType DEF Finished
<1> QED
  BY <1>2, <1>3, <1>4, <1>5, <1>6 DEF Handle

\* A handler touches nothing but its request and the stream.
LEMMA HandleFrame ==
    ASSUME NEW h \in Handler, Handle(h)
    PROVE  UNCHANGED <<services, hadDays, process, entries, rows>>
BY DEF Handle, Lookup, CheckLength, ReadBody, AddBatch, Finished, dbVars, cacheVars

\* What a handler adds to the stream is at most a batch, and carries the
\* identity of its request, as does what it leaves behind.
LEMMA HandleStream ==
    ASSUME IngestTypeOK, IdentityInv, NEW h \in Handler, Handle(h)
    PROVE  /\ length' \in Nat
           /\ length' <= length + (IF req[h].at = "add" THEN MaxBatchSize ELSE 0)
           /\ identities' \subseteq Identity
           /\ \A e \in identities' : e.days \in hadDays[e.service]
           /\ strays' \subseteq Stray /\ IsFiniteSet(strays') /\ late' = late
           /\ \A p \in strays' : p.from.days \in hadDays[p.from.service]
<1>0. /\ req[h] \in Request /\ length \in Nat /\ identities \subseteq Identity
      /\ strays \subseteq Stray /\ IsFiniteSet(strays) /\ late \in Nat
  BY DEF IngestTypeOK
<1>1. CASE AddBatch(h)
  <2>1. PICK X \in SUBSET (1 .. MaxBatchSize) : Executed(h, X) /\ Behind(h)
    BY <1>1, AddBatchEffect
  <2>2. Cardinality(X) \in Nat /\ Cardinality(X) <= MaxBatchSize
    BY RecordCount, IngestAssumption
  <2>3. req[h].at = "add" /\ length' = length + Cardinality(X)
    BY <1>1, <2>1 DEF AddBatch, Executed
  <2>4. IdentityOf(h) \in Identity /\ IdentityOf(h).days \in hadDays[IdentityOf(h).service]
    <3>1. Identified(req[h])
      BY DEF IdentityInv
    <3>2. req[h].days \in 0 .. MaxDays
      BY <1>0 DEF Request
    <3> QED
      BY <2>3, <3>1, <3>2, IngestAssumption DEF Identified, IdentityOf, Identity
  <2>5. identities' \subseteq identities \cup {IdentityOf(h)}
    BY <2>1 DEF Executed
  <2>6. /\ strays' \subseteq Stray /\ IsFiniteSet(strays') /\ late' = late
        /\ \A p \in strays' : p.from.days \in hadDays[p.from.service]
    <3>1. CASE UNCHANGED strayVars
      BY <1>0, <3>1 DEF strayVars, IdentityInv
    <3>2. CASE ~UNCHANGED strayVars
      <4>1. PICK n \in 0 .. MaxBatchSize : LeftBehind(h, n)
        BY <2>1, <3>2 DEF Behind
      <4> DEFINE p == [id |-> late + Cardinality(strays), from |-> IdentityOf(h),
                       records |-> n]
      <4>2. strays' = strays \cup {p} /\ late' = late
        BY <4>1 DEF LeftBehind
      <4>3. p.from = IdentityOf(h)
        OBVIOUS
      <4>4. p \in Stray
        <5>1. late + Cardinality(strays) \in Nat
          BY <1>0, FS_CardinalityType
        <5> QED
          BY <2>4, <5>1 DEF Stray
      <4> HIDE DEF p
      <4>5. IsFiniteSet(strays')
        BY <1>0, <4>2, FS_AddElement
      <4> QED
        BY <1>0, <2>4, <4>2, <4>3, <4>4, <4>5 DEF IdentityInv
    <3> QED
      BY <3>1, <3>2
  <2> QED
    BY <1>0, <2>2, <2>3, <2>4, <2>5, <2>6, IngestAssumption DEF IdentityInv, IdentityFromKey
<1>2. CASE ~AddBatch(h)
  <2>1. UNCHANGED <<length, identities, strays, late>>
    BY <1>2 DEF Handle, Lookup, CheckLength, ReadBody, Finished, streamVars, strayVars
  <2> QED
    BY <1>0, <2>1, IngestAssumption DEF IdentityInv, IdentityFromKey
<1> QED
  BY <1>1, <1>2

\* A request keeps the identity it was given by the lookup.
LEMMA HandleIdentified ==
    ASSUME IngestTypeOK, IdentityInv, NEW h \in Handler, Handle(h)
    PROVE  Identified(req'[h])
<1>0. req[h] \in Request /\ Identified(req[h]) /\ h \in DOMAIN req
  BY DEF IngestTypeOK, IdentityInv
<1>1. ASSUME NEW status, Answer(h, status) PROVE Identified(req'[h])
  BY <1>0, <1>1 DEF Answer, Identified, Request
<1>2. ASSUME NEW s \in Service, Lookup(h, s) PROVE Identified(req'[h])
  <2>1. CASE entries[s] = NoRow
    BY <1>1, <1>2, <2>1 DEF Lookup
  <2>2. CASE entries[s] # NoRow
    <3>1. entries[s] \in hadDays[s] /\ UNCHANGED hadDays
      BY <1>2, <2>2 DEF Lookup, IdentityInv, HadOrNone, dbVars
    <3>2. req'[h] = [req[h] EXCEPT !.at = "length", !.service = s, !.days = entries[s]]
      BY <1>0, <1>2, <2>2 DEF Lookup
    <3>3. req'[h].service = s /\ req'[h].days = entries[s]
      BY <1>0, <3>2 DEF Request
    <3> QED
      BY <3>1, <3>3 DEF Identified
  <2> QED
    BY <2>1, <2>2
<1>3. CASE CheckLength(h)
  <2>1. CASE req' = [req EXCEPT ![h] = [@ EXCEPT !.at = "body"]]
    BY <1>0, <1>3, <2>1 DEF CheckLength, Identified, Request
  <2> QED
    BY <1>1, <1>3, <2>1 DEF CheckLength
<1>4. CASE ReadBody(h)
  <2>1. ASSUME NEW v \in 1 .. MaxBatchSize,
               req' = [req EXCEPT ![h] = [@ EXCEPT !.at = "add", !.valid = v]]
        PROVE  Identified(req'[h])
    BY <1>0, <1>4, <2>1 DEF ReadBody, Identified, Request
  <2> QED
    BY <1>1, <1>4, <2>1 DEF ReadBody
<1>5. CASE AddBatch(h)
  <2>1. PICK X \in SUBSET (1 .. MaxBatchSize) : Attempted(h, X)
    BY <1>5, AddBatchEffect
  <2>a. ASSUME NEW status, Answered(h, X, status)
        PROVE  req'[h].service = req[h].service /\ req'[h].days = req[h].days
    BY <1>0, <2>a DEF Answered, Request
  <2>b. ASSUME Retried(h, X)
        PROVE  req'[h].service = req[h].service /\ req'[h].days = req[h].days
    BY <1>0, <2>b DEF Retried, Request
  <2>2. req'[h].service = req[h].service /\ req'[h].days = req[h].days
    BY <2>1, <2>a, <2>b DEF Attempted
  <2>3. req[h].at = "add" /\ UNCHANGED hadDays
    BY <1>5 DEF AddBatch, dbVars
  <2> QED
    BY <1>0, <2>2, <2>3 DEF Identified
<1>6. CASE Finished(h)
  BY <1>0, <1>6 DEF Finished, Idle, Identified
<1> QED
  BY <1>2, <1>3, <1>4, <1>5, <1>6 DEF Handle

\* Every step keeps the types: in particular no cached or captured retention
\* leaves 16 bits and no handler writes more than a batch.
LEMMA TypeStep ==
    IngestTypeOK /\ IdentityInv /\ [IngestNext]_ingestVars => IngestTypeOK'
<1> SUFFICES ASSUME IngestTypeOK, IdentityInv, [IngestNext]_ingestVars
             PROVE  IngestTypeOK'
  OBVIOUS
<1> USE IngestAssumption DEF IngestTypeOK, NoRow, dbVars, cacheVars, streamVars, strayVars
<1>1. ASSUME NEW s \in Service, NEW d \in Days, CreateService(s, d) \/ UpdateService(s, d)
      PROVE  IngestTypeOK'
  <2>1. SetRetention(s, d)
    BY <1>1 DEF CreateService, UpdateService
  <2>2. d \in Nat
    BY <2>1 DEF SetRetention
  <2> QED
    BY <2>1, <2>2 DEF SetRetention
<1>2. CASE StartIngest
  BY <1>2, LoadedType DEF StartIngest
<1>3. CASE QueryRows
  BY <1>3 DEF QueryRows
<1>4. CASE SwapEntries
  <2>1. rows \in [Service -> Nat]
    BY <1>4 DEF SwapEntries
  <2> QED
    BY <1>4, <2>1, LoadedType DEF SwapEntries
<1>5. CASE CrashIngest
  BY <1>5, IdleType DEF CrashIngest
<1>6. ASSUME NEW h \in Handler, Handle(h)
      PROVE  IngestTypeOK'
  <2>1. req' \in [Handler -> Request]
    BY <1>6, HandleReq
  <2>2. /\ length' \in Nat /\ identities' \subseteq Identity
        /\ strays' \subseteq Stray /\ IsFiniteSet(strays') /\ late' = late
    BY <1>6, HandleStream
  <2> QED
    BY <1>6, <2>1, <2>2, HandleFrame
<1>7. ASSUME NEW p \in strays, StrayExecuted(p)
      PROVE  IngestTypeOK'
  <2>1. p.records \in Nat /\ p.from \in Identity
    BY DEF Stray
  <2>2. IsFiniteSet(strays \ {p})
    BY FS_RemoveElement
  <2> QED
    BY <1>7, <2>1, <2>2 DEF StrayExecuted
<1>8. CASE UNCHANGED ingestVars
  BY <1>8 DEF ingestVars
<1> QED
  BY <1>1, <1>2, <1>3, <1>4, <1>5, <1>6, <1>7, <1>8 DEF IngestNext, Admin

\* Every step keeps the identities honest.
LEMMA IdentityStep ==
    IngestTypeOK /\ IdentityInv /\ [IngestNext]_ingestVars => IdentityInv'
<1> SUFFICES ASSUME IngestTypeOK, IdentityInv, [IngestNext]_ingestVars
             PROVE  IdentityInv'
  OBVIOUS
<1> USE DEF HadOrNone, Identified, IdentityFromKey, dbVars, cacheVars, streamVars, strayVars
<1>1. ASSUME NEW s \in Service, NEW d \in Days, CreateService(s, d) \/ UpdateService(s, d)
      PROVE  IdentityInv'
  <2>1. SetRetention(s, d)
    BY <1>1 DEF CreateService, UpdateService
  <2>2. \A t \in Service : hadDays[t] \subseteq hadDays'[t]
    BY <2>1 DEF SetRetention, IngestTypeOK
  <2>3. HadOrNone(services)'
    BY <2>1, <2>2 DEF SetRetention, IngestTypeOK, IdentityInv
  <2>4. /\ \A e \in identities : e.service \in Service
        /\ \A p \in strays : p.from.service \in Service
    BY DEF IngestTypeOK, Identity, Stray
  <2> QED
    BY <2>1, <2>2, <2>3, <2>4 DEF SetRetention, IdentityInv
<1>2. CASE StartIngest
  BY <1>2, LoadedType DEF StartIngest, IdentityInv, IngestTypeOK
<1>3. CASE QueryRows
  BY <1>3 DEF QueryRows, IdentityInv
<1>4. CASE SwapEntries
  <2>1. rows \in [Service -> Nat]
    BY <1>4 DEF SwapEntries, IngestTypeOK
  <2>2. HadOrNone(entries)'
    BY <1>4, <2>1, LoadedType DEF SwapEntries, IdentityInv
  <2> QED
    BY <1>4, <2>2 DEF SwapEntries, IdentityInv
<1>5. CASE CrashIngest
  BY <1>5 DEF CrashIngest, IdentityInv, Idle
<1>6. ASSUME NEW h \in Handler, Handle(h)
      PROVE  IdentityInv'
  <2>1. UNCHANGED <<services, hadDays, process, entries, rows>>
    BY <1>6, HandleFrame
  <2>2. PICK r \in Request : req' = [req EXCEPT ![h] = r]
    BY <1>6, HandleReq
  <2>3. req[h] \in Request
    BY DEF IngestTypeOK
  <2>4. Identified(req'[h])
    BY <1>6, HandleIdentified
  <2>5. \A g \in Handler : Identified(req[g])'
    BY <2>1, <2>2, <2>4 DEF IdentityInv, IngestTypeOK
  <2>6. IdentityFromKey' /\ \A p \in strays' : p.from.days \in hadDays'[p.from.service]
    BY <1>6, <2>1, HandleStream DEF IdentityInv
  <2> QED
    BY <2>1, <2>5, <2>6 DEF IdentityInv
<1>7. ASSUME NEW p \in strays, StrayExecuted(p)
      PROVE  IdentityInv'
  BY <1>7 DEF StrayExecuted, IdentityInv
<1>8. CASE UNCHANGED ingestVars
  BY <1>8 DEF ingestVars, IdentityInv
<1> QED
  BY <1>1, <1>2, <1>3, <1>4, <1>5, <1>6, <1>7, <1>8 DEF IngestNext, Admin

-----------------------------------------------------------------------------
(***************************************************************************)
(* The overrun.  A handler that has passed the check of the length may     *)
(* still add a batch with each attempt it has left: counted with those     *)
(* batches, the stream never exceeds the bound.  A handler passes only     *)
(* while the stream itself is within maxStreamEntries, whatever the others *)
(* are about to add.                                                       *)
(***************************************************************************)
Attempts == Handler \X (0 .. MaxRetries)

Pending == {a \in Attempts : req[a[1]].at \in {"body", "add"} /\ a[2] <= req[a[1]].retries}

OverrunInv ==
    length + Cardinality(Pending) * MaxBatchSize
        <= MaxStreamEntries + (Cardinality(Handler) * (MaxRetries + 1) + late) * MaxBatchSize

LEMMA AttemptsFinite ==
    /\ IsFiniteSet(Attempts)
    /\ Cardinality(Attempts) = Cardinality(Handler) * (MaxRetries + 1)
    /\ Cardinality(Attempts) \in Nat
<1>1. /\ IsFiniteSet(0 .. MaxRetries)
      /\ Cardinality(0 .. MaxRetries) = MaxRetries + 1
  BY IngestAssumption, FS_Interval
<1> QED
  BY <1>1, IngestAssumption, FS_Product, FS_CardinalityType DEF Attempts

LEMMA AttemptsCount ==
    ASSUME NEW T \in SUBSET Attempts, NEW S \in SUBSET T
    PROVE  /\ IsFiniteSet(T) /\ IsFiniteSet(S)
           /\ Cardinality(S) \in Nat /\ Cardinality(T) \in Nat
           /\ Cardinality(S) <= Cardinality(T)
           /\ Cardinality(T) <= Cardinality(Attempts)
BY AttemptsFinite, FS_Subset, FS_CardinalityType

LEMMA TimesMonotone ==
    ASSUME NEW m \in Nat, NEW n \in Nat, m <= n
    PROVE  /\ m * MaxBatchSize \in Nat
           /\ n * MaxBatchSize \in Nat
           /\ m * MaxBatchSize <= n * MaxBatchSize
BY IngestAssumption

\* A handler's step gives no attempts to a handler that had none, unless it
\* finds the queue short enough, and an attempt uses up the last one.
LEMMA HandleAttempts ==
    ASSUME IngestTypeOK, NEW h \in Handler, Handle(h),
           ~(CheckLength(h) /\ length <= MaxStreamEntries),
           req'[h].at \in {"body", "add"}
    PROVE  /\ req[h].at \in {"body", "add"}
           /\ req'[h].retries = IF AddBatch(h) THEN req[h].retries - 1 ELSE req[h].retries
<1>0. req[h] \in Request /\ req \in [Handler -> Request] /\ length \in Nat
  BY DEF IngestTypeOK
<1>1. ASSUME NEW status, Answer(h, status) PROVE FALSE
  BY <1>0, <1>1 DEF Answer, Request
<1>2. ASSUME NEW s \in Service, Lookup(h, s) PROVE FALSE
  <2>1. entries[s] # NoRow
    BY <1>1, <1>2 DEF Lookup
  <2> QED
    BY <1>0, <1>2, <2>1 DEF Lookup, Request
<1>3. CASE CheckLength(h)
  BY <1>0, <1>1, <1>3, IngestAssumption DEF CheckLength
<1>4. CASE ReadBody(h)
  <2>1. PICK v \in 1 .. MaxBatchSize :
            req' = [req EXCEPT ![h] = [@ EXCEPT !.at = "add", !.valid = v]]
    BY <1>1, <1>4 DEF ReadBody
  <2>2. req[h].at = "body" /\ req'[h].retries = req[h].retries
    BY <1>0, <1>4, <2>1 DEF ReadBody, Request
  <2>3. ~AddBatch(h)
    BY <2>2 DEF AddBatch
  <2> QED
    BY <2>2, <2>3
<1>5. CASE AddBatch(h)
  <2>1. PICK X \in SUBSET (1 .. MaxBatchSize) : Attempted(h, X)
    BY <1>5, AddBatchEffect
  <2>2. ASSUME NEW status, Answered(h, X, status) PROVE FALSE
    BY <1>0, <2>2 DEF Answered, Request
  <2>3. Retried(h, X)
    BY <2>1, <2>2 DEF Attempted
  <2>4. req'[h].retries = req[h].retries - 1
    BY <1>0, <2>3 DEF Retried, Request
  <2> QED
    BY <1>5, <2>4 DEF AddBatch
<1>6. CASE Finished(h)
  BY <1>0, <1>6 DEF Finished, Idle
<1> QED
  BY <1>2, <1>3, <1>4, <1>5, <1>6 DEF Handle

\* Every step keeps the bound.
LEMMA OverrunStep ==
    IngestTypeOK /\ IdentityInv /\ OverrunInv /\ [IngestNext]_ingestVars => OverrunInv'
<1> SUFFICES ASSUME IngestTypeOK, IdentityInv, OverrunInv, [IngestNext]_ingestVars
             PROVE  OverrunInv'
  OBVIOUS
<1> DEFINE N == Cardinality(Handler) * (MaxRetries + 1)
           K == Cardinality(Pending)
           B == MaxBatchSize
<1>0. /\ N \in Nat /\ K \in Nat /\ K <= N /\ B \in Nat /\ length \in Nat /\ late \in Nat
      /\ MaxStreamEntries \in Nat /\ Pending \in SUBSET Attempts
  BY AttemptsFinite, AttemptsCount, IngestAssumption DEF Pending, IngestTypeOK
<1>a. (N + late) * B = N * B + late * B /\ N * B \in Nat /\ late * B \in Nat /\ K * B \in Nat
  BY <1>0
<1>b. length + K * B <= MaxStreamEntries + N * B + late * B
  BY <1>0, <1>a DEF OverrunInv
<1>c. ASSUME NEW P \in SUBSET Pending, Pending' = P, length' = length, late' = late
      PROVE  OverrunInv'
  <2>1. Cardinality(P) * B <= K * B /\ Cardinality(P) * B \in Nat
    BY <1>0, AttemptsCount, TimesMonotone
  <2> QED
    BY <1>0, <1>a, <1>b, <1>c, <2>1 DEF OverrunInv
<1>1. CASE UNCHANGED <<req, length, late>>
  BY <1>1 DEF OverrunInv, Pending
<1>2. CASE CrashIngest
  <2>1. Pending' = {} /\ length' = length /\ late' = late
    BY <1>2 DEF CrashIngest, Pending, Attempts, Idle, streamVars, strayVars
  <2> QED
    BY <1>c, <2>1
<1>3. ASSUME NEW h \in Handler, Handle(h)
      PROVE  OverrunInv'
  <2>0. req[h] \in Request /\ req \in [Handler -> Request]
    BY DEF IngestTypeOK
  <2>1. \A g \in Handler : g # h => req'[g] = req[g]
    BY <1>3, <2>0, HandleReq
  <2>2. /\ length' \in Nat /\ length' <= length + (IF req[h].at = "add" THEN B ELSE 0)
        /\ late' = late
    BY <1>3, HandleStream
  <2>3. PICK P : P = Pending'
    OBVIOUS
  <2>4. P \in SUBSET Attempts
    BY <2>3 DEF Pending
  <2>5. CASE CheckLength(h) /\ length <= MaxStreamEntries
    <3>1. length' = length
      BY <2>5 DEF CheckLength, streamVars
    <3>2. Cardinality(P) * B <= N * B /\ Cardinality(P) * B \in Nat
      BY <1>0, <2>4, AttemptsFinite, AttemptsCount, TimesMonotone
    <3> QED
      BY <1>0, <1>a, <2>2, <2>3, <2>5, <3>1, <3>2 DEF OverrunInv
  <2>6. CASE ~(CheckLength(h) /\ length <= MaxStreamEntries)
    <3>1. P \subseteq Pending
      <4>1. req'[h].at \in {"body", "add"} =>
               req[h].at \in {"body", "add"} /\ req'[h].retries <= req[h].retries
        <5>1. req[h].retries \in Nat
          BY <2>0, RetriesType
        <5> QED
          BY <1>3, <2>6, <5>1, HandleAttempts
      <4>2. ASSUME NEW a \in P PROVE a \in Pending
        <5>a. /\ a \in Attempts
              /\ req'[a[1]].at \in {"body", "add"} /\ a[2] <= req'[a[1]].retries
          BY <4>2, <2>3, Zenon DEF Pending
        <5>b. a[1] \in Handler /\ a[2] \in 0 .. MaxRetries
          BY <5>a DEF Attempts
        <5>c. a[2] \in Nat
          BY <5>b, IngestAssumption
        <5>1. /\ a \in Attempts /\ a[1] \in Handler /\ a[2] \in Nat
              /\ req'[a[1]].at \in {"body", "add"} /\ a[2] <= req'[a[1]].retries
          BY <5>a, <5>b, <5>c
        <5>2. CASE a[1] = h
          <6>1. req[h].retries \in Nat /\ req'[h].retries \in Nat
            <7>1. PICK r \in Request : req' = [req EXCEPT ![h] = r]
              BY <1>3, HandleReq
            <7>2. req'[h] \in Request
              BY <2>0, <7>1
            <7> QED
              BY <2>0, <7>2, RetriesType
          <6> QED
            <7>1. req[a[1]].at \in {"body", "add"} /\ a[2] <= req[a[1]].retries
              BY <4>1, <5>1, <5>2, <6>1
            <7> QED
              BY <5>1, <7>1, Zenon DEF Pending
        <5>3. CASE a[1] # h
          <6>1. req'[a[1]] = req[a[1]]
            BY <2>1, <5>1, <5>3
          <6>2. req[a[1]].at \in {"body", "add"} /\ a[2] <= req[a[1]].retries
            BY <5>1, <6>1
          <6> QED
            BY <5>1, <6>2 DEF Pending
        <5> QED
          BY <5>2, <5>3
      <4> QED
        BY <4>2
    <3>2. CASE ~AddBatch(h)
      <4>1. length' = length
        BY <1>3, <3>2 DEF Handle, Lookup, CheckLength, ReadBody, Finished, streamVars
      <4> QED
        BY <1>c, <2>2, <2>3, <3>1, <4>1
    <3>3. CASE AddBatch(h)
      <4> DEFINE last == <<h, req[h].retries>>
      <4>1. req[h].at = "add" /\ req[h].retries \in 0 .. MaxRetries
        BY <2>0, <3>3 DEF AddBatch, Request
      <4>2. last \in Pending
        BY <4>1, IngestAssumption DEF Pending, Attempts
      <4>3. last \notin P
        <5> SUFFICES ASSUME last \in P PROVE FALSE
          OBVIOUS
        <5>1. req'[h].at \in {"body", "add"} /\ req[h].retries <= req'[h].retries
          BY <2>3 DEF Pending
        <5>2. req'[h].retries = req[h].retries - 1
          BY <1>3, <2>6, <3>3, <5>1, HandleAttempts
        <5> QED
          BY <4>1, <5>1, <5>2, IngestAssumption
      <4> HIDE DEF last
      <4>4. Cardinality(Pending \ {last}) = K - 1
        BY <1>0, <4>2, AttemptsCount, FS_RemoveElement
      <4>5. Cardinality(P) \in Nat /\ Cardinality(P) <= K - 1
        BY <1>0, <3>1, <4>3, <4>4, AttemptsCount
      <4>6. (K - 1) * B = K * B - B /\ K - 1 \in Nat
        BY <1>0, <4>5
      <4>7. Cardinality(P) * B <= (K - 1) * B /\ Cardinality(P) * B \in Nat
        BY <4>5, <4>6, TimesMonotone
      <4>8. length' <= length + B
        BY <2>2, <4>1
      <4> QED
        BY <1>0, <1>a, <1>b, <2>2, <2>3, <4>6, <4>7, <4>8 DEF OverrunInv
    <3> QED
      BY <3>2, <3>3
  <2> QED
    BY <2>5, <2>6
<1>4. ASSUME NEW p \in strays, StrayExecuted(p)
      PROVE  OverrunInv'
  <2>1. Pending' = Pending /\ length' = length + p.records /\ late' = late + 1
    BY <1>4 DEF StrayExecuted, Pending
  <2>2. p.records \in Nat /\ p.records <= B
    BY IngestAssumption DEF IngestTypeOK, Stray
  <2>3. (N + (late + 1)) * B = N * B + late * B + B
    BY <1>0
  <2> QED
    BY <1>0, <1>a, <1>b, <2>1, <2>2, <2>3 DEF OverrunInv
<1> QED
  BY <1>1, <1>2, <1>3, <1>4 DEF IngestNext, Admin, CreateService, UpdateService, SetRetention,
     StartIngest, QueryRows, SwapEntries, ingestVars, streamVars, strayVars

-----------------------------------------------------------------------------
IngestInv == IngestTypeOK /\ IdentityInv /\ OverrunInv

LEMMA IngestInvInit == IngestInit => IngestInv
<1> SUFFICES ASSUME IngestInit PROVE IngestInv
  OBVIOUS
<1>1. IngestTypeOK
  BY IdleType, IngestAssumption, FS_EmptySet DEF IngestInit, IngestTypeOK, NoRow
<1>2. IdentityInv
  BY DEF IngestInit, IdentityInv, HadOrNone, Identified, IdentityFromKey, Idle
<1>3. OverrunInv
  <2>1. Pending = {} /\ length = 0 /\ late = 0
    BY DEF IngestInit, Pending, Attempts, Idle
  <2>2. Cardinality(Pending) = 0 /\ Cardinality(Handler) * (MaxRetries + 1) \in Nat
    BY <2>1, FS_EmptySet, AttemptsFinite
  <2>3. (Cardinality(Handler) * (MaxRetries + 1) + 0) * MaxBatchSize \in Nat
    BY <2>2, IngestAssumption
  <2> QED
    BY <2>1, <2>2, <2>3, IngestAssumption DEF OverrunInv
<1> QED
  BY <1>1, <1>2, <1>3 DEF IngestInv

LEMMA IngestInvariant == IngestSpec => []IngestInv
<1>1. IngestInv /\ [IngestNext]_ingestVars => IngestInv'
  BY TypeStep, IdentityStep, OverrunStep DEF IngestInv
<1> QED
  BY <1>1, IngestInvInit, PTL DEF IngestSpec

\* The variables of the ingest API keep their types; in particular every
\* retention it caches or captures fits into the 16 bits it is stored in.
THEOREM IngestTypeCorrect == IngestSpec => []IngestTypeOK
<1>1. IngestInv => IngestTypeOK
  BY DEF IngestInv
<1> QED
  BY <1>1, IngestInvariant, PTL

\* However many requests race between reading the stream's length and
\* writing to it, maxStreamEntries is overrun by at most a batch for each
\* attempt of each of them, and one for each attempt that Redis executed
\* after its client had given it up.
THEOREM OverrunBounded == IngestSpec => []OverrunBound
<1>1. IngestInv => OverrunBound
  <2> SUFFICES ASSUME IngestInv PROVE OverrunBound
    OBVIOUS
  <2>1. Pending \in SUBSET Attempts
    BY DEF Pending
  <2>2. Cardinality(Pending) \in Nat
    BY <2>1, AttemptsCount
  <2>3. Cardinality(Pending) * MaxBatchSize \in Nat
    BY <2>2, IngestAssumption
  <2>4. (Cardinality(Handler) * (MaxRetries + 1) + late) * MaxBatchSize \in Nat
    BY AttemptsFinite, IngestAssumption DEF IngestInv, IngestTypeOK
  <2> QED
    BY <2>3, <2>4, IngestAssumption DEF IngestInv, IngestTypeOK, OverrunInv, OverrunBound
<1> QED
  BY <1>1, IngestInvariant, PTL

\* Whatever the interleaving of administrators, refreshes, crashes and
\* requests, the stream names no retention its service has not had.
THEOREM IdentityIsFromKey == IngestSpec => []IdentityFromKey
<1>1. IngestInv => IdentityFromKey
  BY DEF IngestInv, IdentityInv
<1> QED
  BY <1>1, IngestInvariant, PTL

-----------------------------------------------------------------------------
(***************************************************************************)
(* Answers.  Until the pipeline runs nothing has been added, and until the *)
(* body is read nothing counts as valid; an attempt adds only what counts. *)
(***************************************************************************)
Honest(r) ==
    /\ r.at \in {"idle", "length", "body"} => r.valid = 0 /\ r.queued = {}
    /\ r.at = "add" => r.queued \subseteq 1 .. r.valid
    /\ r.at = "answered" =>
         /\ r.status = 202 => r.queued = 1 .. r.valid
         /\ r.status \notin {202, 503} => r.queued = {}

AnswerInv == \A h \in Handler : Honest(req[h])

LEMMA HonestAnswer ==
    ASSUME NEW r \in Request, Honest(r), r.at \in {"idle", "length", "body"}, NEW status
    PROVE  Honest([r EXCEPT !.at = "answered", !.status = status])
<1> DEFINE q == [r EXCEPT !.at = "answered", !.status = status]
<1>1. q.at = "answered" /\ q.queued = r.queued /\ q.valid = r.valid
  BY DEF Request
<1>2. r.queued = {} /\ r.valid = 0
  BY DEF Honest
<1>3. 1 .. 0 = {}
  OBVIOUS
<1> HIDE DEF q
<1>4. Honest(q)
  BY <1>1, <1>2, <1>3 DEF Honest
<1> QED
  BY <1>4 DEF q

LEMMA HonestIdle == Honest(Idle)
<1>1. Idle.at = "idle" /\ Idle.valid = 0 /\ Idle.queued = {}
  BY DEF Idle
<1> QED
  BY <1>1 DEF Honest

LEMMA HandleHonest ==
    ASSUME IngestTypeOK, AnswerInv, NEW h \in Handler, Handle(h)
    PROVE  Honest(req'[h])
<1>0. req[h] \in Request /\ Honest(req[h]) /\ req \in [Handler -> Request]
  BY DEF IngestTypeOK, AnswerInv
<1>1. ASSUME NEW status, Answer(h, status), req[h].at \in {"idle", "length", "body"}
      PROVE  Honest(req'[h])
  BY <1>0, <1>1, HonestAnswer DEF Answer
<1>2. ASSUME NEW s \in Service, Lookup(h, s)
      PROVE  Honest(req'[h])
  <2>1. CASE entries[s] = NoRow
    BY <1>1, <1>2, <2>1 DEF Lookup
  <2>2. CASE entries[s] # NoRow
    <3>1. /\ req[h].at = "idle"
          /\ req'[h] = [req[h] EXCEPT !.at = "length", !.service = s, !.days = entries[s]]
      BY <1>0, <1>2, <2>2 DEF Lookup
    <3> QED
      BY <1>0, <3>1 DEF Honest, Request
  <2> QED
    BY <2>1, <2>2
<1>3. CASE CheckLength(h)
  <2>1. CASE req' = [req EXCEPT ![h] = [@ EXCEPT !.at = "body"]]
    <3>1. req'[h].at = "body" /\ req'[h].valid = req[h].valid /\ req'[h].queued = req[h].queued
      BY <1>0, <2>1 DEF Request
    <3>2. req[h].at = "length"
      BY <1>3 DEF CheckLength
    <3> QED
      BY <1>0, <3>1, <3>2 DEF Honest
  <2> QED
    BY <1>1, <1>3, <2>1 DEF CheckLength
<1>4. CASE ReadBody(h)
  <2>1. ASSUME NEW v \in 1 .. MaxBatchSize,
               req' = [req EXCEPT ![h] = [@ EXCEPT !.at = "add", !.valid = v]]
        PROVE  Honest(req'[h])
    <3>1. req'[h].at = "add" /\ req'[h].queued = req[h].queued
      BY <1>0, <2>1 DEF Request
    <3>2. req[h].at = "body"
      BY <1>4 DEF ReadBody
    <3> QED
      BY <1>0, <3>1, <3>2 DEF Honest
  <2> QED
    BY <1>1, <1>4, <2>1 DEF ReadBody
<1>5. CASE AddBatch(h)
  <2>1. PICK X \in SUBSET (1 .. MaxBatchSize) : X \subseteq 1 .. req[h].valid /\ Attempted(h, X)
    BY <1>5, AddBatchEffect
  <2>2. req[h].at = "add" /\ req[h].queued \subseteq 1 .. req[h].valid
    BY <1>0, <1>5 DEF AddBatch, Honest
  <2>3. ASSUME NEW status, Answered(h, X, status)
        PROVE  /\ req'[h].at = "answered" /\ req'[h].status = status
               /\ req'[h].valid = req[h].valid /\ req'[h].queued = req[h].queued \cup X
    BY <1>0, <2>3 DEF Answered, Request
  <2>4. CASE Retried(h, X)
    <3>1. /\ req'[h].at = "add" /\ req'[h].valid = req[h].valid
          /\ req'[h].queued = req[h].queued \cup X
      BY <1>0, <2>2, <2>4 DEF Retried, Request
    <3> QED
      BY <2>1, <2>2, <3>1 DEF Honest
  <2>5. CASE X = 1 .. req[h].valid /\ Answered(h, X, 202)
    BY <2>2, <2>3, <2>5 DEF Honest
  <2>6. CASE Answered(h, X, 503)
    BY <2>3, <2>6 DEF Honest
  <2> QED
    BY <2>1, <2>4, <2>5, <2>6 DEF Attempted
<1>6. CASE Finished(h)
  <2>1. req'[h] = Idle
    BY <1>0, <1>6 DEF Finished
  <2> QED
    BY <2>1, HonestIdle
<1> QED
  BY <1>2, <1>3, <1>4, <1>5, <1>6 DEF Handle

\* What Sender relies on: whatever fails and however requests interleave, a
\* 202 says that every valid record is in the stream, and a refusal that none
\* of them is.
THEOREM AnswersHonest == IngestSpec => []AnswerContract
<1>1. IngestInit => AnswerInv
  BY HonestIdle DEF IngestInit, AnswerInv
<1>2. IngestInv /\ AnswerInv /\ [IngestNext]_ingestVars => AnswerInv'
  <2> SUFFICES ASSUME IngestInv, AnswerInv, [IngestNext]_ingestVars
               PROVE  AnswerInv'
    OBVIOUS
  <2>1. ASSUME NEW h \in Handler, Handle(h)
        PROVE  AnswerInv'
    <3>1. PICK r \in Request : req' = [req EXCEPT ![h] = r]
      BY <2>1, HandleReq DEF IngestInv
    <3>2. Honest(req'[h])
      BY <2>1, HandleHonest DEF IngestInv
    <3>3. \A g \in Handler : g # h => req'[g] = req[g]
      BY <3>1 DEF IngestInv, IngestTypeOK
    <3> QED
      BY <3>2, <3>3 DEF AnswerInv
  <2>2. CASE CrashIngest
    BY <2>2, HonestIdle DEF CrashIngest, AnswerInv
  <2>3. CASE UNCHANGED req
    BY <2>3 DEF AnswerInv
  <2> QED
    BY <2>1, <2>2, <2>3 DEF IngestNext, Admin, CreateService, UpdateService, SetRetention,
       StartIngest, QueryRows, SwapEntries, StrayExecuted, ingestVars
<1>3. AnswerInv => AnswerContract
  BY DEF AnswerInv, Honest, AnswerContract
<1> QED
  BY <1>1, <1>2, <1>3, IngestInvariant, PTL DEF IngestSpec

-----------------------------------------------------------------------------
(***************************************************************************)
(* Keys.  Services are never removed, so the rows of a refresh hold every  *)
(* service the cache holds: a process loads its cache from the table, and  *)
(* rows are read only while it runs.                                       *)
(***************************************************************************)
Has(table, s) == table[s] # NoRow

KeysInv ==
    /\ process = "down" => rows = NoRows
    /\ \A s \in Service : Has(entries, s) => Has(services, s)
    /\ rows # NoRows =>
         \A s \in Service : /\ Has(rows, s) => Has(services, s)
                            /\ Has(entries, s) => Has(rows, s)

LEMMA SwapKeeps ==
    ASSUME IngestTypeOK, KeysInv, SwapEntries
    PROVE  \A s \in Service : /\ Has(entries, s) => Has(entries', s)
                              /\ Has(entries', s) => Has(services, s)
<1>1. rows \in [Service -> Nat] /\ rows # NoRows
  BY DEF IngestTypeOK, SwapEntries
<1>2. entries' = rows \/ entries' = entries
  BY <1>1, LoadedType DEF SwapEntries
<1> QED
  BY <1>1, <1>2 DEF KeysInv, Has

LEMMA KeysStep ==
    ASSUME IngestTypeOK, KeysInv, [IngestNext]_ingestVars
    PROVE  KeysInv'
<1> USE DEF dbVars, cacheVars, Has
<1>1. ASSUME NEW s \in Service, NEW d \in Days, CreateService(s, d) \/ UpdateService(s, d)
      PROVE  KeysInv'
  <2>1. SetRetention(s, d) /\ d # NoRow
    BY <1>1, IngestAssumption DEF CreateService, UpdateService, SetRetention, NoRow
  <2>2. \A t \in Service : services[t] # NoRow => services'[t] # NoRow
    BY <2>1 DEF SetRetention, IngestTypeOK
  <2>3. UNCHANGED process /\ UNCHANGED entries /\ UNCHANGED rows
    BY <2>1 DEF SetRetention
  <2> QED
    BY <2>2, <2>3 DEF KeysInv
<1>2. CASE StartIngest
  <2>1. entries' = services /\ rows = NoRows
    BY <1>2, LoadedType DEF StartIngest, IngestTypeOK, KeysInv
  <2> QED
    BY <1>2, <2>1 DEF StartIngest, KeysInv
<1>3. CASE QueryRows
  BY <1>3 DEF QueryRows, KeysInv
<1>4. CASE SwapEntries
  BY <1>4, SwapKeeps DEF SwapEntries, KeysInv
<1>5. CASE CrashIngest
  BY <1>5 DEF CrashIngest, KeysInv
<1>6. ASSUME NEW h \in Handler, Handle(h)
      PROVE  KeysInv'
  BY <1>6, HandleFrame DEF KeysInv
<1>7. CASE \E p \in strays : StrayExecuted(p)
  BY <1>7 DEF StrayExecuted, KeysInv
<1>8. CASE UNCHANGED ingestVars
  BY <1>8 DEF ingestVars, KeysInv
<1> QED
  BY <1>1, <1>2, <1>3, <1>4, <1>5, <1>6, <1>7, <1>8 DEF IngestNext, Admin

\* A key that has worked keeps working as long as the process runs: no
\* refresh, whatever rows it reads and whenever they were changed, takes it
\* out of the cache.
THEOREM KeysKeepWorking == IngestSpec => KeysKept
<1>1. IngestInit => KeysInv
  BY DEF IngestInit, KeysInv, Has
<1>2. IngestInv /\ KeysInv /\ [IngestNext]_ingestVars => KeysInv'
  BY KeysStep DEF IngestInv
<1> DEFINE A == process = "serving" /\ process' = "serving" =>
                  \A s \in Service : entries[s] # NoRow => entries'[s] # NoRow
<1>3. IngestInv /\ KeysInv /\ [IngestNext]_ingestVars => [A]_ingestVars
  <2> SUFFICES ASSUME IngestInv, KeysInv, IngestNext PROVE A
    OBVIOUS
  <2>1. CASE SwapEntries
    BY <2>1, SwapKeeps DEF IngestInv, Has
  <2>2. CASE StartIngest \/ CrashIngest
    BY <2>2 DEF StartIngest, CrashIngest
  <2>3. CASE UNCHANGED entries
    BY <2>3
  <2> QED
    BY <2>1, <2>2, <2>3, HandleFrame DEF IngestNext, Admin, CreateService, UpdateService,
       SetRetention, QueryRows, StrayExecuted, cacheVars
<1> QED
  BY <1>1, <1>2, <1>3, IngestInvariant, PTL DEF IngestSpec, KeysKept
=============================================================================
