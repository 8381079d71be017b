------------------------------- MODULE Ingest -------------------------------
(***************************************************************************)
(* The ingest API (cmd/ingest): concurrent POST /v1/logs handlers in front *)
(* of one Redis stream, identified by a cache of the services table that a *)
(* background goroutine reloads, while administrators create services and  *)
(* change their retention through the query API (cmd/api).                 *)
(*                                                                         *)
(* A service stands for its API key, which never changes.  The stream is   *)
(* never trimmed: nothing in the repository consumes it yet.  The Redis    *)
(* client sends a pipeline of XADDs again, up to MaxRetries times, when an *)
(* attempt fails, whatever Redis has done or will still do with it.  The   *)
(* XADDs that Redis executes in one go are one step: a length read in the  *)
(* middle of them that is low enough was so before, and one that is too    *)
(* high still is after.                                                    *)
(***************************************************************************)
EXTENDS Integers, FiniteSets

CONSTANTS
    Service,            \* names of services
    Handler,            \* requests that may be served at the same time
    Days,               \* retention_days an administrator may ask for
    MaxDays,            \* the largest uint16, 65535
    MaxStreamEntries,   \* maxStreamEntries
    MaxBatchSize,       \* maxBatchSize
    MaxRetries,         \* Options.MaxRetries of the Redis client, 3 by default
    MaxStrays,          \* bound: attempts that Redis goes on with after the client
    Faults              \* what may go wrong, a subset of {"queue", "crash"}

ASSUME IngestAssumption ==
    /\ IsFiniteSet(Handler)
    /\ Days \subseteq Int
    /\ MaxDays \in Nat \ {0}
    /\ MaxStreamEntries \in Nat
    /\ MaxBatchSize \in Nat
    /\ MaxRetries \in Nat
    /\ MaxStrays \in Nat
    /\ Faults \subseteq {"queue", "crash"}

VARIABLES
    services,   \* the services table: retention_days, NoRow where there is none
    hadDays,    \* history: every retention a service has had
    process,    \* the ingest process: "down" or "serving"
    entries,    \* apiKeyCache.entries: the cached retention, or NoRow
    rows,       \* the rows a Refresh in progress has queried, or NoRows
    req,        \* the state of each handler
    length,     \* XLEN of the stream
    identities, \* the service and retention the stream's entries carry
    strays,     \* what Redis has still to execute of attempts given up by the client
    late        \* history: how many of those it has executed

dbVars     == <<services, hadDays>>
cacheVars  == <<process, entries, rows>>
streamVars == <<length, identities>>
strayVars  == <<strays, late>>
ingestVars == <<dbVars, cacheVars, req, streamVars, strayVars>>

NoRow == 0
NoRows == [s \in Service |-> -1]
Statuses == {202, 400, 401, 413, 415, 429, 503}
Phases == {"idle", "length", "body", "add", "answered"}

Idle == [at |-> "idle", service |-> "", days |-> 0, valid |-> 0,
         retries |-> MaxRetries, queued |-> {}, status |-> 0]

\* Of the valid records, queued are those in the stream; retries are left.
Request == [at : Phases, service : Service \cup {""}, days : 0 .. MaxDays,
            valid : 0 .. MaxBatchSize, retries : 0 .. MaxRetries,
            queued : SUBSET (1 .. MaxBatchSize), status : Statuses \cup {0}]

Identity == [service : Service, days : Nat]

Stray == [id : Nat, from : Identity, records : 0 .. MaxBatchSize]

IngestTypeOK ==
    /\ services \in [Service -> Nat]
    /\ hadDays \in [Service -> SUBSET Nat]
    /\ process \in {"down", "serving"}
    /\ entries \in [Service -> 0 .. MaxDays]
    /\ rows \in [Service -> Nat] \cup {NoRows}
    /\ req \in [Handler -> Request]
    /\ length \in Nat
    /\ identities \subseteq Identity
    /\ strays \subseteq Stray /\ IsFiniteSet(strays)
    /\ late \in Nat

IngestInit ==
    /\ services = [s \in Service |-> NoRow]
    /\ hadDays = [s \in Service |-> {}]
    /\ process = "down"
    /\ entries = [s \in Service |-> NoRow]
    /\ rows = NoRows
    /\ req = [h \in Handler |-> Idle]
    /\ length = 0
    /\ identities = {}
    /\ strays = {}
    /\ late = 0

-----------------------------------------------------------------------------
(***************************************************************************)
(* createService and updateService reject only a retention below 1; the    *)
(* table's CHECK is retention_days > 0.                                    *)
(***************************************************************************)
SetRetention(s, d) ==
    /\ d >= 1
    /\ services' = [services EXCEPT ![s] = d]
    /\ hadDays' = [hadDays EXCEPT ![s] = @ \cup {d}]
    /\ UNCHANGED <<cacheVars, req, streamVars, strayVars>>

CreateService(s, d) ==
    /\ services[s] = NoRow
    /\ SetRetention(s, d)

UpdateService(s, d) ==
    /\ services[s] # NoRow
    /\ SetRetention(s, d)

-----------------------------------------------------------------------------
(***************************************************************************)
(* apiKeyCache.Refresh: one query, then a check of every row, then the new *)
(* map replaces the old one.  A single bad row discards all of them.       *)
(***************************************************************************)

\* Mutant: no upper bound on the retention.
AcceptableUnbounded(table) ==
    \A s \in Service : table[s] # NoRow => table[s] >= 1

Acceptable(table) ==
    \A s \in Service : table[s] # NoRow => table[s] \in 1 .. MaxDays

\* uint16(retentionDays)
Loaded(table) == [s \in Service |-> table[s] % (MaxDays + 1)]

\* run: the process does not come up before a first Refresh has succeeded.
StartIngest ==
    /\ process = "down"
    /\ Acceptable(services)
    /\ process' = "serving"
    /\ entries' = Loaded(services)
    /\ UNCHANGED <<dbVars, rows, req, streamVars, strayVars>>

QueryRows ==
    /\ process = "serving"
    /\ rows = NoRows
    /\ rows' = services
    /\ UNCHANGED <<dbVars, process, entries, req, streamVars, strayVars>>

\* Mutant: the entries are replaced before the rows are checked.
SwapEntriesAnyway ==
    /\ process = "serving"
    /\ rows # NoRows
    /\ entries' = IF Acceptable(rows) THEN Loaded(rows)
                                      ELSE [s \in Service |-> NoRow]
    /\ rows' = NoRows
    /\ UNCHANGED <<dbVars, process, req, streamVars, strayVars>>

\* Mutant: keys that are in the cache keep the retention they have there.
SwapEntriesNewKeys ==
    /\ process = "serving"
    /\ rows # NoRows
    /\ entries' = IF Acceptable(rows)
                  THEN [s \in Service |-> IF entries[s] = NoRow THEN Loaded(rows)[s]
                                                                ELSE entries[s]]
                  ELSE entries
    /\ rows' = NoRows
    /\ UNCHANGED <<dbVars, process, req, streamVars, strayVars>>

SwapEntries ==
    /\ process = "serving"
    /\ rows # NoRows
    /\ entries' = IF Acceptable(rows) THEN Loaded(rows) ELSE entries
    /\ rows' = NoRows
    /\ UNCHANGED <<dbVars, process, req, streamVars, strayVars>>

\* The process dies, and its handlers with it.
CrashIngest ==
    /\ "crash" \in Faults
    /\ process = "serving"
    /\ process' = "down"
    /\ entries' = [s \in Service |-> NoRow]
    /\ rows' = NoRows
    /\ req' = [h \in Handler |-> Idle]
    /\ UNCHANGED <<dbVars, streamVars, strayVars>>

-----------------------------------------------------------------------------
(***************************************************************************)
(* ingestHandler.logs, one step per access to shared state.                *)
(***************************************************************************)
Answer(h, status) ==
    req' = [req EXCEPT ![h] = [@ EXCEPT !.at = "answered", !.status = status]]

\* The request arrives and its key is looked up.
Lookup(h, s) ==
    /\ process = "serving"
    /\ req[h].at = "idle"
    /\ IF entries[s] = NoRow
       THEN Answer(h, 401)
       ELSE req' = [req EXCEPT ![h] = [@ EXCEPT !.at = "length", !.service = s,
                                                !.days = entries[s]]]
    /\ UNCHANGED <<dbVars, cacheVars, streamVars, strayVars>>

\* Mutant: the length is not checked.
CheckLengthNever(h) ==
    /\ req[h].at = "length"
    /\ req' = [req EXCEPT ![h] = [@ EXCEPT !.at = "body"]]
    /\ UNCHANGED <<dbVars, cacheVars, streamVars, strayVars>>

CheckLength(h) ==
    /\ req[h].at = "length"
    /\ \/ /\ length <= MaxStreamEntries
          /\ req' = [req EXCEPT ![h] = [@ EXCEPT !.at = "body"]]
       \/ /\ length > MaxStreamEntries
          /\ Answer(h, 429)
       \/ /\ "queue" \in Faults
          /\ Answer(h, 503)
    /\ UNCHANGED <<dbVars, cacheVars, streamVars, strayVars>>

\* Mutant: one record too many is accepted.
ReadBodyOneMore(h) ==
    /\ req[h].at = "body"
    /\ \/ \E status \in {202, 400, 413, 415} : Answer(h, status)
       \/ \E v \in 1 .. MaxBatchSize + 1 :
            req' = [req EXCEPT ![h] = [@ EXCEPT !.at = "add", !.valid = v]]
    /\ UNCHANGED <<dbVars, cacheVars, streamVars, strayVars>>

\* readRequestBody, the decoding of the array and of each record: an
\* unusable body, too large a batch, or some number of valid records.
ReadBody(h) ==
    /\ req[h].at = "body"
    /\ \/ \E status \in {400, 413, 415} : Answer(h, status)
       \/ Answer(h, 202)                    \* no record is valid
       \/ \E v \in 1 .. MaxBatchSize :
            req' = [req EXCEPT ![h] = [@ EXCEPT !.at = "add", !.valid = v]]
    /\ UNCHANGED <<dbVars, cacheVars, streamVars, strayVars>>

IdentityOf(h) == [service |-> req[h].service, days |-> req[h].days]

\* Redis executes the XADDs of the records X.
Executed(h, X) ==
    /\ length' = length + Cardinality(X)
    /\ identities' = IF X = {} THEN identities ELSE identities \cup {IdentityOf(h)}

Answered(h, X, status) ==
    req' = [req EXCEPT ![h] = [@ EXCEPT !.at = "answered",
                                        !.queued = req[h].queued \cup X,
                                        !.status = status]]

Retried(h, X) ==
    /\ req[h].retries > 0
    /\ req' = [req EXCEPT ![h] = [@ EXCEPT !.queued = req[h].queued \cup X,
                                           !.retries = req[h].retries - 1]]

\* Redis will get to n more records of an attempt the client does not wait for.
LeftBehind(h, n) ==
    /\ late + Cardinality(strays) < MaxStrays
    /\ strays' = strays \cup {[id |-> late + Cardinality(strays), from |-> IdentityOf(h),
                                records |-> n]}
    /\ UNCHANGED late

\* Mutant: a partial write is answered with 202.
AddBatchUnchecked(h) ==
    /\ req[h].at = "add"
    /\ \E X \in SUBSET (1 .. req[h].valid) : Executed(h, X) /\ Answered(h, X, 202)
    /\ UNCHANGED <<dbVars, cacheVars, strayVars>>

\* One attempt to run the pipeline.  It succeeds once there is a reply for
\* every record.  Otherwise Redis has executed any of its XADDs, even all, and
\* may execute others later; the client tries again or the handler gives up.
AddBatch(h) ==
    LET records == 1 .. req[h].valid
    IN  /\ req[h].at = "add"
        /\ \/ Executed(h, records) /\ Answered(h, records, 202) /\ UNCHANGED strayVars
           \/ /\ "queue" \in Faults
              /\ \E X \in SUBSET records :
                   /\ Executed(h, X)
                   /\ Answered(h, X, 503) \/ Retried(h, X)
                   /\ \/ UNCHANGED strayVars
                      \/ X # records /\ LeftBehind(h, Cardinality(records \ X))
        /\ UNCHANGED <<dbVars, cacheVars>>

\* Redis gets to an attempt whose client has gone on, or is dead.
StrayExecuted(p) ==
    /\ strays' = strays \ {p}
    /\ late' = late + 1
    /\ length' = length + p.records
    /\ identities' = identities \cup {p.from}
    /\ UNCHANGED <<dbVars, cacheVars, req>>

\* The connection takes its next request.
Finished(h) ==
    /\ req[h].at = "answered"
    /\ req' = [req EXCEPT ![h] = Idle]
    /\ UNCHANGED <<dbVars, cacheVars, streamVars, strayVars>>

Handle(h) ==
    \/ \E s \in Service : Lookup(h, s)
    \/ CheckLength(h) \/ ReadBody(h) \/ AddBatch(h) \/ Finished(h)

Admin == \E s \in Service, d \in Days : CreateService(s, d) \/ UpdateService(s, d)

IngestNext ==
    \/ Admin
    \/ StartIngest \/ QueryRows \/ SwapEntries \/ CrashIngest
    \/ \E h \in Handler : Handle(h)
    \/ \E p \in strays : StrayExecuted(p)

IngestSpec == IngestInit /\ [][IngestNext]_ingestVars

\* The refresh goroutine is driven by a ticker and a service manager starts
\* the process again.
FairIngestSpec ==
    /\ IngestSpec
    /\ WF_ingestVars(StartIngest)
    /\ WF_ingestVars(QueryRows)
    /\ WF_ingestVars(SwapEntries)

-----------------------------------------------------------------------------
(***************************************************************************)
(* Properties.                                                             *)
(***************************************************************************)

\* The check of the queue's length and the write are not one step, so
\* maxStreamEntries may be overrun, but by no more than one full batch for
\* every attempt of each handler that can be running, and for every attempt
\* that Redis executed after its client had given it up.
OverrunBound ==
    length <= MaxStreamEntries +
                  (Cardinality(Handler) * (MaxRetries + 1) + late) * MaxBatchSize

\* What Sender relies on: 202 means that every valid record is in the
\* stream, and any other answer but 503 that nothing was written, also when
\* the Redis client has repeated itself.
AnswerContract ==
    \A h \in Handler :
        req[h].at = "answered" =>
            /\ req[h].status = 202 => req[h].queued = 1 .. req[h].valid
            /\ req[h].status \notin {202, 503} => req[h].queued = {}

\* "Ingest derives the service and retention from the API key": what the
\* stream says of a record is a retention its service has really had, not
\* one wrapped into 16 bits or taken from another service.
IdentityFromKey ==
    \A e \in identities : e.days \in hadDays[e.service]

\* A key that has worked keeps working while the process runs, whatever
\* happens to the refreshes.
KeysKept ==
    [][process = "serving" /\ process' = "serving" =>
         \A s \in Service : entries[s] # NoRow => entries'[s] # NoRow]_ingestVars

\* "creates a service and returns its generated API key once": a valid
\* retention that stays in the table takes effect, and with it the key of a
\* new service becomes usable.
RetentionTakesEffect ==
    \A s \in Service, d \in Days \cap (1 .. MaxDays) :
        <>[](services[s] = d) => []<>(entries[s] = d)

\* The same once the whole table is acceptable: a row that Refresh refused
\* leaves nothing behind when an administrator corrects it, whichever
\* refreshes and restarts failed in between.
ValidRetentionTakesEffect ==
    \A s \in Service, d \in Days \cap (1 .. MaxDays) :
        <>[](Acceptable(services) /\ services[s] = d) => []<>(entries[s] = d)
=============================================================================
