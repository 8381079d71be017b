# Formal models of CentiLog

TLA+ models of CentiLog: its log path, from the files an agent watches, over its
disk buffer and its sender, to the Redis stream that the ingest API fills; what
happens to the text of a line on this way; and the query API with its users,
permissions and searches. TLC
checks them on small instances, TLAPS proves the central properties for every
value of the constants. Every definition that stands for code is listed, with
its lines, under `map` in `PROJECT.json`.

## 1. The system

| Part | State it keeps | Operations | Talks to |
| --- | --- | --- | --- |
| Polling loop (`cmd/agent/agent.go`, `tailer.go`, `main.go`) | saved and read offsets per file, the open stack trace per file, the batch, its offsets, the name of a batch that is written but not committed | `Poll`, `FlushBatch`, `Flush` (shutdown), `CommitOffsets` | watched files; disk buffer |
| Disk buffer (`buffer.go`) | files `*.json.gz`, `*.json.gz.sending`, `failed/`, under one mutex | `WriteBatch`, `ClaimOldest`, `Unclaim`, `DeleteClaim`, `MoveToFailed`, `recoverClaims`, `enforceLimitLocked` | both goroutines of the agent |
| Sender (`sender.go`) | the claim, the retry delay | `Run`, `sendBatch` | disk buffer; ingest API by HTTP |
| Ingest API (`cmd/ingest`) | API key cache; one goroutine per request; a refresh goroutine | `logs`, `Refresh` | Redis stream; PostgreSQL `services` |
| Query API (`cmd/api`) | none of its own | login, services, users, search, statistics | PostgreSQL; ClickHouse |
| Offsets file (`tailer.go`, `saveOffsets`) | `offsets.json`, its temporary file, on Windows a backup | save, load | the directory of the buffer |
| Configuration (`cmd/agent/config.go`) | none after the start | defaults, validation | polling loop, processing |
| Parsing, filter (`parser.go`, `processor.go`) | none | `ParseLine`, `ProcessDetailed` | polling loop |
| Normalisation, redaction (`internal/`) | none | `NormalizeAt`, `Redact` | called by the agent and again by ingest |
| Dashboard (`web/`) | a token, the current search | | query API |
| Processor, alerts | named by `SPEC.md`; not in the repository | | |

What is hard here: a write to the buffer and the saving of offsets are two disk
operations with a crash or an error possible between them; several files share
one batch; files shrink and grow under the reader; two goroutines rename and
delete in one directory; a request may be handled although its sender has given
up on it; the queue limit is checked in one step and used in another; a cache
is reloaded under running requests; a record is normalised and redacted twice, by
two machines whose clocks need not agree; names and dates depend on a wall clock
that may be set back or lack a year. The list, line by line, is `hazards` in
`PROJECT.json`.

What makes each part correct:

- *polling loop*: a restart skips only what is stored; a running process
  forgets nothing; everything written to a file is eventually buffered;
- *buffer*: within its limit, deleting only what does not fit;
- *sender*: deletes only what was queued, quarantines only what is refused for
  good, leaves no claim behind, delivers everything in the end, stops when told;
- *ingest*: 202 means queued, a bounded overrun, records carry their key's
  identity, working keys keep working, changes take effect;
- *offsets file*: an atomic register, never ahead of what is durable;
- *processing*: a timestamp is the one in the line or flagged, never far in the
  future; nothing sensitive is stored, nothing else is masked, and what is not
  flagged is untouched; the filter does what the configuration says;
- *query API*: permissions hold for every query, users are created completely or
  not at all, paging repeats nothing and misses only ties.

## 2. Modules

| Module | Models | Uses |
| --- | --- | --- |
| `BatchStore` | the disk buffer | |
| `Agent` | the polling loop, watched files, crashes, shutdown | extends `BatchStore` |
| `Sender` | the sender goroutine and ingest as it sees it | extends `BatchStore` |
| `Delivery` | the agent process: both around one buffer | extends `Agent`, `Sender` |
| `OffsetsFile` | the renames and syncs of a commit, POSIX and Windows, loss of power | |
| `AtomicOffsets` | abstract: what the agent expects of `offsets.json` | refined by `OffsetsFile` |
| `Schema`, `Redact`, `Parser`, `Config` | `internal/schema`, `internal/redact`, `parser.go`, `config.go` as operators | |
| `Pipeline` | one line through configuration, agent and ingest | extends the four above |
| `Ingest` | request handlers, key cache, services table, stream length | |
| `QueryAPI` | logins, administration, permissions, searches | |
| `AgentProofs`, `DeliveryProofs` | theorems about the polling loop and the whole process | the second extends `SenderProofs` too |
| `SenderProofs`, `BufferProofs` | lemmas about sender and buffer in any composition, theorems about them beside the writer of `MCSender` | |
| `OffsetsProofs`, `IngestProofs`, `QueryProofs`, `PipelineProofs` | theorems about these components | |
| `MCSender`, `MCDelivery`, `MCIngest`, `MCPipeline` | instances for TLC: a writer around buffer and sender, constants, slices, lines and configurations | |

The modules without an `MC` module are checked as they are. A definition whose
comment starts with "Mutant:" is a plausible bug; each checked property is
violated when some mutant takes the place of the definition it mutates.

**BatchStore.** `batches[n]` is the n-th batch ever written: its state (pending,
sending, failed, deleted after delivery, evicted), its lines, number of records
size, and the time in its name. Names sort by what the wall clock showed
(`Older`), which is not the order of writing once the clock was set back
("clock_step"). `mu` is the lock. `WriteBatch` and `Unclaim` are two steps, the rename and the
eviction, with the lock held in between, so that a crash may fall there. `Env`
says what may fail in a run: removal, renaming, reading the directory. The size of a
set of batches is the number of their bytes, as a cardinality (`Bytes`), which TLC
computes and the provers can reason about.

**Agent.** A line is `<<file, generation, number>>`; shrinking a file starts a
new generation. Offsets count lines. `pc` follows one poll: `stat` and `read`
per file (two steps: the file may change between them), `resets`, `lines`,
`idle`, then `flush`, `write`, `enforce`, `commit`, and for a shutdown `drain`
and `exit`; `ret` is where `flushBatch` returns to. `ProcessLine` is
`processLine`: whether a record is kept is chosen freely ("filter"). `stack` is
the assembler; `FlushIdle` may or may not find a record idle, except that one
updated in the same poll is not. `Crash` loses memory and releases the lock.
`filtered` and `savedGen` are history. What the sender does to the buffer
meanwhile is `SenderStep`.

**Sender.** `spc` follows `Run`. `Answers` is the ingest API by its answers; the
`Ingest` module establishes that contract (`AnswerContract`). An abandoned
request goes to `late` and may still be handled. `Blank` are lines whose record
has no message, which ingest rejects inside a 202. `queued` is the stream.
`MCSender` adds a writer, crashes and restarts; it is also where the buffer's
own properties are checked.

**Delivery** conjoins the two. A signal sets `ctx`, which both goroutines see at
their own time, and `main` waits for the sender. `ImplementsAgent` states that
the composed process is a behaviour of `AgentSpec`: what `Agent` assumes about
the sender is what `Sender` does. `EveryLineArrives` is the purpose of it all.

**OffsetsFile.** `Agent` takes a commit for one step. Here it is the rename of
the batch, the sync of the directory, the temporary file, and the rename of
`offsets.json`; on Windows with removal of an old backup, backup, replacement,
rollback and cleanup, each of which may fail and most of which ignore it. `past`
are the contents a loss of power may bring back: those since the directory was
last synced. `SavesAtomically` says that all this implements `AtomicOffsets`, a
register with `Start`, `Save`, `Stop`, and, only on Windows or when power may be
lost (`fallible`), a fall-back to a value that was saved before. In the mapping,
the process knows of a save as soon as the replacement is done.

**Pipeline.** A line is a shape with what the patterns of its format pick out; a
text is a sequence of symbols: digits, `Space`, `Letter`, a two-byte rune (`Lead`,
`Cont`), a `Key` of a secret, the `Comma` that ends its value, a token (`Mail`),
the two halves of the mask. The search for card numbers, the Luhn check and the
cut at a rune are modelled symbol by symbol. A scenario gives a configuration, a
line, the readings the clocks may show, and, as history, what the writer meant:
message, attributes, instant, severity, filter. The properties compare the stored
record with that by definitions of their own (`Cut`, `IsCard`, `Claimed`,
`Meant`, `AtLeast`), not with the operators of the model. Epoch milliseconds are
divided by 1000 in `float64`: `parseEpoch` yields the multiple of `Ulp` next to the
exact time, which `Margin` allows for. One action per step of a record:
`LoadConfig`, `Filter` or `Keep`, `WriteBatch` (the encoding), `Ingest` or
`Reject`, each at a clock reading of its own.

**Ingest.** One step per access to shared state: key lookup, `XLEN`, reading the
body, one step per attempt to run the `XADD` pipeline. An attempt that fails
may have executed any of its records, and Redis may execute others later, when the
client has tried again or the handler has answered (`strays`; `late` counts them).
`MaxRetries` is the Redis client's own: `main.go:131` leaves go-redis v9.7.3 at its
default of 3. A refresh is two steps, the query and the replacement. Administrators write the services table through
`createService` and `updateService`.

**QueryAPI.** A client holds a token and waits for one request at a time; `req`
says which statement of its handler comes next. `CreateUser` is an open
transaction, invisible until `Commit`; inserting an email another transaction
has inserted waits for its end. `users` joins the tables `users` and
`user_services`; its field `wanted` is history. Every reading endpoint loads the
permitted services (`Permit`) and then queries with them: `ListLogs` with order,
limit and cursor, `QueryWindow` for traces and statistics. ClickHouse's answer may be
cut at 16 MiB between two rows, which the code takes for its end (`Cut`). A token that no
longer verifies, because a restart made a new secret, counts as none. `walk`
follows a client that pages with `before`.

## 3. Runs

| Run | Shows |
| --- | --- |
| `agent` | `SkipsOnlyStored`, `NoLineForgotten`, `CommitAccepted` under crashes, shutdowns, failing reads, writes and starts, filtering and a file that shrinks, next to an active sender |
| `agent_retry` | no line is written twice by one process although saves fail and are retried, two files shrink and regrow unnoticed |
| `sender_faults` | at-least-once delivery and quarantine under every fault, failing renames and removals and a clock set back included; `EvictsNoMore`: a step deletes nothing beyond what the limit calls for |
| `sender_live` | while the buffer directory works: no claim without an owner, limit and eviction, every batch settles, a signal ends the sender, also when names do not sort by age |
| `delivery` | nothing lost silently from file to stream, every line arrives; refinement of `AgentSpec` |
| `offsets` | a restart skips only durable lines, also after a loss of power; refinement of `AtomicOffsets`; a failed save is made up for |
| `pipeline` | what is read is what was meant (`ReadAsMeant`), and then: timestamps honest, never far ahead, their corrections traceable; nothing sensitive stored, nothing else masked or altered unflagged, runes whole; the filter as configured; lines withheld only for their own sake |
| `query` | rows within permissions, complete users, paging, while everything else goes on |
| `ingest` | overrun bound, answer contract, identities, keys kept, with pipelines that the Redis client repeats; once the table is acceptable, its retentions take effect, also in place of other valid ones |

Three runs show where the code and what is said of it differ (`findings`):

- `agent_save_fault`: `WriteBatch` succeeds, saving the offsets fails, further
  records join the batch; the retry sees `pendingBatch` set, does not write
  them, and commits their offsets. They are lost without a crash.
- `agent_regrow`: a file shrinks, is noticed, and grows back to its saved offset
  before the commit: the old offset is kept, and a restart skips new lines.
- `ingest_poisoned`: a retention above 65535 is accepted by the query API and
  then keeps ingest from loading any later change, and from starting.

Reasons for the conditions under which some properties are checked, each of them
a behaviour of the code that the models show when the condition is dropped:

- two files shrink in one poll after a failed write: the flush for the first
  commits the stale offset of the second, which is refused, or saved if the new
  content was read that far, and then a restart skips new lines. `CommitAccepted`
  and `SkipsOnlyStored` are therefore checked with rotation for one file, and
  proved for any number without rotation or without failing writes;
- an `Unclaim` that fails is ignored, and the batch waits as `.sending` for the
  next restart: `NoOrphanClaim` and `EveryBatchSettles` are checked without
  failing renames;
- the oldest batch cannot be removed: newer ones go instead. `EvictedOnlyForSpace`
  and `BufferWithinLimit` are checked without failing removals; `EvictsNoMore` with
  them;
- a crash leaves the queue above its limit, because `recoverClaims` does not
  enforce it: `BufferWithinLimit` holds until a crash;
- a batch larger than the whole buffer is deleted by the `WriteBatch` that
  reports it as durable: `EvictedOnlyForSpace` allows for it, `SkipsOnlyStored`
  counts evicted batches as stored;
- while the disk fails the batch grows without a bound, and may outgrow what
  ingest accepts and end in `failed/`: `QuarantinedOnlyIfRefused` says that nothing
  else does, and `EveryLineArrives` is checked with a file no longer than what ingest
  accepts. `batch_size` itself may be configured above ingest's 10 000 records;
- a record whose time lies outside the years 0 to 9999, or that brings such an
  `ingested_at`, cannot be encoded, and `WriteBatch` fails for its batch on every
  retry: `WithheldOnlyIfUnusable` allows this, and
  `EveryLineArrives` is about lines without such times;
- white space as `host` or `env` passes the agent's validation, and every record
  is then rejected inside a 202: `WithheldOnlyIfUnusable` allows this too;
- the agent's clock is ahead by more than the tolerance: ingest corrects once more
  and overwrites `timestamp_skew_ms`, which then tells of the second correction
  only. A skew that looks like a card number is masked, which the longest one,
  9223372036854 ms, does. `SkewTells` excepts both;
- a date without a year is read in the current year: one written before New Year
  and read after it is nearly a year ahead and gets corrected, the other way round
  it is nearly a year old and is not. `TimestampHonest` asks for the writer's instant
  if the line is read within a year of it, less the tolerance: a later reader cannot
  tell the year. `SkewTells` takes the year of reading;
- epoch milliseconds are divided by 1000 in floating point and then cut to
  nanoseconds (`parser.go:153`-`156`): 1700000000123 becomes 122 999 906 ns, stored as
  .122, without a flag, where `parser_test.go:37` expects exactly
  `time.Unix(1_700_000_000, 123_000_000)`. `ReadAsMeant`, `TimestampHonest` and
  `SkewTells` allow for less than a millisecond of error in such a time, and each of
  them fails without (`Margin` = 0);
- the Redis client repeats a pipeline that failed after Redis had executed it:
  `OverrunBound` counts one batch per attempt, not per request, and one for every
  attempt that Redis executed late;
- card numbers with one space between them are one longer number to the pattern:
  `ShowsCard` asks for numbers apart from other digits. A mask may be longer than
  what it replaces, so that a stored message may exceed the maximal length;
- the error of the directory's sync is ignored: `SkipsOnlyDurable` is checked with
  a sync that works (`SyncWorks`), without which it fails. On Windows nothing makes the
  renames durable, and the backup is never read: a crash between the two renames
  makes the next process read every file from its beginning. Loss of power is
  modelled on POSIX only.

**Bounds.** One or two files of one or two lines with batches of one or two
records: enough for a batch to fill in the middle of a poll, at its end and
across polls, for an open record to span polls and a commit, and for a failed
flush to be followed by another. In `agent` the sender
takes one batch (`"send_one"`), at any moment; `delivery` has no such limit. Two generations: a file shrinks with an open
record, with a batch that could not be written, and between stat and read.
Buffers that hold one or two of the batches written: eviction, also of a returned
claim, a queue that is exactly full. Retry delays 1 to 5: doubling and its cap. A stream limit of 1 with
batches of 2 and two handlers, of two attempts each, of which one may be executed
late: both pass the check before either writes, and either repeats itself. `ingest`
takes one of two slices of the component at a time, which together are too many
states: administrators at work on two services with one handler that meets no
failing Redis, or all handlers and failures with one service.
One client searches and one administers, with two emails and two services (one
of them unknown at first, lists of up to two names, also twice the same), pages
of up to two rows out of two, which may tie, cut down to one or none (the same as
pages of one); the second creator of users is
`create-admin`. Four lines and three crashes for `offsets.json`: a stale backup,
a rollback to it, and a loss of power that brings back any of two saves. In
`pipeline` 4 units are a millisecond, 12 a second, 128 a year; New Year, 384, lies
between the clocks 380, 394 and 410, of which the outer two are further apart
than the tolerance of 16; epoch numbers below 20 are seconds. Floating point has every
third unit (`Ulp`), so that of the milliseconds of a second one is exact, one is
rounded down into the millisecond before, and one up. Messages of up to 6
bytes are stored uncut, and 3 to 4 digits (for 13 to 19) can be a card number:
texts of up to 7 symbols hold a number, a longer one, one next to another and one
at the cut. The longest duration, 730, is 182 ms, which passes the Luhn check as
the real one does. Names of levels, formats, time zones and entries of the
configuration are each tried with the values the code tells apart. `MaxDays = 3` stands for 65535, with 5 beyond it, 0 below, and two valid retentions,
2 and 3, of which one may have to replace the other. Unless a run
allows it (`regrow`, `regrow_unseen`), a file that has shrunk stays shorter than
its saved offset until a new one is saved: `MayGrow`.

**Deadlock** is checked in every run.

**Fairness.** The polling loop and the sender never block for good: the lock is
always released, `client.Do` has a timeout, tickers fire, a cancelled sender ends and with it the
process. In `delivery` the steps of each goroutine are weakly fair, and strongly
fair are: the shutdown on a signal, because Go's `select` picks at random among
the cases that are ready; that an idle record is found idle; and, so that no
fault is permanent, a successful `WriteBatch`, an accepted request and the arrival of its
answer. `sender_live` assumes the same of the sender alone, and `offsets` that the renames
of `Backup` and `Replace` do not fail for ever. The code retries these for
as long as it runs, so this is the least one has to assume. The service manager
restarts the processes (`restart: unless-stopped`). `EveryBatchSettles` lets a
signal put a batch off; since it holds from every state, a batch settles once the
agent is not stopped any more. `ingest` assumes only
that refreshes go on.

## 4. Proofs

The theorems hold for every value of the constants, under the named `ASSUME`s of
the modules that declare them, which say that sizes and limits are numbers, sets
finite, and, for `Pipeline`, that lines and the texts of their fields are UTF-8, that
what the parsers pick out of them has its type, floating point has a resolution, and that clocks show a time after
the first millisecond of year 1 and one that JSON can write. A theorem about a
fault-free part of the world has the excluded faults as its hypothesis, and each of
these is needed: the runs and the list in section 3 show the behaviour that it excludes.
Every safety property of the runs in which the code is as it should be has a theorem,
except `ReadAsMeant`; `OffsetsTypeOK` is proved without a run of its own.

| Theorem | Under | States |
| --- | --- | --- |
| `AgentTypeCorrect` | | `AgentTypeOK` |
| `PositionsOrdered`, `CommitsAccepted` | no rotation | `PositionInv`, `CommitAccepted` |
| `OneFileCommitsAccepted` | one file | `CommitAccepted`, rotation and regrowth included |
| `WriteAhead`, `RestartSkipsOnlyStored` | no rotation, saves succeed | `WriteAheadInv`, `SkipsOnlyStored` |
| `UnfailingCommitsAccepted` | writes and saves succeed | `CommitAccepted`, any files, rotation and regrowth included |
| `ShrunkFilesSkipOnlyStored` | no regrowth, saves succeed; one file, or writes succeed | `SkipsOnlyStored`, rotation included |
| `NoLineDropped` | saves succeed; no rotation, one file, or writes succeed | `NoLineForgotten` |
| `NoLineWrittenTwice` | one life of the process (no crash, no shutdown) | `WrittenOnce` |
| `SenderTypeCorrect`, `DeliveredAtLeastOnce`, `QuarantinesOnlyRefused` | | `SenderTypeOK`, `DeletedOnlyIfQueued`, `QuarantinedOnlyIfRefused` |
| `NoClaimOrphaned` | renames succeed | `NoOrphanClaim` |
| `EvictsOnlyForSpace` | removals succeed | `EvictedOnlyForSpace` |
| `EvictsMinimally` | | `EvictsNoMore` |
| `BufferStaysWithinLimit` | removals, renames and listings succeed | `BufferWithinLimit` |
| `ProcessImplementsAgent` | the sender is not bounded (`"send" \in Env`) | `ImplementsAgent` |
| `ProcessDeliversAtLeastOnce` | | `DeletedOnlyIfQueued`, of the whole process |
| `NoLineLostSilently` | the same, saves succeed; no rotation, or no regrowth and either one file or writes succeed | `NothingLostSilently` |
| `OffsetsTypeCorrect`, `OffsetsRefineRegister` | | `OffsetsTypeOK`, `SavesAtomically` |
| `RestartSkipsOnlyDurable` | `SyncWorks` | `SkipsOnlyDurable` |
| `IngestTypeCorrect`, `OverrunBounded`, `IdentityIsFromKey`, `AnswersHonest`, `KeysKeepWorking` | | `IngestTypeOK`, `OverrunBound`, `IdentityFromKey`, `AnswerContract`, `KeysKept` |
| `QueryTypeCorrect`, `AnswersStayInScope`, `UsersCreatedWhole`, `PagingMissesOnlyTies` | | `QueryTypeOK`, `ScopedRows`, `UserComplete`, `PagesMissOnlyTies` |
| `TablesOnlyGrow` | | services and accounts are never removed or changed |
| `TimestampsNeverFarAhead` | | `NeverFarAhead` |
| `MessagesKeepWholeRunes` | | `RuneSafe` |
| `NothingSensitiveIsStored` | the code's lists know the keys of what a writer calls secret | `NothingSensitiveStored` |
| `HarmlessMessagesAreKept`, `UnflaggedIsUntouched` | `[]ReadAsMeant` | `OnlySensitiveMasked`, `UnflaggedUntouched` |
| `TimestampsAreHonest`, `SkewLeadsBack` | `[]ReadAsMeant` | `TimestampHonest`, `SkewTells` |
| `TheFilterIsHonoured` | `[]ReadAsMeant` | `FilterHonoured` |
| `WithheldOnlyForCause` | `[]ReadAsMeant`, the host has a name | `WithheldOnlyIfUnusable` |

Six theorems have `[]ReadAsMeant` for a hypothesis. A scenario says what its writers
meant, and nothing ties that to the line and the configuration except that
parsing and `LoadConfig` make the one of the other; for the scenarios of
`MCPipeline` the run `pipeline` checks that they do. The theorems cover what comes
after it: for every text, every pair of clocks and every value of the constants,
what filter, normalisation, redaction, encoding and ingest make of a line that was
read as it was meant.

The inductive invariants; what TLC can evaluate of each it checked before the proof
(`MeantInv` has unbounded quantifiers: there it was `ReadAsMeant` and the properties):

**Write-ahead.** `SkipsOnlyStored` says nothing of what a commit is about to
save. `PositionInv` adds, per file, that the saved offset, the safe offset
(`batchOffsets` or else the saved one), the line last handed to the assembler,
the position read and the size of the file come in this order, and that the
lines between the second and the third are the open record. `DurabilityInv` adds
that the lines behind the safe offset are stored, filtered or in the batch, that
the batch is stored whenever the program is between writing and committing it,
and that a written batch is pending only there. Two groups of lemmas carry the
argument: no operation on the buffer takes a line away from it (`SetStateKeeps`,
`PublishAdds`), and processing a record moves the safe offset exactly over that
record's lines (`PositionRecord`, `DurableRecord`).

**Commits with one file.** `AcceptInv`: unless the file has a reset to be handled,
neither the batch nor the open record has an offset beyond the line last handed
on; and resets are handled before anything can be committed. With two files the
second part fails, because the flush for the first reset comes before the second.
If nothing fails, it does not matter: `QuietInv` says that a poll begins
without any offset in the batch, so that a commit has only offsets this poll has read.

**Files that shrink.** `ShrinkInv` orders generations as `PositionInv` orders
positions: the saved one is not after the one read, nor that after the one on disk.
A saved offset or a position of an older generation exceeds the size of the new
content (`MayGrow`), so that the comparison of sizes, all the code has, tells the two
apart. New content that was not noticed (`ShrinkUnseen`) is met only by a process that
has nothing of the file in memory. `OrderInv`, from `AcceptInv` or `QuietInv`, adds
that what a commit saves belongs to the generation read.

**Nothing forgotten.** `StagedInv`: lines are staged only from `ReadNewLines` to
the end of `Poll`'s loop, so that a file whose position is reset has none.
`WrittenFirst`: a batch is on disk from its write to its commit. Then every
step accounts for the batch, each open record and the staged lines separately
(`HoldsParts`).

**Nothing twice.** A file's position, generation first and then line, only moves
on (`ReadInv`, `Onward`). `OnceInv`: all lines in the buffer, the batch and the open
records lie behind it (`Passed`), an open record shares no line with the others, and
the batch shares none with the buffer unless it is the one just written. `RunInv`
says that without a signal nothing drains.

**Sender.** `ClaimInv` ties the answer the sender has received to the batch it
claims: on the way to deleting it, its valid records are queued; on the way to
`failed/`, ingest would refuse it again. `IdleInv`, `Tidy` follow the claim to the
`.sending` files. For the buffer, `UniqueTimes` makes the order of names total, and
the size of a set of batches is monotone and additive, from the theorems on
cardinality.

**Process.** The refinement of `AgentSpec` needs `AliveInv`: without a polling loop
there is no sender. `NoLineLostSilently` then combines the write-ahead property of
the agent, carried over by the refinement, with that of the sender.

**Offsets file.** `PlaceInv` says which steps belong to which platform, `DurableInv`
that every content the file, its backup or a loss of power can show lies behind
durable lines, and that the line about to be saved is durable once the directory
was synced. For the refinement, `SavedInv`: what can come back was saved once.

**Ingest.** `OverrunInv` counts the attempts that the handlers behind the check of the
queue length still have; an attempt left to Redis moves the bound when it is executed (`late`); `IdentityInv` follows a retention from the table through a refresh, the
cache and a request into the stream; `AnswerInv` says how many records a request
has added at each step; `KeysInv` that a table a refresh has read knows all the keys
in the cache.

**Query API.** `GrantInv`: an open transaction is the only one for its email, and
the account does not exist yet. `UserInv`: what is granted and what is still to be
granted make up what was asked for. `PermInv`: a token names an account with its
role, and permissions that were loaded stay permitted, because accounts and
services never change (`TablesOnlyGrow`). `PagesMissOnlyTies` is inductive as it is.

**Processing.** `PipelineInv` follows a record that is `Sound`: it has a timestamp,
and its message is a sequence of whole runes. Truncation to milliseconds is
monotone, and the tolerance is a whole number of milliseconds, so that what
normalisation tolerates by its clock is tolerated by the later, truncated time of
acceptance. For the messages, an interval that a pattern masks fits the text: it
neither begins with the second byte of a rune nor ends with the first (`Fits`; a card
number begins and ends with digits, the value of a key lies between the key and a
delimiter), and then what `MaskSpans` has written up to any symbol is whole, except
for a rune whose first byte was the last symbol (`PieceBegun`). Loops over fields,
symbols and positions are recursive functions; that they are well defined, and what
they keep, is shown by least counterexample (`LeastNumber`), since the library's
induction theorems cannot be instantiated.

**Nothing sensitive.** `Layout` says where masking puts each symbol of a text: one
that stays goes on its own to its place, one that begins a masked interval becomes
the mask. So neighbours in the result are neighbours in the text or stand next to a
mask. A key without a value, or with a masked one, is `Guarded`; masking values
guards every key, and the two passes that follow mask nothing that a guard consists
of. For card numbers, the search finds matches that do not overlap, and at every
position where a number begins it finds one unless an earlier match runs across it
(`Orderly`). A card number of the result that stands apart from other digits has no
mask in it, so it was one in the text. It stood apart there too, because the code masks
no number that has a digit for a neighbour; so it was found, as a whole, and passes the
code's Luhn check, because the code's sum and the textbook's agree (`LuhnAgrees`).
`Discreet` carries this to the record.

**As meant.** `MeantInv`: the record of the batch is `Batched` of some record that is
`AsMeant`, and the one in the stream is `Accepted` of such a record; what passed the
filter, was dropped, stuck or rejected met the condition for it. The rest compares
`Accepted(Batched(...))` with what was meant. A second cut leaves a cut text as it is
(`TruncateIsCut`), redaction leaves a text without anything sensitive as it is
(`HarmlessKept`), does not make one blank (`RedactNotBlank`), and keeps or masks the
digits of a skew as a whole (`DigitsKept`). A time corrected by ingest was truncated
before, so the two remainders that truncation and division drop add up to nothing or
to one millisecond (`RemaindersAdd`): the skew is exact to within two, beside the
`Margin` of reading. For a time that is not flagged, `MeantIfAccepted`: one that the
reader's clock tolerates is in the year the writer meant, or was read too late to tell.

Only model-checked: liveness (`EveryBatchSettles`, `CancelledSenderFinishes`,
`EveryLineArrives`, `ValidRetentionTakesEffect` and the retry of a failed save), which is out of
the prover's reach; `NoLineForgotten` with
failing saves, and `WrittenOnce` beyond one life of the process (where it is false by
design: delivery is at least once); and `ReadAsMeant`, what parsing and configuration
make of a line, which compares searches in texts with what the writer of a scenario meant
(`scenario.said`, `event`, `severity`), and for arbitrary scenarios has nothing to do
with the line.

## 5. Not modelled

Bytes of lines and incomplete last lines in the tailer; corrupt `offsets.json`;
leftover temporary files and the size of `failed/`; decoding of YAML and JSON;
the patterns of redaction other than card numbers, beyond what they mask; leap
days, fractions of epoch seconds (whose rounding is that of milliseconds), numbers
beyond 64 bits or so large that `float64` has gaps of a millisecond; `checkServerClock`,
which only logs; environment variables (`internal/config`); the query API's
filters by level, text and trace id, which only take rows away, and what its
statistics compute; the dashboard; the deployment; the processor and alerts,
which do not exist yet.

## 6. Plan

Done: the buffer, the polling loop, the sender, their composition, the offsets
file, the processing of lines, configuration, ingest, the query API; proofs of all
safety properties of these parts and of both refinements.

Next: the dashboard's search and session races.
