----------------------------- MODULE BatchStore -----------------------------
(***************************************************************************)
(* The agent's disk buffer (cmd/agent/buffer.go): a directory of gzip      *)
(* batches shared by the polling loop, which writes them, and the sender   *)
(* goroutine, which claims, returns, deletes or quarantines them.          *)
(*                                                                         *)
(* Every operation runs under store.mu.  The operations that rename a      *)
(* file into the queue and then shrink the queue to its limit are two      *)
(* steps that hold the lock between them, so that a crash can fall there.  *)
(***************************************************************************)
EXTENDS Integers, Sequences, FiniteSets

CONSTANTS
    MaxBytes,   \* store.maxBytes
    ByteSizes,  \* the sizes a compressed batch may have
    Env         \* what the environment may do, a subset of EnvEvents

\* Failing system calls on the buffer directory, and what happens to the
\* process and to the watched files (used by the modules that extend this).
EnvEvents == {"remove_fault", "rename_fault", "recover_fault", "readdir_fault",
              "write_fault", "save_fault", "read_fault", "clock_step",
              "crash", "stop", "rotate", "regrow", "regrow_unseen",
              "filter", "send", "send_one", "net_fault", "queue_fault", "refuse"}

ASSUME StoreAssumption ==
    /\ MaxBytes \in Nat
    /\ ByteSizes \subseteq Nat
    /\ Env \subseteq EnvEvents

VARIABLES
    batches,    \* every batch published so far, in the order of their writing
    mu          \* the holder of store.mu, or Free

storeVars == <<batches, mu>>

Free == "free"
Clients == {"agent", "sender"}

\* Where a batch is: name.json.gz, name.json.gz.sending, failed/name.json.gz;
\* "deleted" and "evicted" are no longer on disk and tell apart why.
BatchStates == {"pending", "sending", "failed", "deleted", "evicted"}

\* A line is named by its file, the generation of the file and its number.
Line == Nat \X Nat \X Nat

Batch == [state : BatchStates, time : Nat, lines : SUBSET Line, count : Nat,
          bytes : Nat]

StoreTypeOK ==
    /\ batches \in Seq(Batch)
    /\ mu \in Clients \cup {Free}

\* A position in batches stands for a batch's unique name.
Names == DOMAIN batches

\* newBatchName: names start with the wall clock in fixed width, so that they
\* sort by the time the clock showed.
Older(m, n) == batches[m].time < batches[n].time
NotOlder(n) == {m \in Names : ~Older(m, n)}

\* The clock moves on from batch to batch, unless it is set back, before or
\* in between the times it has shown.
NewTimes ==
    LET used == {batches[n].time : n \in Names}
    IN  {2 * Len(batches) + 1} \cup
            (IF "clock_step" \in Env
             THEN {t \in 0 .. 2 * Len(batches) : \E u \in used : t < u} \ used
             ELSE {})

InState(s) == {n \in Names : batches[n].state = s}
Pending == InState("pending")
Sending == InState("sending")

BytesOf(n) == batches[n].bytes

\* The sum of the sizes, as the number of bytes in the files.
BytesIn(n) == {n} \X (1 .. BytesOf(n))
Bytes(S) == Cardinality(UNION {BytesIn(n) : n \in S})

SetState(S, s) ==
    [n \in Names |-> IF n \in S THEN [batches[n] EXCEPT !.state = s]
                                ELSE batches[n]]

StoreInit ==
    /\ batches = <<>>
    /\ mu = Free

-----------------------------------------------------------------------------
\* Mutant: the loop walks the batches from the newest to the oldest.
IsEvictionNewestFirst(E, stuck) ==
    \A n \in Pending :
        LET left == Bytes(Pending) - Bytes({m \in E : Older(n, m)})
        IN  n \in E <=> left > MaxBytes /\ n \notin stuck

\* Mutant: the total is not reduced by what was removed.
IsEvictionOfAll(E, stuck) ==
    \A n \in Pending : n \in E <=> Bytes(Pending) > MaxBytes /\ n \notin stuck

(***************************************************************************)
(* enforceLimitLocked.  E is what the loop removes when the batches in     *)
(* stuck cannot be removed: walking from the oldest, a batch goes as long  *)
(* as what is left exceeds the limit, and a failed removal is skipped.     *)
(***************************************************************************)
IsEviction(E, stuck) ==
    \A n \in Pending :
        LET left == Bytes(Pending) - Bytes({m \in E : Older(m, n)})
        IN  n \in E <=> left > MaxBytes /\ n \notin stuck

Stuck == IF "remove_fault" \in Env THEN SUBSET Pending ELSE {{}}

\* Mutant: the lock is not released.
EnforceLimitKeepsLock(who) ==
    /\ mu = who
    /\ UNCHANGED storeVars

EnforceLimit(who) ==
    /\ mu = who
    /\ mu' = Free
    /\ \/ \E stuck \in Stuck, E \in SUBSET Pending :
            /\ IsEviction(E, stuck)
            /\ batches' = SetState(E, "evicted")
       \/ /\ "readdir_fault" \in Env       \* "could not inspect agent buffer size"
          /\ UNCHANGED batches

\* Mutant: WriteBatch does not enforce the limit and unlocks at once.
PublishNoLimit(lines, count) ==
    /\ mu = Free
    /\ \E b \in ByteSizes, t \in NewTimes :
         batches' = Append(batches, [state |-> "pending", time |-> t, lines |-> lines,
                                     count |-> count, bytes |-> b])
    /\ UNCHANGED mu

\* WriteBatch up to the rename that publishes the batch; the lock is kept
\* until EnforceLimit.
Publish(lines, count) ==
    /\ mu = Free
    /\ \E b \in ByteSizes, t \in NewTimes :
         batches' = Append(batches, [state |-> "pending", time |-> t, lines |-> lines,
                                     count |-> count, bytes |-> b])
    /\ mu' = "agent"

\* The sender renames the oldest batch it can.
ClaimOldest(n) ==
    /\ mu = Free
    /\ n \in Pending
    /\ "rename_fault" \in Env \/ Pending \subseteq NotOlder(n)
    /\ batches' = SetState({n}, "sending")
    /\ UNCHANGED mu

Unclaim(n) ==
    /\ mu = Free
    /\ n \in Sending
    /\ batches' = SetState({n}, "pending")
    /\ mu' = "sender"

DeleteClaim(n) ==
    /\ mu = Free
    /\ n \in Sending
    /\ batches' = SetState({n}, "deleted")
    /\ UNCHANGED mu

MoveToFailed(n) ==
    /\ mu = Free
    /\ n \in Sending
    /\ batches' = SetState({n}, "failed")
    /\ UNCHANGED mu

\* Mutant: the claims of the previous process are left as they are.
RecoverClaimsNone ==
    /\ mu' = Free
    /\ UNCHANGED batches

\* NewBatchStore: a new process, hence a new mutex, returns every claim left
\* by the previous one to the queue.  The limit is not enforced.
RecoverClaims ==
    /\ batches' = SetState(Sending, "pending")
    /\ mu' = Free

\* NewBatchStore fails at the first claim it cannot rename back: the older
\* ones were returned and the process exits.
RecoverFails ==
    /\ "recover_fault" \in Env
    /\ \E n \in Sending :
         batches' = SetState({m \in Sending : Older(m, n)}, "pending")
    /\ UNCHANGED mu

SenderStoreStep ==
    \/ \E n \in Names : \/ ClaimOldest(n)
                        \/ Unclaim(n)
                        \/ DeleteClaim(n)
                        \/ MoveToFailed(n)
    \/ EnforceLimit("sender")

-----------------------------------------------------------------------------
(***************************************************************************)
(* Properties of the buffer.                                               *)
(***************************************************************************)

\* A batch is deleted undelivered only to make room for newer ones: it and
\* the batches that are not older by their names exceed the limit together.
\* While the clock is not set back, WriteBatch therefore never deletes the
\* batch it has just written, unless that batch alone exceeds the limit.
EvictedOnlyForSpace ==
    \A n \in InState("evicted") : Bytes(NotOlder(n)) > MaxBytes

\* No operation deletes more than it has to, even when some of the oldest
\* batches cannot be removed and newer ones go in their place: keeping the
\* newest of the deleted ones too would have exceeded the limit.
EvictsNoMore ==
    [][LET gone == {n \in Pending : batches'[n].state = "evicted"}
       IN  \A n \in gone : (\A m \in gone : ~Older(n, m)) =>
               Bytes(Pending') + BytesOf(n) > MaxBytes]_storeVars
=============================================================================
