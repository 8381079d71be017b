------------------------------- MODULE Sender -------------------------------
(***************************************************************************)
(* The agent's sender goroutine (cmd/agent/sender.go) and what it sees of  *)
(* the ingest API (cmd/ingest/handler.go): the sender claims the oldest    *)
(* batch, posts it, and deletes, quarantines or returns it according to    *)
(* the answer, waiting longer after every failure.                         *)
(*                                                                         *)
(* A request the sender has given up on may still be handled: late holds   *)
(* those.  queued is the set of lines added to the Redis stream.           *)
(***************************************************************************)
EXTENDS BatchStore

CONSTANTS
    InitialRetryDelay,  \* initialRetryDelay
    MaximumRetryDelay,  \* maximumRetryDelay
    MaxBatchSize,       \* the ingest API's maxBatchSize
    Blank               \* lines whose record ingest rejects: it has no message

ASSUME SenderAssumption ==
    /\ InitialRetryDelay \in Nat \ {0}
    /\ MaximumRetryDelay \in Nat
    /\ InitialRetryDelay <= MaximumRetryDelay
    /\ MaxBatchSize \in Nat
    /\ Blank \subseteq Line

VARIABLES
    spc,        \* where Run is
    claim,      \* the claimed batch, NoClaim if none
    reply,      \* the status the ingest API has answered with, or NoReply
    delay,      \* Run's delay
    grow,       \* whether the wait that is about to come doubles delay
    ctx,        \* ctx is cancelled
    late,       \* abandoned requests that are still being handled
    queued      \* lines in the Redis stream

senderCtl   == <<spc, claim, delay, grow>>
ingestVars  == <<late, queued>>
senderVars  == <<senderCtl, reply, ctx, ingestVars>>

NoClaim == 0
NoReply == 0
Statuses == {202, 400, 401, 413, 429, 503}

SenderPC == {"claim", "poll", "send", "await", "delete", "quarantine",
             "unclaim", "enforce", "sleep", "done"}

\* delay stays between its first value and the maximum: the doubling of
\* nextRetryDelay stops there.
SenderTypeOK ==
    /\ StoreTypeOK
    /\ spc \in SenderPC
    /\ claim \in Names \cup {NoClaim}
    /\ reply \in Statuses \cup {NoReply}
    /\ delay \in InitialRetryDelay .. MaximumRetryDelay
    /\ grow \in BOOLEAN
    /\ ctx \in BOOLEAN
    /\ late \subseteq Names
    /\ queued \subseteq Line

SenderInit ==
    /\ spc = "done"
    /\ claim = NoClaim
    /\ reply = NoReply
    /\ delay = InitialRetryDelay
    /\ grow = FALSE
    /\ ctx = FALSE
    /\ late = {}
    /\ queued = {}

\* main starts the goroutine with a fresh context.
StartSender ==
    /\ spc' = "claim"
    /\ claim' = NoClaim
    /\ reply' = NoReply
    /\ delay' = InitialRetryDelay
    /\ grow' = FALSE
    /\ ctx' = FALSE
    /\ UNCHANGED ingestVars

\* The process dies: a request it has sent may still be handled.
KillSender ==
    /\ spc' = "done"
    /\ claim' = NoClaim
    /\ reply' = NoReply
    /\ delay' = InitialRetryDelay
    /\ grow' = FALSE
    /\ ctx' = FALSE
    /\ late' = IF spc = "await" /\ reply = NoReply THEN late \cup {claim} ELSE late
    /\ UNCHANGED queued

\* SIGINT or SIGTERM.
Cancel ==
    /\ "stop" \in Env
    /\ spc # "done"
    /\ ~ctx
    /\ ctx' = TRUE
    /\ UNCHANGED <<storeVars, senderCtl, reply, ingestVars>>

-----------------------------------------------------------------------------
(***************************************************************************)
(* The ingest API, by its answers.  202 is sent only after every valid     *)
(* record is in the stream; a write of the stream is a pipeline that may   *)
(* stop anywhere, which is answered with 503; the other refusals come      *)
(* before anything is written.  count > MaxBatchSize stands for both       *)
(* limits on a request, 10 000 logs and 10 MiB of body; a batch on disk is *)
(* a complete JSON array, so it is never answered with 400.                *)
(***************************************************************************)
Enqueue(lines) == queued' = queued \cup lines

Answers(n, status) ==
    LET valid == batches[n].lines \ Blank
    IN  \/ /\ status = 202
           /\ batches[n].count <= MaxBatchSize
           /\ Enqueue(valid)
       \/ /\ status = 413
          /\ batches[n].count > MaxBatchSize
          /\ Enqueue({})
       \/ /\ status = 503
          /\ "queue_fault" \in Env         \* at XLEN, or within the pipeline
          /\ \/ Enqueue({})
             \/ /\ batches[n].count <= MaxBatchSize
                /\ \E part \in SUBSET valid : Enqueue(part)
       \/ /\ status \in {401, 429}          \* unknown key, stream too long
          /\ "refuse" \in Env
          /\ Enqueue({})

IngestAnswers(status) ==
    /\ spc = "await"
    /\ reply = NoReply
    /\ Answers(claim, status)
    /\ reply' = status
    /\ UNCHANGED <<storeVars, senderCtl, ctx, late>>

HandleLate(n) ==
    /\ n \in late
    /\ \E status \in Statuses : Answers(n, status)
    /\ late' = late \ {n}
    /\ UNCHANGED <<storeVars, senderCtl, reply, ctx>>

LoseLate(n) ==
    /\ n \in late
    /\ late' = late \ {n}
    /\ UNCHANGED <<storeVars, senderCtl, reply, ctx, queued>>

-----------------------------------------------------------------------------
(***************************************************************************)
(* Run.                                                                    *)
(***************************************************************************)
Goto(s) == /\ spc' = s
           /\ UNCHANGED <<reply, ctx, ingestVars>>

Claim ==
    /\ spc = "claim"
    /\ ~ctx
    /\ \E n \in Names : ClaimOldest(n) /\ claim' = n
    /\ Goto("send")
    /\ UNCHANGED <<delay, grow>>

\* Nothing to send, or the directory or the batches cannot be used.
ClaimNothing ==
    /\ spc = "claim"
    /\ ~ctx
    /\ mu = Free
    /\ Pending = {} \/ Env \cap {"rename_fault", "readdir_fault"} # {}
    /\ Goto("poll")
    /\ UNCHANGED <<storeVars, claim, delay, grow>>

\* sendBatch up to client.Do.
Send ==
    /\ spc = "send"
    /\ Goto("await")
    /\ UNCHANGED <<storeVars, claim, delay, grow>>

\* A claim that cannot be opened is retried.
OpenFails ==
    /\ spc = "send"
    /\ "read_fault" \in Env
    /\ grow' = TRUE
    /\ Goto("unclaim")
    /\ UNCHANGED <<storeVars, claim, delay>>

\* Mutant: the status is not looked at.
NextStepAnyAnswer(status) == "delete"

\* Mutant: every 4xx is final.
NextStepClientErrors(status) ==
    CASE status = 202 -> "delete"
      [] status \in 400 .. 499 -> "quarantine"
      [] OTHER -> "unclaim"

NextStep(status) ==
    CASE status = 202 -> "delete"
      [] status \in {400, 413} -> "quarantine"
      [] OTHER -> "unclaim"

\* The answer arrives.  A 429 with Retry-After, which ingest always sends,
\* leaves delay as it is; a proxy may answer 429 without it.
Receive ==
    /\ spc = "await"
    /\ reply # NoReply
    /\ spc' = NextStep(reply)
    /\ grow' \in IF reply = 429 THEN BOOLEAN ELSE {TRUE}
    /\ reply' = NoReply
    /\ UNCHANGED <<storeVars, claim, delay, ctx, ingestVars>>

\* Mutant: a request that was sent counts as delivered.
RequestFailsDeletes ==
    /\ spc = "await"
    /\ "net_fault" \in Env \/ ctx
    /\ spc' = "delete"
    /\ grow' = TRUE
    /\ reply' = NoReply
    /\ UNCHANGED <<storeVars, claim, delay, ctx, ingestVars>>

\* client.Do fails: no connection, a lost answer, the 30 second timeout, or
\* the cancelled context.
RequestFails ==
    /\ spc = "await"
    /\ "net_fault" \in Env \/ ctx
    /\ spc' = "unclaim"
    /\ grow' = TRUE
    /\ reply' = NoReply
    /\ late' \in IF reply = NoReply THEN {late, late \cup {claim}} ELSE {late}
    /\ UNCHANGED <<storeVars, claim, delay, ctx, queued>>

Delete ==
    /\ spc = "delete"
    /\ DeleteClaim(claim)
    /\ claim' = NoClaim
    /\ delay' = InitialRetryDelay
    /\ Goto("claim")
    /\ UNCHANGED grow

DeleteFails ==
    /\ spc = "delete"
    /\ "remove_fault" \in Env
    /\ mu = Free
    /\ Goto("unclaim")
    /\ UNCHANGED <<storeVars, claim, delay, grow>>

Quarantine ==
    /\ spc = "quarantine"
    /\ MoveToFailed(claim)
    /\ claim' = NoClaim
    /\ Goto("claim")
    /\ UNCHANGED <<delay, grow>>

QuarantineFails ==
    /\ spc = "quarantine"
    /\ "rename_fault" \in Env
    /\ mu = Free
    /\ Goto("unclaim")
    /\ UNCHANGED <<storeVars, claim, delay, grow>>

\* Mutant: the claim is dropped without being renamed.
ReturnForgets ==
    /\ spc = "unclaim"
    /\ claim' = NoClaim
    /\ Goto("sleep")
    /\ UNCHANGED <<storeVars, delay, grow>>

\* Mutant: the claim is renamed without the lock.
ReturnUnlocked ==
    /\ spc = "unclaim"
    /\ batches' = SetState({claim}, "pending")
    /\ claim' = NoClaim
    /\ Goto("sleep")
    /\ UNCHANGED <<mu, delay, grow>>

Return ==
    /\ spc = "unclaim"
    /\ Unclaim(claim)
    /\ claim' = NoClaim
    /\ Goto("enforce")
    /\ UNCHANGED <<delay, grow>>

\* The error of Unclaim is ignored.
ReturnFails ==
    /\ spc = "unclaim"
    /\ "rename_fault" \in Env
    /\ mu = Free
    /\ claim' = NoClaim
    /\ Goto("sleep")
    /\ UNCHANGED <<storeVars, delay, grow>>

EnforceReturn ==
    /\ spc = "enforce"
    /\ EnforceLimit("sender")
    /\ Goto("sleep")
    /\ UNCHANGED <<claim, delay, grow>>

\* Mutant: the doubling is not capped.
NextRetryDelayUncapped(d) == d * 2

NextRetryDelay(d) ==
    IF d >= MaximumRetryDelay \div 2 THEN MaximumRetryDelay ELSE d * 2

Wake ==
    /\ spc = "sleep"
    /\ ~ctx
    /\ delay' = IF grow THEN NextRetryDelay(delay) ELSE delay
    /\ grow' = FALSE
    /\ Goto("claim")
    /\ UNCHANGED <<storeVars, claim>>

PollAgain ==
    /\ spc = "poll"
    /\ ~ctx
    /\ Goto("claim")
    /\ UNCHANGED <<storeVars, claim, delay, grow>>

\* The loop's condition and waitContext see the cancelled context.
Finish ==
    /\ spc \in {"claim", "poll", "sleep"}
    /\ ctx
    /\ Goto("done")
    /\ UNCHANGED <<storeVars, claim, delay, grow>>

SenderRun ==
    \/ Claim \/ ClaimNothing \/ Send \/ OpenFails \/ Receive \/ RequestFails
    \/ Delete \/ DeleteFails \/ Quarantine \/ QuarantineFails
    \/ Return \/ ReturnFails \/ EnforceReturn
    \/ Wake \/ PollAgain \/ Finish

IngestStep ==
    \/ \E status \in Statuses : IngestAnswers(status)
    \/ \E n \in late : HandleLate(n) \/ LoseLate(n)

-----------------------------------------------------------------------------
(***************************************************************************)
(* Properties.                                                             *)
(***************************************************************************)

\* A batch leaves the disk as delivered only when every valid record of it
\* is in the stream: across retries, partial writes, lost answers, late
\* handling and restarts the pipeline delivers at least once.
DeletedOnlyIfQueued ==
    \A n \in InState("deleted") : batches[n].lines \ Blank \subseteq queued

\* Only a batch that ingest refuses for good is moved to failed/.
QuarantinedOnlyIfRefused ==
    \A n \in InState("failed") : batches[n].count > MaxBatchSize

\* Every .sending file is the one the running sender holds, so that a failed
\* delivery finds its batch back in the queue, and a sender that was stopped
\* leaves none behind; only a crash does, until the next start.
NoOrphanClaim == spc # "done" \/ ctx => Sending \subseteq {claim}
=============================================================================
