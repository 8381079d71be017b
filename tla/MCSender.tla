------------------------------ MODULE MCSender ------------------------------
(***************************************************************************)
(* The sender against a writer that puts batches of two lines, one of them *)
(* rejected by ingest when it is blank, into the buffer at any time.       *)
(***************************************************************************)
EXTENDS Sender

CONSTANTS
    MaxBatches,     \* bound: batches written
    MaxCrashes,     \* bound: crashes of the process
    Counts          \* numbers of records a batch may hold

ASSUME MCAssumption ==
    /\ MaxBatches \in Nat
    /\ MaxCrashes \in Nat
    /\ Counts \subseteq Nat

VARIABLE crashes    \* how often the process has crashed

processVars == <<storeVars, senderVars>>
mcVars == <<processVars, crashes>>

MCBlank == {<<1, 1, 2>>}

Init == StoreInit /\ SenderInit /\ crashes = 0

\* The polling loop writes until the process ends, which after a signal may
\* be later than the sender does.
Write ==
    /\ spc # "done" \/ ctx
    /\ Len(batches) < MaxBatches
    /\ \E c \in Counts :
         Publish({<<1, Len(batches) + 1, 1>>, <<1, Len(batches) + 1, 2>>}, c)
    /\ UNCHANGED <<senderVars, crashes>>

Limit ==
    /\ EnforceLimit("agent")
    /\ UNCHANGED <<senderVars, crashes>>

\* A new process; the old one crashed or has ended, its operations over.
Start ==
    /\ spc = "done"
    /\ mu = Free
    /\ RecoverClaims
    /\ StartSender
    /\ UNCHANGED crashes

Crash ==
    /\ "crash" \in Env
    /\ crashes < MaxCrashes
    /\ crashes' = crashes + 1
    /\ spc # "done"
    /\ mu' = Free
    /\ UNCHANGED batches
    /\ KillSender

Next ==
    \/ Write \/ Limit \/ Start \/ Crash
    \/ (Cancel \/ SenderRun \/ IngestStep) /\ UNCHANGED crashes

Spec == Init /\ [][Next]_mcVars

\* The goroutine never blocks for good (client.Do times out) and the agent
\* releases the lock.  An ingest API that refuses or is unreachable now and
\* then answers again and again.
Fairness ==
    /\ WF_processVars(Start)
    /\ WF_processVars(Limit)
    /\ WF_processVars(SenderRun)
    /\ WF_processVars(IngestStep)
    /\ \A status \in {202, 413} : SF_processVars(reply = status /\ Receive)
    /\ SF_processVars(IngestAnswers(202))
    /\ SF_processVars(IngestAnswers(413))

FairSpec == Spec /\ Fairness

\* "Failed sends are retried": every batch in the buffer is eventually
\* delivered, refused for good or evicted, whatever fails in between, or the
\* agent is told to stop.  After the last restart it cannot be put off so.
EveryBatchSettles ==
    \A n \in 1 .. MaxBatches :
        n \in Pending ~> ctx \/ n \in Names \ (Pending \cup Sending)

\* A cancelled sender finishes, whatever it was doing.
CancelledSenderFinishes == ctx ~> spc = "done"

\* Between operations the queue respects max_buffer_size_mb: WriteBatch and
\* Unclaim, which both add to it, leave it within the limit.  A crash may
\* leave it above, because recoverClaims does not enforce the limit.
BufferWithinLimit ==
    mu = Free /\ crashes = 0 => Bytes(Pending) <= MaxBytes
=============================================================================
