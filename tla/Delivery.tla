------------------------------ MODULE Delivery ------------------------------
(***************************************************************************)
(* The agent process: the polling loop of Agent and the sender goroutine   *)
(* of Sender around one disk buffer (cmd/agent/main.go), from the watched  *)
(* files to the Redis stream.  The two share the store's lock, the context *)
(* that a signal cancels, and the life of the process.                     *)
(***************************************************************************)
EXTENDS Agent, Sender

deliveryVars == <<vars, senderVars>>

DeliveryInit == AgentInit /\ SenderInit

StartProcess == Start /\ StartSender

CrashProcess == Crash /\ KillSender

Signal ==
    /\ restarts < MaxRestarts
    /\ Cancel
    /\ UNCHANGED agentVars

\* runAgent sees the cancelled context between two polls.
ShutdownOnSignal ==
    /\ ctx
    /\ Shutdown
    /\ UNCHANGED senderVars

\* main waits for the sender before it returns.
ExitProcess ==
    /\ spc = "done"
    /\ Exit
    /\ KillSender

Collect ==
    /\ Writer \/ StartFails \/ Poll \/ Flush \/ Drain \/ DrainDone
    /\ UNCHANGED senderVars

DeliveryNext ==
    \/ StartProcess \/ CrashProcess \/ Signal \/ ShutdownOnSignal \/ ExitProcess
    \/ Collect
    \/ (SenderRun \/ IngestStep) /\ UNCHANGED agentVars

DeliverySpec == DeliveryInit /\ [][DeliveryNext]_deliveryVars

\* The two goroutines run on; the mutex starves neither of them, and Go's
\* select between a tick and a signal takes each of them again and again.  A
\* service manager starts the process again, the disk takes a batch and
\* ingest answers 202 again and again, and that answer is not always lost.
FairDeliverySpec ==
    /\ DeliverySpec
    /\ WF_deliveryVars(StartProcess)
    /\ WF_deliveryVars((Poll \/ Flush \/ Drain \/ DrainDone) /\ UNCHANGED senderVars)
    /\ SF_deliveryVars(ShutdownOnSignal)
    /\ WF_deliveryVars(ExitProcess)
    /\ WF_deliveryVars(SenderRun /\ UNCHANGED agentVars)
    /\ WF_deliveryVars(IngestStep /\ UNCHANGED agentVars)
    /\ SF_deliveryVars(IdleRecord /\ UNCHANGED senderVars)
    /\ SF_deliveryVars(WriteBatch /\ UNCHANGED senderVars)
    /\ SF_deliveryVars(IngestAnswers(202) /\ UNCHANGED agentVars)
    /\ SF_deliveryVars(reply = 202 /\ Receive /\ UNCHANGED agentVars)

-----------------------------------------------------------------------------
\* From file to stream nothing is lost silently: a line that a restart would
\* not read again was filtered, is in the stream, has no message, or is in a
\* batch that is still on disk or that the size limit evicted.
NothingLostSilently ==
    \A f \in File :
        Size(f) >= offsets[f] =>
            \A i \in 1 .. offsets[f] :
                <<f, Gen(f), i>> \in
                    Blank \cup filtered \cup queued \cup
                    UNION {batches[n].lines : n \in Names \ InState("deleted")}

\* The sender does to the buffer what Agent allows it to: every behaviour of
\* the process is one of AgentSpec.
ImplementsAgent == AgentSpec

\* What the whole agent is for: a line with a message that is written to a
\* file arrives in the stream, or it was filtered or had to make room,
\* although the process is stopped or crashes, the disk refuses a batch, and
\* requests or their answers are lost.
EveryLineArrives ==
    \A f \in File : \A i \in {j \in 1 .. MaxLines : <<f, 1, j>> \notin Blank} :
        Size(f) >= i ~>
            <<f, 1, i>> \in filtered \cup queued \cup
                           UNION {batches[n].lines : n \in InState("evicted")}
=============================================================================
