--------------------------- MODULE DeliveryProofs ---------------------------
(***************************************************************************)
(* The whole agent process, for every number of files, batch size, buffer  *)
(* limit and bound: the polling loop and the sender around one buffer      *)
(* behave as the agent that Agent specifies, and from file to stream no    *)
(* line is lost silently.                                                  *)
(***************************************************************************)
EXTENDS Delivery, AgentProofs, SenderProofs

-----------------------------------------------------------------------------
(***************************************************************************)
(* The process and its goroutines live and die together.                   *)
(***************************************************************************)

\* Without a process there is no sender.
AliveInv == pc = "down" => spc = "done"

ProcessInv == AgentTypeOK /\ AliveInv

LEMMA ProcessLinePC ==
    ASSUME NEW f, NEW lines, NEW end, NEW next \in PC \ {"down"},
           ProcessLine(f, lines, end, next)
    PROVE  pc' # "down"
BY DEF ProcessLine, PC

\* The polling loop ends only with the process.
LEMMA LoopGoesOn ==
    ASSUME AgentTypeOK, Writer \/ StartFails \/ Poll \/ Flush \/ Drain \/ DrainDone \/ Shutdown
    PROVE  pc' # "down" \/ pc' = pc
<1>1. CASE Writer \/ StartFails
  BY <1>1 DEF Writer, AppendLine, Rotate, StartFails, agentVars, ctlVars
<1>2. CASE Poll
  <2>1. CASE Tick \/ Stat \/ SkipFile \/ Read \/ ReadFails
    BY <2>1 DEF Tick, Stat, SkipFile, Read, ReadFails, ReadTo, NextFile
  <2>2. CASE ResetsDone \/ LinesDone \/ NotIdle \/ IdleDone
    BY <2>2 DEF ResetsDone, LinesDone, NotIdle, IdleDone
  <2>3. CASE DoReset \/ IdleRecord \/ \E f \in File : AddLine(f)
    <3>1. UNCHANGED pc \/ \E f, lines, end : \E next \in {"resets", "idle", "lines"} :
                            ProcessLine(f, lines, end, next)
      BY <2>3 DEF DoReset, IdleRecord, AddLine
    <3> QED
      BY <3>1, ProcessLinePC DEF PC
  <2> QED
    BY <1>2, <2>1, <2>2, <2>3 DEF Poll
<1>3. CASE Flush
  <2>1. CASE WriteFails \/ CommitFails
    BY <2>1, GiveUpType DEF WriteFails, CommitFails, Ret
  <2>2. CASE FlushBatch \/ NothingToWrite \/ WriteBatch \/ Enforce \/ Commit
    BY <2>2 DEF FlushBatch, NothingToWrite, WriteBatch, Enforce, Commit, AgentTypeOK, Ret
  <2> QED
    BY <1>3, <2>1, <2>2 DEF Flush
<1>4. CASE Drain
  <2>1. UNCHANGED pc \/ \E f, lines, end : ProcessLine(f, lines, end, "drain")
    BY <1>4 DEF Drain
  <2> QED
    BY <2>1, ProcessLinePC DEF PC
<1>5. CASE DrainDone \/ Shutdown
  BY <1>5 DEF DrainDone, Shutdown
<1> QED
  BY <1>1, <1>2, <1>3, <1>4, <1>5

LEMMA SenderRunning ==
    ASSUME SenderRun
    PROVE  spc # "done"
BY DEF SenderRun, Claim, ClaimNothing, Send, OpenFails, Receive, RequestFails, Delete,
   DeleteFails, Quarantine, QuarantineFails, Return, ReturnFails, EnforceReturn, Wake,
   PollAgain, Finish

LEMMA SenderRunStore ==
    ASSUME SenderTypeOK, ClaimInv, SenderRun
    PROVE  SenderStoreStep \/ UNCHANGED storeVars
<1>1. CASE Claim \/ EnforceReturn
  BY <1>1 DEF Claim, EnforceReturn, SenderStoreStep
<1>2. CASE Delete \/ Quarantine \/ Return
  BY <1>2 DEF Delete, Quarantine, Return, SenderStoreStep, ClaimInv, Holding
<1>3. CASE ~(Claim \/ EnforceReturn \/ Delete \/ Quarantine \/ Return)
  BY <1>3 DEF SenderRun, ClaimNothing, Send, OpenFails, Receive, RequestFails, DeleteFails,
     QuarantineFails, ReturnFails, Wake, PollAgain, Finish
<1> QED
  BY <1>1, <1>2, <1>3

\* What the polling loop does to the buffer does not concern the sender.
LEMMA CollectStore ==
    ASSUME AgentTypeOK, Writer \/ StartFails \/ Poll \/ Flush \/ Drain \/ DrainDone
    PROVE  Unsettling /\ mu' \in Clients \cup {Free}
<1>1. batches \in Seq(Batch) /\ mu \in Clients \cup {Free}
  BY DEF AgentTypeOK, StoreTypeOK
<1>2. CASE UNCHANGED storeVars
  BY <1>1, <1>2, UnchangedUnsettling DEF storeVars
<1>3. CASE StartFails
  BY <1>1, <1>3, RecoverUnsettling DEF StartFails, RecoverFails
<1>4. CASE WriteBatch
  BY <1>1, <1>4, BatchLinesType, PublishUnsettling DEF WriteBatch, Publish, Clients
<1>5. CASE Enforce
  BY <1>1, <1>5, EnforceUnsettling DEF Enforce, EnforceLimit
<1>6. CASE Writer \/ Drain \/ DrainDone
  BY <1>2, <1>6 DEF Writer, AppendLine, Rotate, Drain, DrainDone
<1>7. CASE Poll
  <2>1. UNCHANGED storeVars
    BY <1>7 DEF Poll, Tick, Stat, SkipFile, Read, ReadFails, ReadTo, DoReset, ResetsDone,
       LinesDone, AddLine, IdleRecord, NotIdle, IdleDone
  <2> QED
    BY <1>2, <2>1
<1>8. CASE FlushBatch \/ NothingToWrite \/ WriteFails \/ Commit \/ CommitFails
  BY <1>2, <1>8 DEF FlushBatch, NothingToWrite, WriteFails, Commit, CommitFails
<1> QED
  BY <1>3, <1>4, <1>5, <1>6, <1>7, <1>8 DEF Flush

-----------------------------------------------------------------------------
(***************************************************************************)
(* The process implements the agent.                                       *)
(***************************************************************************)

LEMMA AgentStepOf ==
    ASSUME "send" \in Env, ProcessInv, SenderInv, [DeliveryNext]_deliveryVars
    PROVE  [AgentNext]_vars
<1>1. CASE StartProcess \/ CrashProcess \/ ShutdownOnSignal \/ ExitProcess
  BY <1>1 DEF StartProcess, CrashProcess, ShutdownOnSignal, ExitProcess, AgentNext,
     AgentStep, Stop
<1>2. CASE Collect
  BY <1>2 DEF Collect, AgentNext, AgentStep, Stop
<1>3. CASE Signal
  BY <1>3 DEF Signal, Cancel, vars
<1>4. CASE SenderRun /\ UNCHANGED agentVars
  <2>1. pc # "down"
    BY <1>4, SenderRunning DEF ProcessInv, AliveInv
  <2>2. SenderStoreStep \/ UNCHANGED storeVars
    BY <1>4, SenderRunStore DEF SenderInv
  <2>3. CASE UNCHANGED storeVars
    BY <1>4, <2>3 DEF vars
  <2>4. CASE SenderStoreStep
    BY <1>4, <2>1, <2>4 DEF SenderStep, AgentNext
  <2> QED
    BY <2>2, <2>3, <2>4
<1>5. CASE IngestStep /\ UNCHANGED agentVars
  BY <1>5 DEF IngestStep, IngestAnswers, HandleLate, LoseLate, vars
<1>6. CASE UNCHANGED deliveryVars
  BY <1>6 DEF deliveryVars
<1> QED
  BY <1>1, <1>2, <1>3, <1>4, <1>5, <1>6 DEF DeliveryNext

LEMMA AliveStep ==
    ASSUME ProcessInv, [DeliveryNext]_deliveryVars
    PROVE  AliveInv'
<1>1. CASE StartProcess
  BY <1>1 DEF StartProcess, Start, AliveInv
<1>2. CASE CrashProcess \/ ExitProcess
  BY <1>2 DEF CrashProcess, ExitProcess, KillSender, AliveInv
<1>3. CASE ShutdownOnSignal \/ Collect
  <2>1. pc' # "down" \/ pc' = pc
    BY <1>3, LoopGoesOn DEF ShutdownOnSignal, Collect, ProcessInv
  <2>2. UNCHANGED spc
    BY <1>3 DEF ShutdownOnSignal, Collect, senderVars, senderCtl
  <2> QED
    BY <2>1, <2>2 DEF ProcessInv, AliveInv
<1>4. CASE Signal \/ (IngestStep /\ UNCHANGED agentVars) \/ UNCHANGED deliveryVars
  <2>1. UNCHANGED pc /\ UNCHANGED spc
    BY <1>4 DEF Signal, Cancel, IngestStep, IngestAnswers, HandleLate, LoseLate, deliveryVars,
       vars, agentVars, ctlVars, senderVars, senderCtl
  <2> QED
    BY <2>1 DEF ProcessInv, AliveInv
<1>5. CASE SenderRun /\ UNCHANGED agentVars
  BY <1>5, SenderRunning DEF ProcessInv, AliveInv, agentVars, ctlVars
<1> QED
  BY <1>1, <1>2, <1>3, <1>4, <1>5 DEF DeliveryNext

LEMMA DeliverySenderStep ==
    ASSUME AgentTypeOK, SenderInv, [DeliveryNext]_deliveryVars
    PROVE  SenderInv'
<1>1. batches \in Seq(Batch) /\ mu \in Clients \cup {Free}
  BY DEF AgentTypeOK, StoreTypeOK
<1>3. CASE StartProcess
  <2>1. RecoverClaims /\ StartSender
    BY <1>3 DEF StartProcess, Start
  <2>2. Unsettling
    BY <1>1, <2>1, RecoverUnsettling
  <2> QED
    BY <2>1, <2>2, RestartKeeps DEF RecoverClaims
<1>4. CASE CrashProcess \/ ExitProcess
  <2>1. UNCHANGED batches /\ mu' \in {mu, Free} /\ KillSender
    BY <1>4 DEF CrashProcess, Crash, ExitProcess, Exit, storeVars
  <2>2. Unsettling
    BY <1>1, <2>1, UnchangedUnsettling
  <2> QED
    BY <1>1, <2>1, <2>2, RestartKeeps
<1>5. CASE Signal
  BY <1>5, CancelKeeps DEF Signal
<1>6. CASE ShutdownOnSignal \/ UNCHANGED deliveryVars
  <2>1. UNCHANGED batches /\ UNCHANGED mu /\ UNCHANGED senderVars
    BY <1>6 DEF ShutdownOnSignal, Shutdown, deliveryVars, vars, storeVars
  <2>2. Unsettling
    BY <1>1, <2>1, UnchangedUnsettling
  <2> QED
    BY <1>1, <2>1, <2>2, OthersStep
<1>7. CASE Collect
  BY <1>7, CollectStore, OthersStep DEF Collect
<1>8. CASE SenderRun \/ IngestStep
  BY <1>8, SenderRunKeeps, IngestStepKeeps
<1> QED
  BY <1>3, <1>4, <1>5, <1>6, <1>7, <1>8 DEF DeliveryNext

LEMMA DeliveryInvHolds ==
    ASSUME "send" \in Env
    PROVE  DeliverySpec => []ProcessInv /\ []SenderInv
<1>1. DeliveryInit => ProcessInv /\ SenderInv
  <2> SUFFICES ASSUME DeliveryInit PROVE ProcessInv /\ SenderInv
    OBVIOUS
  <2>1. AgentTypeOK
    BY TypeInit DEF DeliveryInit
  <2>2. SenderInv
    BY SenderInvInit DEF DeliveryInit, AgentInit
  <2> QED
    BY <2>1, <2>2 DEF DeliveryInit, SenderInit, ProcessInv, AliveInv
<1>2. ProcessInv /\ SenderInv /\ [DeliveryNext]_deliveryVars => (ProcessInv /\ SenderInv)'
  <2> SUFFICES ASSUME ProcessInv, SenderInv, [DeliveryNext]_deliveryVars
               PROVE  ProcessInv' /\ SenderInv'
    OBVIOUS
  <2>1. AgentTypeOK'
    BY AgentStepOf, TypeStep DEF ProcessInv
  <2>2. AliveInv'
    BY AliveStep
  <2>3. SenderInv'
    BY DeliverySenderStep DEF ProcessInv
  <2> QED
    BY <2>1, <2>2, <2>3 DEF ProcessInv
<1> QED
  BY <1>1, <1>2, PTL DEF DeliverySpec

\* The process of polling loop and sender does to the watched files, the
\* offsets and the buffer what AgentSpec allows: what is proved of the agent
\* with an arbitrary sender holds of the agent with this one.
THEOREM ProcessImplementsAgent ==
    ASSUME "send" \in Env
    PROVE  DeliverySpec => ImplementsAgent
<1>1. DeliveryInit => AgentInit
  BY DEF DeliveryInit
<1>2. ProcessInv /\ SenderInv /\ [DeliveryNext]_deliveryVars => [AgentNext]_vars
  BY AgentStepOf
<1> QED
  BY <1>1, <1>2, DeliveryInvHolds, PTL DEF DeliverySpec, AgentSpec, ImplementsAgent

\* The sender of the whole process deletes only what is in the stream and
\* quarantines only what ingest refuses for good.
THEOREM ProcessDeliversAtLeastOnce ==
    ASSUME "send" \in Env
    PROVE  DeliverySpec => []DeletedOnlyIfQueued /\ []QuarantinedOnlyIfRefused
<1>1. SenderInv => DeletedOnlyIfQueued /\ QuarantinedOnlyIfRefused
  BY DEF SenderInv
<1> QED
  BY <1>1, DeliveryInvHolds, PTL

\* From file to stream, while offsets.json can be written, and no watched file
\* shrinks or shrinking is told from the sizes alone (regrowth is excluded,
\* and there is one file or batches can be written): whatever crashes, fails or is retried, a line that a restart
\* would not read again was filtered, is in the stream, has no message, or is
\* in a batch that is on disk or that had to make room.
THEOREM NoLineLostSilently ==
    ASSUME "send" \in Env, "save_fault" \notin Env,
           \/ "rotate" \notin Env
           \/ /\ "regrow" \notin Env /\ "regrow_unseen" \notin Env
              /\ NumFiles = 1 \/ "write_fault" \notin Env
    PROVE  DeliverySpec => []NothingLostSilently
<1>1. SkipsOnlyStored /\ DeletedOnlyIfQueued => NothingLostSilently
  <2> SUFFICES ASSUME SkipsOnlyStored, DeletedOnlyIfQueued,
                      NEW f \in File, Size(f) >= offsets[f], NEW i \in 1 .. offsets[f]
               PROVE  <<f, Gen(f), i>> \in
                        Blank \cup filtered \cup queued \cup
                        UNION {batches[n].lines : n \in Names \ InState("deleted")}
    BY DEF NothingLostSilently
  <2> DEFINE line == <<f, Gen(f), i>>
  <2>1. line \in Stored \cup filtered
    BY DEF SkipsOnlyStored
  <2> HIDE DEF line
  <2>2. ASSUME NEW n \in Names, line \in batches[n].lines
        PROVE  line \in Blank \cup queued \/ n \notin InState("deleted")
    BY <2>2 DEF DeletedOnlyIfQueued
  <2>3. line \in Blank \cup filtered \cup queued \cup
                 UNION {batches[n].lines : n \in Names \ InState("deleted")}
    BY <2>1, <2>2 DEF Stored
  <2> QED
    BY <2>3 DEF line
<1>2. AgentSpec => []SkipsOnlyStored
  BY RestartSkipsOnlyStored, ShrunkFilesSkipOnlyStored
<1> QED
  BY <1>1, <1>2, ProcessImplementsAgent, ProcessDeliversAtLeastOnce, PTL DEF ImplementsAgent
=============================================================================
