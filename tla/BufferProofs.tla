---------------------------- MODULE BufferProofs ----------------------------
(***************************************************************************)
(* The sender and the disk buffer against a writer, for every size limit,  *)
(* every batch size, retry delay, number of batches and of crashes: what   *)
(* leaves the disk was delivered, refused for good or had to make room.    *)
(***************************************************************************)
EXTENDS MCSender, SenderProofs

-----------------------------------------------------------------------------
(***************************************************************************)
(* Every step is one the lemmas of SenderProofs know.                      *)
(***************************************************************************)

LEMMA WritePublishes ==
    ASSUME batches \in Seq(Batch), Write
    PROVE  /\ \E lines \in SUBSET Line, count \in Nat : Publish(lines, count)
           /\ Unsettling /\ StoreChange
           /\ mu' = "agent" /\ UNCHANGED senderVars
<1>1. PICK c \in Counts :
        Publish({<<1, Len(batches) + 1, 1>>, <<1, Len(batches) + 1, 2>>}, c)
  BY DEF Write
<1>2. Len(batches) \in Nat
  OBVIOUS
<1>3. {<<1, Len(batches) + 1, 1>>, <<1, Len(batches) + 1, 2>>} \in SUBSET Line /\ c \in Nat
  BY <1>2, MCAssumption DEF Line
<1>4. \E lines \in SUBSET Line, count \in Nat : Publish(lines, count)
  BY <1>1, <1>3
<1>5. Unsettling
  BY <1>4, PublishUnsettling
<1> QED
  BY <1>1, <1>4, <1>5 DEF Write, StoreChange, Publish

LEMMA NextStoreChange ==
    ASSUME batches \in Seq(Batch), [Next]_mcVars
    PROVE  StoreChange
<1>1. CASE Write
  BY <1>1, WritePublishes
<1>2. CASE Limit
  BY <1>2 DEF Limit, StoreChange, Clients
<1>3. CASE Start
  BY <1>3, RecoverStoreChange DEF Start
<1>4. CASE Claim \/ Delete \/ Quarantine \/ Return
  BY <1>4, SenderStoreChange DEF Claim, Delete, Quarantine, Return
<1>5. CASE EnforceReturn
  BY <1>5 DEF EnforceReturn, StoreChange, Clients
<1>6. CASE UNCHANGED batches
  BY <1>6 DEF StoreChange
<1> QED
  BY <1>1, <1>2, <1>3, <1>4, <1>5, <1>6
     DEF Next, Crash, Cancel, SenderRun, ClaimNothing, Send, OpenFails, Receive, RequestFails,
         DeleteFails, QuarantineFails, ReturnFails, Wake, PollAgain, Finish,
         IngestStep, IngestAnswers, HandleLate, LoseLate, mcVars, processVars, storeVars

LEMMA SenderInvStep ==
    ASSUME SenderInv, [Next]_mcVars
    PROVE  SenderInv'
<1>1. batches \in Seq(Batch) /\ mu \in Clients \cup {Free}
  BY DEF SenderInv, SenderTypeOK, StoreTypeOK
<1>2. CASE Write
  BY <1>1, <1>2, WritePublishes, OthersStep DEF Clients
<1>3. CASE Limit
  <2>1. Unsettling
    BY <1>1, <1>3, EnforceUnsettling DEF Limit
  <2> QED
    BY <1>3, <2>1, OthersStep DEF Limit, EnforceLimit
<1>4. CASE Start
  <2>1. Unsettling
    BY <1>1, <1>4, RecoverUnsettling DEF Start
  <2> QED
    BY <1>4, <2>1, RestartKeeps DEF Start, RecoverClaims
<1>5. CASE Crash
  <2>1. Unsettling
    BY <1>1, <1>5, UnchangedUnsettling DEF Crash
  <2> QED
    BY <1>5, <2>1, RestartKeeps DEF Crash
<1>6. CASE Cancel \/ SenderRun \/ IngestStep
  BY <1>6, CancelKeeps, SenderRunKeeps, IngestStepKeeps
<1>7. CASE UNCHANGED mcVars
  <2>1. UNCHANGED batches /\ UNCHANGED mu /\ UNCHANGED senderVars
    BY <1>7 DEF mcVars, processVars, storeVars
  <2>2. Unsettling
    BY <1>1, <2>1, UnchangedUnsettling
  <2> QED
    BY <1>1, <2>1, <2>2, OthersStep
<1> QED
  BY <1>2, <1>3, <1>4, <1>5, <1>6, <1>7 DEF Next

LEMMA SenderInvHolds == Spec => []SenderInv
<1>1. Init => SenderInv
  BY SenderInvInit DEF Init
<1>2. SenderInv /\ [Next]_mcVars => SenderInv'
  BY SenderInvStep
<1> QED
  BY <1>1, <1>2, PTL DEF Spec

-----------------------------------------------------------------------------
(***************************************************************************)
(* The theorems.                                                           *)
(***************************************************************************)

\* The state of the sender is well typed whatever fails: in particular the
\* claim is a batch of the buffer and the doubling of nextRetryDelay keeps
\* delay between its first value and the maximum.
THEOREM SenderTypeCorrect == Spec => []SenderTypeOK
<1>1. SenderInv => SenderTypeOK
  BY DEF SenderInv
<1> QED
  BY <1>1, SenderInvHolds, PTL

\* sendBatch deletes a batch only after ingest has put every valid record of
\* it into the stream, whatever requests, answers, file operations and
\* processes are lost meanwhile.
THEOREM DeliveredAtLeastOnce == Spec => []DeletedOnlyIfQueued
<1>1. SenderInv => DeletedOnlyIfQueued
  BY DEF SenderInv
<1> QED
  BY <1>1, SenderInvHolds, PTL

\* sendBatch moves to failed/ only what ingest would refuse again.
THEOREM QuarantinesOnlyRefused == Spec => []QuarantinedOnlyIfRefused
<1>1. SenderInv => QuarantinedOnlyIfRefused
  BY DEF SenderInv
<1> QED
  BY <1>1, SenderInvHolds, PTL

\* As long as renames succeed, every .sending file is the one the running or
\* stopped sender holds.
THEOREM NoClaimOrphaned ==
    ASSUME "rename_fault" \notin Env
    PROVE  Spec => []NoOrphanClaim
<1> DEFINE Inv == NoOrphanClaim /\ IdleInv
<1>1. Init => Inv
  BY DEF Init, StoreInit, SenderInit, NoOrphanClaim, IdleInv
<1>2. SenderInv /\ Inv /\ [Next]_mcVars => Inv'
  <2> SUFFICES ASSUME SenderInv, NoOrphanClaim, IdleInv, [Next]_mcVars
               PROVE  NoOrphanClaim' /\ IdleInv'
    OBVIOUS
  <2>1. batches \in Seq(Batch)
    BY DEF SenderInv, SenderTypeOK, StoreTypeOK
  <2>2. CASE Write \/ Limit \/ UNCHANGED mcVars
    <3>1. Sending' \subseteq Sending
      BY <2>1, <2>2, WritePublishes, SendingKept DEF Limit, mcVars, processVars, storeVars
    <3>2. UNCHANGED spc /\ UNCHANGED claim /\ UNCHANGED ctx
      BY <2>2 DEF Write, Limit, mcVars, processVars, senderVars, senderCtl
    <3> QED
      BY <3>1, <3>2 DEF NoOrphanClaim, IdleInv
  <2>3. CASE Start
    <3>1. Sending' = {} /\ claim' = NoClaim
      BY <2>1, <2>3, RecoverReturnsAll DEF Start, StartSender
    <3> QED
      BY <3>1 DEF NoOrphanClaim, IdleInv
  <2>4. CASE Crash
    BY <2>4 DEF Crash, KillSender, NoOrphanClaim, IdleInv
  <2>5. CASE SenderRun
    <3>1. Tidy
      BY <2>5 DEF NoOrphanClaim, Tidy, SenderRun, Claim, ClaimNothing, Send, OpenFails,
         Receive, RequestFails, Delete, DeleteFails, Quarantine, QuarantineFails, Return,
         ReturnFails, EnforceReturn, Wake, PollAgain, Finish
    <3> QED
      BY <2>1, <2>5, <3>1, TidyRun, IdleRun DEF Tidy, NoOrphanClaim
  <2>6. CASE Cancel \/ IngestStep
    <3>1. /\ UNCHANGED batches /\ UNCHANGED spc /\ UNCHANGED claim
          /\ spc # "done" \/ UNCHANGED ctx
      BY <2>6 DEF Cancel, IngestStep, IngestAnswers, HandleLate, LoseLate, storeVars, senderCtl
    <3> QED
      BY <3>1 DEF NoOrphanClaim, IdleInv, Sending, InState, Names
  <2> QED
    BY <2>2, <2>3, <2>4, <2>5, <2>6 DEF Next
<1>3. Inv => NoOrphanClaim
  OBVIOUS
<1> QED
  BY <1>1, <1>2, <1>3, SenderInvHolds, PTL DEF Spec

\* As long as batches can be removed, enforceLimitLocked deletes undelivered
\* batches only when they and the newer ones exceed the limit.
THEOREM EvictsOnlyForSpace ==
    ASSUME "remove_fault" \notin Env
    PROVE  Spec => []EvictedOnlyForSpace
<1>1. Init => EvictedOnlyForSpace
  BY DEF Init, StoreInit, EvictedOnlyForSpace, InState, Names
<1>2. SenderInv /\ EvictedOnlyForSpace /\ [Next]_mcVars => EvictedOnlyForSpace'
  BY EvictedStep, NextStoreChange DEF SenderInv, SenderTypeOK, StoreTypeOK
<1> QED
  BY <1>1, <1>2, SenderInvHolds, PTL DEF Spec

\* Whatever fails, no operation of the buffer deletes more than it has to:
\* keeping the newest of the batches it deletes would exceed the limit.
THEOREM EvictsMinimally == Spec => EvictsNoMore
<1>1. Init => UniqueTimes
  BY DEF Init, StoreInit, UniqueTimes, Names
<1>2. SenderInv /\ UniqueTimes /\ [Next]_mcVars => UniqueTimes'
  BY UniqueTimesStep, NextStoreChange DEF SenderInv, SenderTypeOK, StoreTypeOK
<1> DEFINE A == LET gone == {n \in Pending : batches'[n].state = "evicted"}
                IN  \A n \in gone : (\A m \in gone : ~Older(n, m)) =>
                        Bytes(Pending') + BytesOf(n) > MaxBytes
<1>3. SenderInv /\ UniqueTimes /\ [Next]_mcVars => [A]_storeVars
  <2> SUFFICES ASSUME SenderInv, UniqueTimes, [Next]_mcVars,
                      NEW n \in Gone, \A m \in Gone : ~Older(n, m)
               PROVE  Bytes(Pending') + BytesOf(n) > MaxBytes
    BY DEF Gone
  <2>1. batches \in Seq(Batch)
    BY DEF SenderInv, SenderTypeOK, StoreTypeOK
  <2> QED
    BY <2>1, NextStoreChange, EvictsNoMoreStep
<1> QED
  BY <1>1, <1>2, <1>3, SenderInvHolds, PTL DEF Spec, EvictsNoMore

\* As long as the operations of the file system succeed and the process has
\* not crashed, the queue is within max_buffer_size_mb whenever the lock is
\* free.
THEOREM BufferStaysWithinLimit ==
    ASSUME Env \cap {"remove_fault", "readdir_fault", "rename_fault"} = {}
    PROVE  Spec => []BufferWithinLimit
<1> DEFINE Inv == /\ crashes \in Nat
                  /\ IdleInv
                  /\ crashes = 0 => Tidy /\ WithinLimit
<1>1. Init => Inv
  <2> SUFFICES ASSUME Init PROVE Inv
    OBVIOUS
  <2>1. Names = {} /\ Pending = {} /\ Sending = {}
    BY DEF Init, StoreInit, Names, Pending, Sending, InState
  <2>2. Bytes(Pending) = 0
    BY <2>1, BytesAreTotal, TotalOfNone
  <2> QED
    BY <2>1, <2>2, StoreAssumption DEF Init, SenderInit, IdleInv, Tidy, WithinLimit
<1>2. SenderInv /\ Inv /\ [Next]_mcVars => Inv'
  <2> SUFFICES ASSUME SenderInv, crashes \in Nat, IdleInv,
                      crashes = 0 => Tidy /\ WithinLimit, [Next]_mcVars
               PROVE  Inv'
    OBVIOUS
  <2>1. batches \in Seq(Batch) /\ "rename_fault" \notin Env
    BY DEF SenderInv, SenderTypeOK, StoreTypeOK
  <2>2. CASE Write
    <3>1. UNCHANGED senderVars /\ UNCHANGED crashes /\ mu' # Free
      BY <2>1, <2>2, WritePublishes DEF Write, Free
    <3>2. Sending' \subseteq Sending
      BY <2>1, <2>2, WritePublishes, SendingKept
    <3> QED
      BY <3>1, <3>2 DEF IdleInv, Tidy, WithinLimit, senderVars, senderCtl
  <2>3. CASE Limit
    <3>1. UNCHANGED senderVars /\ UNCHANGED crashes
      BY <2>3 DEF Limit
    <3>2. Sending' \subseteq Sending /\ WithinLimit'
      BY <2>1, <2>3, SendingKept, EnforceWithinLimit DEF Limit
    <3> QED
      BY <3>1, <3>2 DEF IdleInv, Tidy, senderVars, senderCtl
  <2>4. CASE Start
    <3>1. UNCHANGED crashes /\ claim' = NoClaim /\ mu = Free /\ spc = "done" /\ RecoverClaims
      BY <2>4 DEF Start, StartSender
    <3>2. Sending' = {} /\ Pending' = Pending \cup Sending
      BY <2>1, <3>1, RecoverReturnsAll
    <3>3. ASSUME crashes = 0
          PROVE  WithinLimit'
      <4>1. Sending = {}
        <5>1. Sending \subseteq {NoClaim} /\ Sending \subseteq Names /\ Names = 1 .. Len(batches)
              /\ Len(batches) \in Nat
          BY <2>1, <3>1, <3>3, NamesType DEF Tidy, IdleInv, Holding, Sending, InState
        <5> QED
          BY <5>1 DEF NoClaim
      <4>2. StoreKept
        BY <2>1, <3>1, RecoverStoreChange, StoreChangeKeeps
      <4> QED
        BY <2>1, <3>1, <3>2, <3>3, <4>1, <4>2, PendingShrinks DEF WithinLimit
    <3> QED
      BY <3>1, <3>2, <3>3 DEF IdleInv, Tidy
  <2>5. CASE Crash
    <3>1. crashes' = crashes + 1 /\ claim' = NoClaim
      BY <2>5 DEF Crash, KillSender
    <3> QED
      BY <3>1 DEF IdleInv
  <2>6. CASE SenderRun /\ UNCHANGED crashes
    <3>1. IdleInv'
      BY <2>6, IdleRun
    <3>2. crashes = 0 => Tidy' /\ WithinLimit'
      BY <2>1, <2>6, TidyRun, SenderWithinLimit
    <3> QED
      BY <2>6, <3>1, <3>2
  <2>7. CASE ((Cancel \/ IngestStep) /\ UNCHANGED crashes) \/ UNCHANGED mcVars
    <3>1. UNCHANGED storeVars /\ UNCHANGED spc /\ UNCHANGED claim /\ UNCHANGED crashes
      BY <2>7 DEF Cancel, IngestStep, IngestAnswers, HandleLate, LoseLate, senderCtl,
         mcVars, processVars, senderVars
    <3>2. WithinLimit => WithinLimit'
      BY <3>1, UnchangedWithinLimit
    <3>3. Tidy' = Tidy /\ IdleInv' = IdleInv
      BY <3>1 DEF Tidy, IdleInv, Sending, InState, Names, storeVars
    <3> QED
      BY <3>1, <3>2, <3>3
  <2> QED
    BY <2>2, <2>3, <2>4, <2>5, <2>6, <2>7 DEF Next
<1>3. Inv => BufferWithinLimit
  BY DEF WithinLimit, BufferWithinLimit
<1> QED
  BY <1>1, <1>2, <1>3, SenderInvHolds, PTL DEF Spec
=============================================================================
