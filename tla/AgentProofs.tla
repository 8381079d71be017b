----------------------------- MODULE AgentProofs ----------------------------
(***************************************************************************)
(* For every number of files, batch size, buffer limit and bound: the      *)
(* agent's state is well typed; while offsets.json can be written, a       *)
(* restart skips only lines that are in the disk buffer or were filtered,  *)
(* although files shrink (but see ShrunkFilesSkipOnlyStored); no line is   *)
(* forgotten, and one process writes none twice.                           *)
(***************************************************************************)
EXTENDS Agent, SequenceTheorems, TLAPS

-----------------------------------------------------------------------------
(***************************************************************************)
(* The buffer: no operation changes the lines of a batch that is there.    *)
(***************************************************************************)

\* Every batch is still there, with its lines.
LinesKept ==
    /\ Names' = Names
    /\ \A n \in Names : batches'[n].lines = batches[n].lines

\* Renaming batch files changes neither their number nor their lines.
LEMMA SetStateKeeps ==
    ASSUME batches \in Seq(Batch), NEW S, NEW s \in BatchStates,
           batches' = SetState(S, s)
    PROVE  batches' \in Seq(Batch) /\ Stored' = Stored /\ LinesKept
<1>1. Len(batches) \in Nat /\ Names = 1 .. Len(batches)
  BY DEF Names
<1>2. ASSUME NEW n \in Names
      PROVE  batches'[n] \in Batch /\ batches'[n].lines = batches[n].lines
  <2>1. batches[n] \in Batch
    BY <1>1
  <2>2. /\ [batches[n] EXCEPT !.state = s] \in Batch
        /\ [batches[n] EXCEPT !.state = s].lines = batches[n].lines
    BY <2>1 DEF Batch
  <2> QED
    BY <2>1, <2>2 DEF SetState
<1>3. batches' \in [1 .. Len(batches) -> Batch]
  BY <1>1, <1>2 DEF SetState
<1>4. batches' \in Seq(Batch)
  BY <1>1, <1>3, SeqDef
<1>5. Names' = Names
  BY <1>1, <1>3 DEF Names
<1> QED
  BY <1>2, <1>4, <1>5 DEF Stored, LinesKept

\* WriteBatch adds the lines of its batch.
LEMMA PublishAdds ==
    ASSUME batches \in Seq(Batch), NEW lines \in SUBSET Line, NEW count \in Nat,
           Publish(lines, count)
    PROVE  /\ batches' \in Seq(Batch)
           /\ Stored' = Stored \cup lines
           /\ Names' = Names \cup {Len(batches) + 1} /\ Len(batches) + 1 \notin Names
           /\ batches'[Len(batches) + 1].lines = lines
           /\ \A n \in Names : batches'[n].lines = batches[n].lines
<1>1. PICK b \in ByteSizes, t \in NewTimes :
        batches' = Append(batches, [state |-> "pending", time |-> t, lines |-> lines,
                                    count |-> count, bytes |-> b])
  BY DEF Publish
<1> DEFINE new == [state |-> "pending", time |-> t, lines |-> lines,
                   count |-> count, bytes |-> b]
<1>1a. t \in Nat
  BY DEF NewTimes
<1>2. new \in Batch /\ new.lines = lines
  BY <1>1a, StoreAssumption DEF Batch, BatchStates
<1> HIDE DEF new
<1>3. batches' = Append(batches, new)
  BY <1>1 DEF new
<1>4. /\ batches' \in Seq(Batch)
      /\ Len(batches') = Len(batches) + 1
      /\ batches'[Len(batches) + 1] = new
      /\ \A n \in 1 .. Len(batches) : batches'[n] = batches[n]
  BY <1>2, <1>3, AppendProperties
<1>5. Len(batches) \in Nat /\ Names = 1 .. Len(batches)
  BY DEF Names
<1>6. Names' = 1 .. Len(batches) + 1
  BY <1>4, <1>5 DEF Names
<1>7. ASSUME NEW n \in Names
      PROVE  n \in Names' /\ batches'[n].lines = batches[n].lines
  BY <1>4, <1>5, <1>6
<1>8. Len(batches) + 1 \in Names' /\ batches'[Len(batches) + 1].lines = lines
  BY <1>2, <1>4, <1>5, <1>6
<1>9. Names' = Names \cup {Len(batches) + 1} /\ Len(batches) + 1 \notin Names
  BY <1>5, <1>6
<1>10. Stored' = Stored \cup lines
  BY <1>7, <1>8, <1>9 DEF Stored
<1> QED
  BY <1>4, <1>7, <1>8, <1>9, <1>10

LEMMA EnforceKeeps ==
    ASSUME StoreTypeOK, NEW who, EnforceLimit(who)
    PROVE  StoreTypeOK' /\ Stored' = Stored /\ LinesKept
<1>1. batches \in Seq(Batch) /\ mu' \in Clients \cup {Free}
  BY DEF StoreTypeOK, EnforceLimit
<1>2. "evicted" \in BatchStates
  BY DEF BatchStates
<1>3. ASSUME NEW E, batches' = SetState(E, "evicted")
      PROVE  StoreTypeOK' /\ Stored' = Stored /\ LinesKept
  BY <1>1, <1>2, <1>3, SetStateKeeps DEF StoreTypeOK
<1>4. CASE UNCHANGED batches
  BY <1>1, <1>4 DEF StoreTypeOK, Stored, Names, LinesKept
<1> QED
  BY <1>3, <1>4 DEF EnforceLimit

LEMMA RecoverKeeps ==
    ASSUME StoreTypeOK, RecoverClaims \/ RecoverFails
    PROVE  StoreTypeOK' /\ Stored' = Stored /\ LinesKept
<1>1. batches \in Seq(Batch) /\ mu' \in Clients \cup {Free}
  BY DEF StoreTypeOK, RecoverClaims, RecoverFails
<1>2. "pending" \in BatchStates
  BY DEF BatchStates
<1>3. \E S : batches' = SetState(S, "pending")
  BY DEF RecoverClaims, RecoverFails
<1> QED
  BY <1>1, <1>2, <1>3, SetStateKeeps DEF StoreTypeOK

LEMMA SenderKeeps ==
    ASSUME StoreTypeOK, SenderStoreStep
    PROVE  StoreTypeOK' /\ Stored' = Stored /\ LinesKept
<1>1. batches \in Seq(Batch)
  BY DEF StoreTypeOK
<1>2. CASE EnforceLimit("sender")
  BY <1>2, EnforceKeeps
<1>3. ASSUME NEW n \in Names,
             ClaimOldest(n) \/ Unclaim(n) \/ DeleteClaim(n) \/ MoveToFailed(n)
      PROVE  StoreTypeOK' /\ Stored' = Stored /\ LinesKept
  <2>1. mu' \in Clients \cup {Free}
    BY <1>3 DEF StoreTypeOK, ClaimOldest, Unclaim, DeleteClaim, MoveToFailed, Clients, Free
  <2>2. \E s \in BatchStates : batches' = SetState({n}, s)
    BY <1>3 DEF ClaimOldest, Unclaim, DeleteClaim, MoveToFailed, BatchStates
  <2> QED
    BY <1>1, <2>1, <2>2, SetStateKeeps DEF StoreTypeOK
<1> QED
  BY <1>2, <1>3 DEF SenderStoreStep

-----------------------------------------------------------------------------
(***************************************************************************)
(* Type correctness.                                                       *)
(***************************************************************************)

LEMMA NoStackType == NoStack \in [lines : SUBSET Line, end : Nat]
BY DEF NoStack

LEMMA ProcessLineType ==
    ASSUME AgentTypeOK, NEW f \in File, NEW lines \in SUBSET Line, NEW end \in Nat,
           NEW next \in Ret, ProcessLine(f, lines, end, next)
    PROVE  /\ batch' \in Seq(SUBSET Line)
           /\ batchOffsets' \in [File -> Nat \cup {NoOffset}]
           /\ pendingBatch' \in Nat
           /\ filtered' \subseteq Line
           /\ pc' \in {next, "write"} /\ pc' \in PC
           /\ ret' \in Ret
<1>1. next \in PC /\ "write" \in PC
  BY DEF PC, Ret
<1>2. batch' \in Seq(SUBSET Line)
  <2>1. batch \in Seq(SUBSET Line)
    BY DEF AgentTypeOK
  <2>2. Append(batch, lines) \in Seq(SUBSET Line)
    BY <2>1, AppendProperties
  <2> QED
    BY <2>1, <2>2 DEF ProcessLine
<1>3. batchOffsets' \in [File -> Nat \cup {NoOffset}] /\ pendingBatch' \in Nat
  BY DEF AgentTypeOK, ProcessLine
<1>4. filtered' \subseteq Line
  BY DEF AgentTypeOK, ProcessLine
<1>5. pc' \in {next, "write"} /\ ret' \in Ret
  BY DEF AgentTypeOK, ProcessLine
<1> QED
  BY <1>1, <1>2, <1>3, <1>4, <1>5

LEMMA LoseMemoryType ==
    ASSUME AgentTypeOK, LoseMemory, StoreTypeOK', restarts' \in 0 .. MaxRestarts
    PROVE  AgentTypeOK'
<1>1. stack' \in [File -> [lines : SUBSET Line, end : Nat]]
  BY NoStackType DEF LoseMemory
<1>2. 1 \in 1 .. NumFiles + 1
  BY AgentAssumption
<1> QED
  BY <1>1, <1>2 DEF AgentTypeOK, LoseMemory, NoOffset, NoBatch, PC, Ret, File

LEMMA NextFileType ==
    ASSUME AgentTypeOK, pc \in {"stat", "read"}, NextFile
    PROVE  /\ pc' \in PC
           /\ scan' \in 1 .. NumFiles + 1
           /\ pc' \in {"stat", "read"} => scan' \in File
<1>1. scan \in 1 .. NumFiles /\ NumFiles \in Nat
  BY AgentAssumption DEF AgentTypeOK, File
<1>2. CASE scan < NumFiles
  BY <1>1, <1>2 DEF NextFile, PC, File
<1>3. CASE ~(scan < NumFiles)
  BY <1>1, <1>3 DEF NextFile, PC
<1> QED
  BY <1>2, <1>3

LEMMA WriterType ==
    ASSUME AgentTypeOK, Writer
    PROVE  AgentTypeOK'
<1>1. PICK f \in File : AppendLine(f) \/ Rotate(f)
  BY DEF Writer
<1>2. content[f] \in Seq(Seq(Kind)) /\ content[f] # <<>>
  BY DEF AgentTypeOK
<1>3. Gen(f) \in 1 .. Len(content[f]) /\ content[f][Gen(f)] \in Seq(Kind)
  BY <1>2 DEF Gen
<1>4. \E c \in Seq(Seq(Kind)) : c # <<>> /\ content' = [content EXCEPT ![f] = c]
  <2>1. CASE AppendLine(f)
    <3>1. PICK k \in Kind : content' = [content EXCEPT ![f][Gen(f)] = Append(@, k)]
      BY <2>1 DEF AppendLine
    <3>2. Append(content[f][Gen(f)], k) \in Seq(Kind)
      BY <1>3, AppendProperties
    <3> DEFINE c == [content[f] EXCEPT ![Gen(f)] = Append(content[f][Gen(f)], k)]
    <3>3. c \in Seq(Seq(Kind)) /\ Len(c) = Len(content[f])
      BY <1>2, <1>3, <3>2, ExceptSeq
    <3>4. c # <<>>
      BY <1>2, <3>3, EmptySeq
    <3>5. content' = [content EXCEPT ![f] = c]
      BY <3>1
    <3> QED
      BY <3>3, <3>4, <3>5
  <2>2. CASE Rotate(f)
    <3>1. content' = [content EXCEPT ![f] = Append(content[f], <<>>)]
      BY <2>2 DEF Rotate
    <3>2. Append(content[f], <<>>) \in Seq(Seq(Kind)) /\ Append(content[f], <<>>) # <<>>
      BY <1>2, AppendProperties, EmptySeq
    <3> QED
      BY <3>1, <3>2
  <2> QED
    BY <1>1, <2>1, <2>2
<1>5. content' \in [File -> Seq(Seq(Kind))] /\ \A g \in File : content'[g] # <<>>
  BY <1>4 DEF AgentTypeOK
<1>6. UNCHANGED <<storeVars, tailerVars, cursor, stackVars, batchVars, resets,
                  ctlVars, restarts>>
  BY <1>1 DEF AppendLine, Rotate
<1> QED
  BY <1>5, <1>6 DEF AgentTypeOK, StoreTypeOK, storeVars, tailerVars, stackVars,
                    batchVars, ctlVars

LEMMA PollType ==
    ASSUME AgentTypeOK, Poll
    PROVE  AgentTypeOK'
<1> USE AgentAssumption
<1>0. 1 \in File /\ 1 \in 1 .. NumFiles + 1
  BY DEF File
<1>1. CASE Tick
  <2>1. pc' \in PC /\ scan' \in File /\ scan' \in 1 .. NumFiles + 1
    BY <1>0, <1>1 DEF Tick, PC
  <2> QED
    BY <1>1, <2>1 DEF AgentTypeOK, StoreTypeOK, Tick, storeVars, tailerVars, batchVars
<1>2. CASE Stat
  <2>1. scan \in File /\ Gen(scan) \in Nat \ {0}
    BY <1>2 DEF AgentTypeOK, Stat, Gen
  <2>2. /\ readOffsets' \in [File -> Nat] /\ cursor' \in [File -> Nat]
        /\ readGen' \in [File -> Nat \ {0}] /\ resets' \subseteq File
    <3>1. CASE Size(scan) < readOffsets[scan]
      <4>1. /\ readOffsets' = [readOffsets EXCEPT ![scan] = 0]
            /\ cursor' = [cursor EXCEPT ![scan] = 0]
            /\ readGen' = [readGen EXCEPT ![scan] = Gen(scan)]
            /\ resets' = resets \cup {scan}
        BY <1>2, <3>1 DEF Stat
      <4> QED
        BY <2>1, <4>1 DEF AgentTypeOK
    <3>2. CASE ~(Size(scan) < readOffsets[scan])
      BY <1>2, <3>2 DEF AgentTypeOK, Stat
    <3> QED
      BY <3>1, <3>2
  <2>3. pc' \in PC /\ UNCHANGED scan
    BY <1>2 DEF Stat, PC
  <2> QED
    BY <1>2, <2>1, <2>2, <2>3 DEF AgentTypeOK, StoreTypeOK, Stat, storeVars, stackVars, batchVars
<1>3. CASE SkipFile
  <2>1. NextFile /\ pc \in {"stat", "read"}
    BY <1>3 DEF SkipFile
  <2> QED
    BY <1>3, <2>1, NextFileType
       DEF AgentTypeOK, StoreTypeOK, SkipFile, storeVars, tailerVars, stackVars, batchVars
<1>4. CASE Read \/ ReadFails
  <2>1. scan \in File /\ Gen(scan) \in Nat \ {0} /\ Size(scan) \in Nat
        /\ readOffsets[scan] \in Nat
    BY <1>4 DEF AgentTypeOK, Read, ReadFails, Gen, Size, Current
  <2>2. \E p \in Nat : ReadTo(scan, p)
    BY <1>4, <2>1 DEF Read, ReadFails
  <2>3. PICK p \in Nat : ReadTo(scan, p)
    BY <2>2
  <2>4. readOffsets' \in [File -> Nat] /\ readGen' \in [File -> Nat \ {0}]
    BY <2>1, <2>3 DEF AgentTypeOK, ReadTo
  <2>5. NextFile /\ pc \in {"stat", "read"}
    BY <1>4, <2>3 DEF Read, ReadFails, ReadTo
  <2> QED
    BY <2>3, <2>4, <2>5, NextFileType
       DEF AgentTypeOK, StoreTypeOK, ReadTo, storeVars, stackVars, batchVars
<1>5. CASE DoReset
  <2>1. PICK f \in resets :
          /\ resets' = resets \ {f}
          /\ IF stack[f] = NoStack
             THEN /\ batchOffsets' = [batchOffsets EXCEPT ![f] = 0]
                  /\ UNCHANGED <<stackVars, batch, pendingBatch, filtered, pc, ret>>
             ELSE /\ ProcessLine(f, stack[f].lines, 0, "resets")
                  /\ stack' = [stack EXCEPT ![f] = NoStack]
                  /\ fresh' = fresh \ {f}
    BY <1>5 DEF DoReset
  <2>2. f \in File /\ stack[f].lines \in SUBSET Line /\ pc = "resets"
    BY <1>5 DEF AgentTypeOK, DoReset
  <2>3. UNCHANGED <<storeVars, content, tailerVars, cursor, scan, restarts>>
        /\ resets' \subseteq File
    BY <1>5, <2>1 DEF AgentTypeOK, DoReset
  <2>4. CASE stack[f] = NoStack
    <3>0. batchOffsets' = [batchOffsets EXCEPT ![f] = 0]
      BY <2>1, <2>4
    <3>1. batchOffsets' \in [File -> Nat \cup {NoOffset}]
      BY <2>2, <3>0 DEF AgentTypeOK
    <3> QED
      BY <2>1, <2>2, <2>3, <2>4, <3>1
         DEF AgentTypeOK, StoreTypeOK, storeVars, tailerVars, stackVars
  <2>5. CASE stack[f] # NoStack
    <3>1. "resets" \in Ret /\ 0 \in Nat
      BY DEF Ret
    <3>2. ProcessLine(f, stack[f].lines, 0, "resets")
      BY <2>1, <2>5
    <3>3. stack' \in [File -> [lines : SUBSET Line, end : Nat]] /\ fresh' \subseteq File
      BY <2>1, <2>2, <2>5, NoStackType DEF AgentTypeOK
    <3> QED
      BY <2>2, <2>3, <3>1, <3>2, <3>3, ProcessLineType
         DEF AgentTypeOK, StoreTypeOK, storeVars, tailerVars
  <2> QED
    BY <2>4, <2>5
<1>6. CASE ResetsDone
  BY <1>6 DEF AgentTypeOK, StoreTypeOK, ResetsDone, storeVars, tailerVars, stackVars,
              batchVars, PC
<1>7. CASE LinesDone
  <2>1. pc' \in PC \ {"stat", "read"} /\ scan' \in 1 .. NumFiles + 1
    BY <1>0, <1>7 DEF LinesDone, PC
  <2> QED
    BY <1>7, <2>1 DEF AgentTypeOK, StoreTypeOK, LinesDone, storeVars, tailerVars,
                      stackVars, batchVars
<1>8. ASSUME NEW f \in File, AddLine(f)
      PROVE  AgentTypeOK'
  <2> DEFINE line == <<f, readGen[f], cursor[f] + 1>>
  <2>0. f \in Nat /\ readGen[f] \in Nat /\ cursor[f] + 1 \in Nat
    <3>1. f \in Nat
      BY DEF File
    <3>2. readGen[f] \in Nat /\ cursor[f] \in Nat
      BY DEF AgentTypeOK
    <3> QED
      BY <3>1, <3>2
  <2>1. cursor[f] + 1 \in Nat /\ line \in Line /\ "lines" \in Ret /\ pc = "lines"
    BY <1>8, <2>0 DEF Line, Ret, AddLine
  <2>2. stack[f].lines \in SUBSET Line /\ stack[f].end \in Nat
    BY DEF AgentTypeOK
  <2>3. cursor' \in [File -> Nat]
    BY <1>8, <2>1 DEF AddLine, AgentTypeOK
  <2>4. UNCHANGED <<storeVars, content, tailerVars, resets, scan, restarts>>
    BY <1>8 DEF AddLine
  <2>5. \/ UNCHANGED stackVars
        \/ \E lines \in SUBSET Line :
             /\ stack' = [stack EXCEPT ![f] = [lines |-> lines, end |-> cursor[f] + 1]]
             /\ fresh' = fresh \cup {f}
    <3>1. {line} \in SUBSET Line /\ stack[f].lines \cup {line} \in SUBSET Line
      BY <2>1, <2>2
    <3> QED
      BY <1>8, <3>1 DEF AddLine
  <2>6. stack' \in [File -> [lines : SUBSET Line, end : Nat]] /\ fresh' \subseteq File
    <3>1. CASE UNCHANGED stackVars
      BY <3>1 DEF AgentTypeOK, stackVars
    <3>2. ASSUME NEW lines \in SUBSET Line,
                 stack' = [stack EXCEPT ![f] = [lines |-> lines, end |-> cursor[f] + 1]],
                 fresh' = fresh \cup {f}
          PROVE  stack' \in [File -> [lines : SUBSET Line, end : Nat]] /\ fresh' \subseteq File
      BY <2>1, <3>2 DEF AgentTypeOK
    <3> QED
      BY <2>5, <3>1, <3>2
  <2>7. \/ UNCHANGED <<batchVars, pc, ret>>
        \/ \E lines \in SUBSET Line, end \in Nat : ProcessLine(f, lines, end, "lines")
    <3>1. {line} \in SUBSET Line
      BY <2>1
    <3> QED
      BY <1>8, <2>1, <2>2, <3>1 DEF AddLine
  <2>8. CASE UNCHANGED <<batchVars, pc, ret>>
    BY <2>1, <2>3, <2>4, <2>6, <2>8
       DEF AgentTypeOK, StoreTypeOK, storeVars, tailerVars, batchVars
  <2>9. ASSUME NEW lines \in SUBSET Line, NEW end \in Nat, ProcessLine(f, lines, end, "lines")
        PROVE  AgentTypeOK'
    BY <2>1, <2>3, <2>4, <2>6, <2>9, ProcessLineType
       DEF AgentTypeOK, StoreTypeOK, storeVars, tailerVars
  <2> QED
    BY <2>7, <2>8, <2>9
<1>9. CASE IdleRecord
  <2>1. scan \in File /\ stack[scan].lines \in SUBSET Line /\ stack[scan].end \in Nat
    BY <1>9 DEF IdleRecord, AgentTypeOK
  <2>2. stack' \in [File -> [lines : SUBSET Line, end : Nat]]
    BY <1>9, NoStackType DEF AgentTypeOK, IdleRecord
  <2>3. scan' \in 1 .. NumFiles + 1
    BY <1>9, <2>1 DEF File, IdleRecord
  <2>4. "idle" \in Ret /\ ProcessLine(scan, stack[scan].lines, stack[scan].end, "idle")
    BY <1>9 DEF Ret, IdleRecord
  <2>5. UNCHANGED <<storeVars, content, tailerVars, cursor, fresh, resets, restarts>>
    BY <1>9 DEF IdleRecord
  <2> QED
    <3>1. /\ batch' \in Seq(SUBSET Line)
          /\ batchOffsets' \in [File -> Nat \cup {NoOffset}]
          /\ pendingBatch' \in Nat
          /\ filtered' \subseteq Line
          /\ pc' \in {"idle", "write"} /\ pc' \in PC
          /\ ret' \in Ret
      BY <2>1, <2>4, ProcessLineType
    <3> QED
      BY <2>2, <2>3, <2>5, <3>1 DEF AgentTypeOK, StoreTypeOK, storeVars, tailerVars
<1>1a. CASE NotIdle
  <2>1. scan' \in 1 .. NumFiles + 1
    BY <1>1a DEF File, NotIdle
  <2> QED
    BY <1>1a, <2>1 DEF AgentTypeOK, StoreTypeOK, NotIdle, storeVars, tailerVars,
                       stackVars, batchVars
<1>11. CASE IdleDone
  <2>1. pc' \in PC /\ pc' \notin {"stat", "read"} /\ ret' \in Ret
    BY <1>11 DEF AgentTypeOK, IdleDone, PC, Ret
  <2> QED
    BY <1>11, <2>1 DEF AgentTypeOK, StoreTypeOK, IdleDone, storeVars, tailerVars,
                       stackVars, batchVars
<1> QED
  BY <1>1, <1>2, <1>3, <1>4, <1>5, <1>6, <1>7, <1>8, <1>9, <1>1a, <1>11 DEF Poll

LEMMA GiveUpType ==
    ASSUME AgentTypeOK, GiveUp
    PROVE  pc' \in Ret \cap PC
BY DEF AgentTypeOK, GiveUp, Ret, PC

LEMMA BatchLinesType ==
    ASSUME AgentTypeOK
    PROVE  BatchLines \in SUBSET Line /\ Len(batch) \in Nat
<1>1. batch \in Seq(SUBSET Line)
  BY DEF AgentTypeOK
<1>2. \A i \in DOMAIN batch : batch[i] \subseteq Line
  BY <1>1
<1> QED
  BY <1>1, <1>2 DEF BatchLines

LEMMA FlushType ==
    ASSUME AgentTypeOK, Flush
    PROVE  AgentTypeOK'
<1>1. CASE FlushBatch \/ NothingToWrite
  <2>1. pc' \in PC \ {"stat", "read"} /\ ret' \in Ret
    BY <1>1 DEF AgentTypeOK, FlushBatch, NothingToWrite, PC, Ret
  <2> QED
    BY <1>1, <2>1 DEF AgentTypeOK, StoreTypeOK, FlushBatch, NothingToWrite, storeVars,
                      tailerVars, stackVars, batchVars
<1>2. CASE WriteBatch
  <2>1. Publish(BatchLines, Len(batch))
    BY <1>2 DEF WriteBatch
  <2>2. batches \in Seq(Batch)
    BY DEF AgentTypeOK, StoreTypeOK
  <2>3. batches' \in Seq(Batch)
    BY <2>1, <2>2, BatchLinesType, PublishAdds
  <2>4. StoreTypeOK'
    BY <2>1, <2>3 DEF Publish, StoreTypeOK, Clients
  <2>5. pc' \in PC \ {"stat", "read"}
    BY <1>2 DEF WriteBatch, PC
  <2> QED
    BY <1>2, <2>4, <2>5 DEF AgentTypeOK, WriteBatch, tailerVars, stackVars, batchVars
<1>3. CASE WriteFails \/ CommitFails
  <2>1. GiveUp
    BY <1>3 DEF WriteFails, CommitFails
  <2>2. pc' \in PC \ {"stat", "read"}
    BY <2>1, GiveUpType DEF Ret
  <2> QED
    BY <1>3, <2>2 DEF AgentTypeOK, StoreTypeOK, WriteFails, CommitFails, storeVars,
                      tailerVars, stackVars, batchVars
<1>4. CASE Enforce
  <2>1. StoreTypeOK'
    BY <1>4, EnforceKeeps DEF AgentTypeOK, Enforce
  <2>2. pendingBatch' \in Nat
    BY <1>4 DEF AgentTypeOK, StoreTypeOK, Enforce
  <2>3. pc' \in PC \ {"stat", "read"}
    BY <1>4 DEF Enforce, PC
  <2> QED
    BY <1>4, <2>1, <2>2, <2>3 DEF AgentTypeOK, Enforce, tailerVars, stackVars
<1>5. CASE Commit
  <2>1. ASSUME NEW f \in File
        PROVE  Candidate(f) \in Nat
    <3>1. offsets[f] \in Nat /\ batchOffsets[f] \in Nat \cup {NoOffset}
      BY DEF AgentTypeOK
    <3> QED
      BY <3>1 DEF Candidate
  <2>2. offsets' \in [File -> Nat]
    BY <1>5, <2>1 DEF Commit
  <2>3. savedGen' \in [File -> Nat \ {0}]
    BY <1>5 DEF AgentTypeOK, Commit
  <2>4. batchOffsets' \in [File -> Nat \cup {NoOffset}]
    BY <1>5 DEF Commit
  <2>5. batch' \in Seq(SUBSET Line) /\ pendingBatch' \in Nat
    BY <1>5 DEF Commit, NoBatch
  <2>6. pc' \in PC \ {"stat", "read"}
    BY <1>5 DEF AgentTypeOK, Commit, PC, Ret
  <2> QED
    BY <1>5, <2>2, <2>3, <2>4, <2>5, <2>6
       DEF AgentTypeOK, StoreTypeOK, Commit, storeVars, stackVars
<1> QED
  BY <1>1, <1>2, <1>3, <1>4, <1>5 DEF Flush

LEMMA StopType ==
    ASSUME AgentTypeOK, Stop
    PROVE  AgentTypeOK'
<1> USE AgentAssumption
<1>1. CASE Shutdown
  <2>1. pc' \in PC \ {"stat", "read"}
    BY <1>1 DEF Shutdown, PC
  <2>2. scan' \in 1 .. NumFiles + 1 /\ restarts' \in 0 .. MaxRestarts
    BY <1>1 DEF AgentTypeOK, Shutdown
  <2> QED
    BY <1>1, <2>1, <2>2 DEF AgentTypeOK, StoreTypeOK, Shutdown, storeVars, tailerVars,
                            stackVars, batchVars
<1>2. CASE Drain
  <2>1. scan \in File /\ stack[scan].lines \in SUBSET Line /\ stack[scan].end \in Nat
        /\ pc = "drain"
    BY <1>2 DEF Drain, AgentTypeOK
  <2>2. scan' \in 1 .. NumFiles + 1
    BY <1>2, <2>1 DEF File, Drain
  <2>3. UNCHANGED <<storeVars, content, tailerVars, cursor, resets, restarts>>
    BY <1>2 DEF Drain
  <2>4. CASE stack[scan] = NoStack
    <3>1. UNCHANGED <<stackVars, batchVars, pc, ret>>
      BY <1>2, <2>4 DEF Drain
    <3> QED
      BY <2>1, <2>2, <2>3, <3>1
         DEF AgentTypeOK, StoreTypeOK, storeVars, tailerVars, stackVars, batchVars
  <2>5. CASE stack[scan] # NoStack
    <3>1. "drain" \in Ret /\ ProcessLine(scan, stack[scan].lines, stack[scan].end, "drain")
      BY <1>2, <2>5 DEF Drain, Ret
    <3>2. stack' = [stack EXCEPT ![scan] = NoStack] /\ fresh' = fresh \ {scan}
      BY <1>2, <2>5 DEF Drain
    <3>3. stack' \in [File -> [lines : SUBSET Line, end : Nat]] /\ fresh' \subseteq File
      BY <3>2, NoStackType DEF AgentTypeOK
    <3>4. /\ batch' \in Seq(SUBSET Line)
          /\ batchOffsets' \in [File -> Nat \cup {NoOffset}]
          /\ pendingBatch' \in Nat
          /\ filtered' \subseteq Line
          /\ pc' \in {"drain", "write"} /\ pc' \in PC
          /\ ret' \in Ret
      BY <2>1, <3>1, ProcessLineType
    <3> QED
      BY <2>2, <2>3, <3>3, <3>4 DEF AgentTypeOK, StoreTypeOK, storeVars, tailerVars
  <2> QED
    BY <2>4, <2>5
<1>3. CASE DrainDone
  <2>1. pc' \in PC \ {"stat", "read"} /\ ret' \in Ret
    BY <1>3 DEF DrainDone, PC, Ret
  <2> QED
    BY <1>3, <2>1 DEF AgentTypeOK, StoreTypeOK, DrainDone, storeVars, tailerVars,
                      stackVars, batchVars
<1>4. CASE Exit
  <2>1. StoreTypeOK' /\ restarts' \in 0 .. MaxRestarts
    BY <1>4 DEF AgentTypeOK, StoreTypeOK, Exit, storeVars
  <2> QED
    BY <1>4, <2>1, LoseMemoryType DEF Exit
<1> QED
  BY <1>1, <1>2, <1>3, <1>4 DEF Stop

LEMMA TypeInit ==
    ASSUME AgentInit
    PROVE  AgentTypeOK
<1>1. StoreTypeOK
  BY DEF AgentInit, StoreInit, StoreTypeOK
<1>2. content \in [File -> Seq(Seq(Kind))] /\ \A f \in File : content[f] # <<>>
  <2>1. << <<>> >> \in Seq(Seq(Kind)) /\ << <<>> >> # <<>>
    OBVIOUS
  <2> QED
    BY <2>1 DEF AgentInit
<1>3. stack \in [File -> [lines : SUBSET Line, end : Nat]]
  BY NoStackType DEF AgentInit
<1>4. scan \in 1 .. NumFiles + 1 /\ restarts \in 0 .. MaxRestarts
  BY AgentAssumption DEF AgentInit
<1>5. batchOffsets \in [File -> Nat \cup {NoOffset}] /\ pendingBatch \in Nat
  BY DEF AgentInit, NoOffset, NoBatch
<1>6. pc \in PC \ {"stat", "read"} /\ ret \in Ret
  BY DEF AgentInit, PC, Ret
<1> QED
  BY <1>1, <1>2, <1>3, <1>4, <1>5, <1>6 DEF AgentTypeOK, AgentInit

LEMMA TypeStep ==
    ASSUME AgentTypeOK, [AgentNext]_vars
    PROVE  AgentTypeOK'
<1> USE AgentAssumption
<1>1. CASE Start
  <2>1. StoreTypeOK'
    BY <1>1, RecoverKeeps DEF AgentTypeOK, Start
  <2>2. pc' \in PC /\ scan' \in File /\ scan' \in 1 .. NumFiles + 1
    BY <1>1 DEF Start, PC, File
  <2> QED
    BY <1>1, <2>1, <2>2 DEF AgentTypeOK, Start, tailerVars, stackVars, batchVars
<1>2. CASE StartFails
  <2>1. StoreTypeOK'
    BY <1>2, RecoverKeeps DEF AgentTypeOK, StartFails
  <2> QED
    BY <1>2, <2>1 DEF AgentTypeOK, StartFails, agentVars, tailerVars, stackVars,
                      batchVars, ctlVars
<1>3. CASE Crash
  <2>1. StoreTypeOK' /\ restarts' \in 0 .. MaxRestarts
    BY <1>3 DEF AgentTypeOK, StoreTypeOK, Crash
  <2> QED
    BY <1>3, <2>1, LoseMemoryType DEF Crash
<1>4. CASE SenderStep
  <2>1. StoreTypeOK'
    BY <1>4, SenderKeeps DEF AgentTypeOK, SenderStep
  <2> QED
    BY <1>4, <2>1 DEF AgentTypeOK, SenderStep, agentVars, tailerVars, stackVars,
                      batchVars, ctlVars
<1>5. CASE UNCHANGED vars
  BY <1>5 DEF AgentTypeOK, StoreTypeOK, vars, storeVars, agentVars, tailerVars,
              stackVars, batchVars, ctlVars
<1> QED
  BY <1>1, <1>2, <1>3, <1>4, <1>5, WriterType, PollType, FlushType, StopType
     DEF AgentNext, AgentStep

\* The agent's state is well typed: in particular the loops over config.Files
\* end, and a batch's offsets are positions or absent.
THEOREM AgentTypeCorrect == AgentSpec => []AgentTypeOK
<1>1. AgentInit => AgentTypeOK
  BY TypeInit
<1>2. AgentTypeOK /\ [AgentNext]_vars => AgentTypeOK'
  BY TypeStep
<1> QED
  BY <1>1, <1>2, PTL DEF AgentSpec

-----------------------------------------------------------------------------
(***************************************************************************)
(* Positions, when no watched file shrinks.                                *)
(***************************************************************************)

LEMMA PositionType ==
    ASSUME AgentTypeOK, NEW f \in File
    PROVE  /\ offsets[f] \in Nat /\ readOffsets[f] \in Nat /\ cursor[f] \in Nat
           /\ batchOffsets[f] \in Nat \cup {NoOffset}
           /\ Safe(f) \in Nat
           /\ Size(f) \in Nat
<1>1. /\ offsets[f] \in Nat /\ readOffsets[f] \in Nat /\ cursor[f] \in Nat
      /\ batchOffsets[f] \in Nat \cup {NoOffset}
  BY DEF AgentTypeOK
<1>2. Safe(f) \in Nat
  BY <1>1 DEF Safe
<1>3. content[f] \in Seq(Seq(Kind)) /\ content[f] # <<>>
  BY DEF AgentTypeOK
<1>4. Size(f) \in Nat
  BY <1>3 DEF Size, Current, Gen
<1> QED
  BY <1>1, <1>2, <1>4

LEMMA PositionSame ==
    ASSUME NEW f \in File, PositionOf(f),
           content'[f] = content[f], offsets'[f] = offsets[f],
           readOffsets'[f] = readOffsets[f], readGen'[f] = readGen[f],
           savedGen'[f] = savedGen[f], cursor'[f] = cursor[f],
           stack'[f] = stack[f], batchOffsets'[f] = batchOffsets[f]
    PROVE  PositionOf(f)'
BY DEF PositionOf, Gen, Size, Current, Safe

\* A record of f is complete, or one is opened or grows: the new cursor c,
\* the new safe offset and the new open record fit together.
LEMMA PositionRecord ==
    ASSUME AgentTypeOK, PositionInv, NEW f \in File,
           UNCHANGED <<content, tailerVars, resets>>,
           cursor' \in [File -> Nat], stack' \in [File -> [lines : SUBSET Line, end : Nat]],
           \A g \in File \ {f} : /\ cursor'[g] = cursor[g] /\ stack'[g] = stack[g]
                                 /\ batchOffsets'[g] = batchOffsets[g],
           cursor[f] <= cursor'[f], cursor'[f] <= readOffsets[f],
           Safe(f) <= Safe(f)', Safe(f)' <= cursor'[f],
           stack'[f] # NoStack => stack'[f].end = cursor'[f],
           \A i \in Safe(f)' + 1 .. cursor'[f] : <<f, 1, i>> \in stack'[f].lines,
           Safe(f)' \in Nat
    PROVE  PositionInv'
<1>1. \A g \in File : PositionOf(g)
  BY DEF PositionInv
<1>2. ASSUME NEW g \in File \ {f} PROVE PositionOf(g)'
  BY <1>1, PositionSame DEF tailerVars
<1>3. PositionOf(f)'
  <2>1. /\ Gen(f)' = 1 /\ readGen'[f] = 1 /\ savedGen'[f] = 1
        /\ readOffsets'[f] <= Size(f)' /\ readOffsets'[f] = readOffsets[f]
        /\ offsets'[f] <= Safe(f)
    BY <1>1 DEF PositionOf, tailerVars, Gen, Size, Current
  <2>2. offsets'[f] \in Nat /\ Safe(f) \in Nat
    BY PositionType DEF tailerVars
  <2>3. offsets'[f] <= Safe(f)'
    BY <2>1, <2>2
  <2> QED
    BY <2>1, <2>3 DEF PositionOf
<1> QED
  BY <1>2, <1>3 DEF PositionInv

\* What a line changes: nothing behind the safe offset.
LEMMA PositionAddLine ==
    ASSUME AgentTypeOK, AgentTypeOK', PositionInv, NEW f \in File, AddLine(f)
    PROVE  PositionInv'
<1> DEFINE i == cursor[f] + 1
           line == <<f, readGen[f], i>>
<1>0. PositionOf(f)
  BY DEF PositionInv
<1>1. /\ offsets[f] \in Nat /\ readOffsets[f] \in Nat /\ cursor[f] \in Nat /\ i \in Nat
      /\ batchOffsets[f] \in Nat \cup {NoOffset}
      /\ Safe(f) \in Nat
  BY PositionType
<1>2. /\ cursor' = [cursor EXCEPT ![f] = i]
      /\ cursor[f] < readOffsets[f]
      /\ UNCHANGED <<content, tailerVars, resets>>
  BY DEF AddLine, Staged
<1>3. cursor'[f] = i /\ \A g \in File \ {f} : cursor'[g] = cursor[g]
  BY <1>2 DEF AgentTypeOK
<1>4. line = <<f, 1, i>> /\ Safe(f) <= cursor[f]
      /\ \A j \in Safe(f) + 1 .. cursor[f] : <<f, 1, j>> \in stack[f].lines
  BY <1>0 DEF PositionOf
<1>5. stack[f] = NoStack => Safe(f) = cursor[f]
  BY <1>1, <1>4 DEF NoStack
<1>6. /\ cursor' \in [File -> Nat]
      /\ stack' \in [File -> [lines : SUBSET Line, end : Nat]]
      /\ batchOffsets' \in [File -> Nat \cup {NoOffset}]
  BY DEF AgentTypeOK
<1>7. Safe(f)' \in Nat
  BY <1>1, <1>2, <1>6 DEF Safe, tailerVars
<1>8. CASE \E lines \in SUBSET Line :
             /\ stack' = [stack EXCEPT ![f] = [lines |-> lines, end |-> i]]
             /\ \/ /\ batchOffsets' = batchOffsets
                   /\ line \in lines
                   /\ stack[f].lines \subseteq lines
                \/ /\ batchOffsets' = [batchOffsets EXCEPT ![f] = stack[f].end]
                   /\ stack[f] # NoStack
                   /\ line \in lines
  <2>1. PICK lines \in SUBSET Line :
             /\ stack' = [stack EXCEPT ![f] = [lines |-> lines, end |-> i]]
             /\ \/ /\ batchOffsets' = batchOffsets
                   /\ line \in lines
                   /\ stack[f].lines \subseteq lines
                \/ /\ batchOffsets' = [batchOffsets EXCEPT ![f] = stack[f].end]
                   /\ stack[f] # NoStack
                   /\ line \in lines
    BY <1>8
  <2>2. stack'[f].lines = lines /\ stack'[f].end = i
        /\ \A g \in File \ {f} : stack'[g] = stack[g] /\ batchOffsets'[g] = batchOffsets[g]
    BY <2>1 DEF AgentTypeOK
  <2>3. \/ Safe(f)' = Safe(f) /\ stack[f].lines \subseteq lines
        \/ Safe(f)' = cursor[f]
    <3>1. CASE batchOffsets' = batchOffsets /\ stack[f].lines \subseteq lines
      BY <1>2, <3>1 DEF Safe, tailerVars
    <3>2. CASE batchOffsets' = [batchOffsets EXCEPT ![f] = stack[f].end] /\ stack[f] # NoStack
      <4>1. stack[f].end = cursor[f]
        BY <1>0, <3>2 DEF PositionOf
      <4>2. batchOffsets'[f] = cursor[f]
        BY <3>2, <4>1 DEF AgentTypeOK
      <4> QED
        BY <1>1, <4>2 DEF Safe, NoOffset
    <3> QED
      BY <2>1, <3>1, <3>2
  <2>4. Safe(f) <= Safe(f)' /\ Safe(f)' <= cursor'[f]
    BY <1>1, <1>3, <1>4, <2>3
  <2>5. ASSUME NEW j \in Safe(f)' + 1 .. cursor'[f]
        PROVE  <<f, 1, j>> \in stack'[f].lines
    <3>1. CASE j = i
      BY <1>4, <2>1, <2>2, <3>1
    <3>2. CASE j # i
      <4>1. Safe(f)' = Safe(f) /\ stack[f].lines \subseteq lines /\ j \in Safe(f) + 1 .. cursor[f]
        BY <1>1, <1>3, <1>7, <2>3, <3>2
      <4> QED
        BY <1>4, <2>2, <4>1
    <3> QED
      BY <3>1, <3>2
  <2> QED
    BY <1>1, <1>2, <1>3, <1>6, <1>7, <2>2, <2>4, <2>5, PositionRecord
<1>9. CASE /\ stack[f] = NoStack
           /\ batchOffsets' = [batchOffsets EXCEPT ![f] = i]
           /\ UNCHANGED stack
  <2>1. batchOffsets'[f] = i /\ \A g \in File \ {f} : batchOffsets'[g] = batchOffsets[g]
    BY <1>9 DEF AgentTypeOK
  <2>2. Safe(f)' = i
    BY <1>1, <2>1 DEF Safe, NoOffset
  <2>3. Safe(f) <= Safe(f)' /\ Safe(f)' <= cursor'[f]
        /\ \A j \in Safe(f)' + 1 .. cursor'[f] : <<f, 1, j>> \in stack'[f].lines
    BY <1>1, <1>3, <1>4, <2>2
  <2> QED
    BY <1>1, <1>2, <1>3, <1>6, <1>7, <1>9, <2>1, <2>3, PositionRecord
<1> QED
  <2>1. {line} \in SUBSET Line /\ stack[f].lines \cup {line} \in SUBSET Line
    <3>1. f \in Nat
      BY DEF File
    <3>2. line \in Line
      BY <1>1, <1>4, <3>1 DEF Line
    <3>3. stack[f].lines \in SUBSET Line
      BY DEF AgentTypeOK
    <3> QED
      BY <3>2, <3>3
  <2>2. stack[f] = NoStack => stack[f].lines \subseteq {line}
    BY DEF NoStack
  <2> HIDE DEF line, i
  <2>3. \/ /\ stack' = [stack EXCEPT ![f] = [lines |-> stack[f].lines \cup {line}, end |-> i]]
           /\ batchOffsets' = batchOffsets
        \/ /\ stack[f] = NoStack
           /\ batchOffsets' = [batchOffsets EXCEPT ![f] = i]
           /\ UNCHANGED stack
        \/ /\ stack[f] = NoStack
           /\ stack' = [stack EXCEPT ![f] = [lines |-> {line}, end |-> i]]
           /\ batchOffsets' = batchOffsets
        \/ /\ stack[f] # NoStack
           /\ stack' = [stack EXCEPT ![f] = [lines |-> {line}, end |-> i]]
           /\ batchOffsets' = [batchOffsets EXCEPT ![f] = stack[f].end]
    BY DEF AddLine, ProcessLine, batchVars, stackVars, line, i
  <2> QED
    BY <1>8, <1>9, <2>1, <2>2, <2>3

\* An open record of f is complete: its end, the cursor, is safe.
LEMMA PositionComplete ==
    ASSUME AgentTypeOK, AgentTypeOK', PositionInv, NEW f \in File, NEW next,
           stack[f] # NoStack,
           ProcessLine(f, stack[f].lines, stack[f].end, next),
           stack' = [stack EXCEPT ![f] = NoStack],
           UNCHANGED <<content, tailerVars, cursor, resets>>
    PROVE  PositionInv'
<1>0. PositionOf(f)
  BY DEF PositionInv
<1>1. /\ readOffsets[f] \in Nat /\ cursor[f] \in Nat /\ Safe(f) \in Nat
      /\ cursor[f] <= readOffsets[f] /\ Safe(f) <= cursor[f]
  BY <1>0, PositionType DEF PositionOf
<1>2. batchOffsets' = [batchOffsets EXCEPT ![f] = cursor[f]]
  BY <1>0 DEF PositionOf, ProcessLine
<1>3. /\ batchOffsets'[f] = cursor[f] /\ stack'[f] = NoStack
      /\ \A g \in File \ {f} : stack'[g] = stack[g] /\ batchOffsets'[g] = batchOffsets[g]
  BY <1>2 DEF AgentTypeOK
<1>4. Safe(f)' = cursor[f]
  BY <1>1, <1>3 DEF Safe, NoOffset
<1>5. cursor' = cursor /\ cursor' \in [File -> Nat]
      /\ stack' \in [File -> [lines : SUBSET Line, end : Nat]]
  BY DEF AgentTypeOK
<1>6. \A i \in Safe(f)' + 1 .. cursor'[f] : <<f, 1, i>> \in stack'[f].lines
  BY <1>1, <1>4, <1>5
<1> QED
  BY <1>1, <1>3, <1>4, <1>5, <1>6, PositionRecord

LEMMA PositionStutter ==
    ASSUME PositionInv,
           UNCHANGED <<content, tailerVars, cursor, stack, batchOffsets, resets>>
    PROVE  PositionInv'
BY PositionSame DEF PositionInv, tailerVars

LEMMA PositionLoseMemory ==
    ASSUME AgentTypeOK, PositionInv, LoseMemory
    PROVE  PositionInv'
<1>1. ASSUME NEW f \in File
      PROVE  PositionOf(f)'
  <2>1. PositionOf(f)
    BY DEF PositionInv
  <2>2. /\ offsets[f] \in Nat /\ readOffsets[f] \in Nat /\ cursor[f] \in Nat
        /\ Safe(f) \in Nat /\ Size(f) \in Nat
    BY PositionType
  <2>3. /\ offsets'[f] = offsets[f] /\ readOffsets'[f] = offsets[f]
        /\ cursor'[f] = offsets[f] /\ batchOffsets'[f] = NoOffset
        /\ stack'[f] = NoStack /\ readGen'[f] = savedGen[f]
        /\ savedGen'[f] = savedGen[f] /\ content' = content
    BY DEF LoseMemory
  <2>4. Safe(f)' = offsets[f]
    BY <2>3 DEF Safe
  <2>5. Gen(f)' = Gen(f) /\ Size(f)' = Size(f)
    BY <2>3 DEF Gen, Size, Current
  <2>6. offsets[f] <= Size(f)
    BY <2>1, <2>2 DEF PositionOf
  <2>7. \A i \in Safe(f)' + 1 .. cursor'[f] : <<f, 1, i>> \in stack'[f].lines
    BY <2>2, <2>3, <2>4
  <2> QED
    BY <2>1, <2>2, <2>3, <2>4, <2>5, <2>6, <2>7 DEF PositionOf
<1> QED
  BY <1>1 DEF PositionInv, LoseMemory

\* Committing makes the safe offset the saved one.
LEMMA CommitSavesSafe ==
    ASSUME AgentTypeOK, PositionInv, Commit, NEW f \in File
    PROVE  offsets'[f] = Safe(f)
<1>1. PositionOf(f)
  BY DEF PositionInv
<1>2. /\ offsets[f] \in Nat /\ readOffsets[f] \in Nat /\ cursor[f] \in Nat
      /\ batchOffsets[f] \in Nat \cup {NoOffset} /\ Safe(f) \in Nat
  BY PositionType
<1>3. offsets'[f] = Candidate(f)
  BY DEF Commit
<1>4. offsets[f] <= Safe(f) /\ Safe(f) <= cursor[f] /\ cursor[f] <= readOffsets[f]
  BY <1>1 DEF PositionOf
<1>5. CASE batchOffsets[f] = NoOffset
  BY <1>3, <1>5 DEF Candidate, Safe
<1>6. CASE batchOffsets[f] # NoOffset
  BY <1>2, <1>3, <1>4, <1>6 DEF Candidate, Safe
<1> QED
  BY <1>5, <1>6

LEMMA PositionCommit ==
    ASSUME AgentTypeOK, PositionInv, Commit
    PROVE  PositionInv'
<1>1. ASSUME NEW f \in File
      PROVE  PositionOf(f)'
  <2>1. PositionOf(f)
    BY DEF PositionInv
  <2>2. Safe(f) \in Nat /\ offsets'[f] = Safe(f)
    BY PositionType, CommitSavesSafe
  <2>3. /\ readOffsets' = readOffsets /\ cursor' = cursor /\ content' = content
        /\ stack' = stack /\ readGen' = readGen /\ batchOffsets'[f] = NoOffset
        /\ savedGen'[f] \in {savedGen[f], readGen[f]}
    BY DEF Commit, stackVars
  <2>4. Safe(f)' = Safe(f)
    BY <2>2, <2>3 DEF Safe
  <2>5. Gen(f)' = Gen(f) /\ Size(f)' = Size(f)
    BY <2>3 DEF Gen, Size, Current
  <2> QED
    BY <2>1, <2>2, <2>3, <2>4, <2>5 DEF PositionOf
<1> QED
  BY <1>1 DEF PositionInv, Commit

\* Reading moves only the position read so far, and never beyond the file.
LEMMA PositionRead ==
    ASSUME AgentTypeOK, PositionInv, Stat \/ Read \/ ReadFails
    PROVE  PositionInv'
<1>0. scan \in File
  BY DEF AgentTypeOK, Stat, Read, ReadFails
<1>1. PICK f \in File : f = scan
  BY <1>0
<1>2. PositionOf(f) /\ \A g \in File : PositionOf(g)
  BY <1>1 DEF PositionInv
<1>3. readOffsets[f] <= Size(f) /\ cursor[f] <= readOffsets[f]
      /\ Gen(f) = 1 /\ readGen[f] = 1
  BY <1>2 DEF PositionOf
<1>4. readOffsets[f] \in Nat /\ Size(f) \in Nat /\ cursor[f] \in Nat
  BY <1>1, PositionType
<1>5. CASE Stat
  <2>1. UNCHANGED <<content, tailerVars, cursor, stack, batchOffsets, resets>>
    BY <1>1, <1>3, <1>4, <1>5 DEF Stat, tailerVars, stackVars, batchVars
  <2> QED
    BY <2>1, PositionStutter
<1>6. CASE Read \/ ReadFails
  <2>1. PICK p \in readOffsets[f] .. Size(f) : ReadTo(f, p)
    BY <1>1, <1>3, <1>4, <1>6 DEF Read, ReadFails
  <2>2. /\ readOffsets' = [readOffsets EXCEPT ![f] = p]
        /\ readGen' = [readGen EXCEPT ![f] = 1]
    BY <1>3, <1>4, <2>1 DEF ReadTo
  <2>3. UNCHANGED <<content, offsets, savedGen, cursor, stack, batchOffsets, resets>>
    BY <2>1 DEF ReadTo, stackVars, batchVars
  <2>4. ASSUME NEW g \in File \ {f}
        PROVE  PositionOf(g)'
    BY <1>2, <2>2, <2>3, PositionSame DEF AgentTypeOK
  <2>5. PositionOf(f)'
    <3>1. readOffsets'[f] = p /\ readGen'[f] = 1
      BY <1>1, <2>2 DEF AgentTypeOK
    <3>2. Safe(f)' = Safe(f) /\ Gen(f)' = Gen(f) /\ Size(f)' = Size(f)
      BY <2>3 DEF Safe, Gen, Size, Current
    <3>3. cursor'[f] <= readOffsets'[f] /\ readOffsets'[f] <= Size(f)'
      BY <1>3, <1>4, <2>1, <2>3, <3>1, <3>2
    <3> QED
      BY <1>2, <2>3, <3>1, <3>2, <3>3 DEF PositionOf
  <2> QED
    BY <2>3, <2>4, <2>5 DEF PositionInv
<1> QED
  BY <1>5, <1>6

LEMMA PositionAppend ==
    ASSUME AgentTypeOK, PositionInv, NEW f \in File, AppendLine(f)
    PROVE  PositionInv'
<1>1. PositionOf(f) /\ \A g \in File : PositionOf(g)
  BY DEF PositionInv
<1>2. content[f] \in Seq(Seq(Kind)) /\ content[f] # <<>> /\ Gen(f) = 1
  BY <1>1 DEF AgentTypeOK, PositionOf
<1>3. content[f][1] \in Seq(Kind) /\ 1 \in 1 .. Len(content[f])
  BY <1>2
<1>4. PICK k \in Kind : content' = [content EXCEPT ![f][1] = Append(@, k)]
  BY <1>2 DEF AppendLine
<1>5. UNCHANGED <<tailerVars, cursor, stack, batchOffsets, resets>>
  BY DEF AppendLine, stackVars, batchVars
<1>6. ASSUME NEW g \in File \ {f}
      PROVE  PositionOf(g)'
  BY <1>1, <1>4, <1>5, PositionSame DEF AgentTypeOK, tailerVars
<1>7. PositionOf(f)'
  <2>1. content'[f] = [content[f] EXCEPT ![1] = Append(content[f][1], k)]
    BY <1>4 DEF AgentTypeOK
  <2>2. Append(content[f][1], k) \in Seq(Kind)
        /\ Len(Append(content[f][1], k)) = Len(content[f][1]) + 1
    BY <1>3, AppendProperties
  <2>3. Len(content'[f]) = Len(content[f]) /\ content'[f][1] = Append(content[f][1], k)
    BY <1>2, <1>3, <2>1, <2>2, ExceptSeq
  <2>4. Gen(f)' = 1 /\ Size(f)' = Size(f) + 1
    BY <1>2, <2>2, <2>3 DEF Gen, Size, Current
  <2>5. Safe(f)' = Safe(f)
    BY <1>5 DEF Safe, tailerVars
  <2>6. readOffsets[f] \in Nat /\ Size(f) \in Nat
    BY PositionType
  <2>7. readOffsets'[f] <= Size(f)'
    BY <1>1, <1>5, <2>4, <2>6 DEF PositionOf, tailerVars
  <2> QED
    BY <1>1, <1>5, <2>4, <2>5, <2>7 DEF PositionOf, tailerVars
<1> QED
  BY <1>5, <1>6, <1>7 DEF PositionInv

LEMMA PositionInit ==
    ASSUME AgentInit
    PROVE  PositionInv
<1>1. ASSUME NEW f \in File
      PROVE  PositionOf(f)
  <2>1. /\ content[f] = << <<>> >> /\ offsets[f] = 0 /\ readOffsets[f] = 0
        /\ readGen[f] = 1 /\ savedGen[f] = 1 /\ cursor[f] = 0
        /\ stack[f] = NoStack /\ batchOffsets[f] = NoOffset
    BY DEF AgentInit
  <2>2. Gen(f) = 1 /\ Size(f) = 0 /\ Safe(f) = 0
    BY <2>1 DEF Gen, Size, Current, Safe
  <2> QED
    BY <2>1, <2>2 DEF PositionOf
<1> QED
  BY <1>1 DEF PositionInv, AgentInit

LEMMA PositionStep ==
    ASSUME "rotate" \notin Env, AgentTypeOK, AgentTypeOK', PositionInv, [AgentNext]_vars
    PROVE  PositionInv'
<1>1. CASE Start \/ StartFails \/ SenderStep \/ Tick \/ SkipFile \/ ResetsDone \/ LinesDone
           \/ NotIdle \/ IdleDone \/ FlushBatch \/ NothingToWrite \/ WriteBatch
           \/ WriteFails \/ Enforce \/ CommitFails \/ Shutdown \/ DrainDone
           \/ UNCHANGED vars
  <2>1. UNCHANGED <<content, tailerVars, cursor, stack, batchOffsets, resets>>
    BY <1>1 DEF Start, StartFails, SenderStep, Tick, SkipFile, ResetsDone, LinesDone,
         NotIdle, IdleDone, FlushBatch, NothingToWrite, WriteBatch, WriteFails, Enforce,
         CommitFails, Shutdown, DrainDone, vars, agentVars, tailerVars, stackVars, batchVars
  <2> QED
    BY <2>1, PositionStutter
<1>2. CASE Writer
  BY <1>2, PositionAppend DEF Writer, Rotate
<1>3. CASE Stat \/ Read \/ ReadFails
  BY <1>3, PositionRead
<1>4. CASE DoReset
  BY <1>4 DEF DoReset, PositionInv
<1>5. ASSUME NEW f \in File, AddLine(f)
      PROVE  PositionInv'
  BY <1>5, PositionAddLine
<1>6. CASE IdleRecord
  <2>1. /\ scan \in File /\ stack[scan] # NoStack
        /\ ProcessLine(scan, stack[scan].lines, stack[scan].end, "idle")
        /\ stack' = [stack EXCEPT ![scan] = NoStack]
        /\ UNCHANGED <<content, tailerVars, cursor, resets>>
    BY <1>6 DEF IdleRecord
  <2> QED
    BY <2>1, PositionComplete
<1>7. CASE Drain
  <2>1. scan \in File /\ UNCHANGED <<content, tailerVars, cursor, resets>>
    BY <1>7 DEF Drain
  <2>2. CASE stack[scan] = NoStack
    BY <1>7, <2>1, <2>2, PositionStutter DEF Drain, stackVars, batchVars
  <2>3. CASE stack[scan] # NoStack
    <3>1. /\ ProcessLine(scan, stack[scan].lines, stack[scan].end, "drain")
          /\ stack' = [stack EXCEPT ![scan] = NoStack]
      BY <1>7, <2>3 DEF Drain
    <3> QED
      BY <2>1, <2>3, <3>1, PositionComplete
  <2> QED
    BY <2>2, <2>3
<1>8. CASE Commit
  BY <1>8, PositionCommit
<1>9. CASE Crash \/ Exit
  BY <1>9, PositionLoseMemory DEF Crash, Exit
<1> QED
  BY <1>1, <1>2, <1>3, <1>4, <1>5, <1>6, <1>7, <1>8, <1>9
     DEF AgentNext, AgentStep, Poll, Flush, Stop

\* As long as no watched file shrinks, positions keep their order.
THEOREM PositionsOrdered ==
    ASSUME "rotate" \notin Env
    PROVE  AgentSpec => []PositionInv
<1>1. AgentInit => PositionInv
  BY PositionInit
<1>2. AgentTypeOK /\ AgentTypeOK' /\ PositionInv /\ [AgentNext]_vars => PositionInv'
  BY PositionStep
<1> QED
  BY <1>1, <1>2, AgentTypeCorrect, PTL DEF AgentSpec

LEMMA PositionAccepted ==
    ASSUME AgentTypeOK, PositionInv
    PROVE  ValidOffsets
<1>1. ASSUME NEW f \in File
      PROVE  batchOffsets[f] <= readOffsets[f]
  <2>1. PositionOf(f)
    BY DEF PositionInv
  <2>2. /\ readOffsets[f] \in Nat /\ cursor[f] \in Nat
        /\ batchOffsets[f] \in Nat \cup {NoOffset} /\ Safe(f) \in Nat
    BY PositionType
  <2> QED
    BY <2>1, <2>2 DEF PositionOf, Safe, NoOffset
<1> QED
  BY <1>1 DEF ValidOffsets

\* As long as no watched file shrinks, CommitOffsets never answers "invalid
\* safe file offset", whatever else fails.
THEOREM CommitsAccepted ==
    ASSUME "rotate" \notin Env
    PROVE  AgentSpec => []CommitAccepted
<1>1. AgentTypeOK /\ PositionInv => CommitAccepted
  BY PositionAccepted DEF CommitAccepted
<1> QED
  BY <1>1, AgentTypeCorrect, PositionsOrdered, PTL

-----------------------------------------------------------------------------
(***************************************************************************)
(* Durability, when moreover offsets.json can always be written.           *)
(***************************************************************************)

\* A record that is processed is in the batch or filtered.
LEMMA ProcessLineHolds ==
    ASSUME AgentTypeOK, NEW f, NEW lines \in SUBSET Line, NEW end, NEW next,
           ProcessLine(f, lines, end, next)
    PROVE  /\ filtered \subseteq filtered'
           /\ BatchLines \subseteq BatchLines'
           /\ lines \subseteq filtered' \cup BatchLines'
<1>1. batch \in Seq(SUBSET Line)
  BY DEF AgentTypeOK
<1>2. CASE filtered' = filtered \cup lines /\ batch' = batch
  BY <1>2 DEF BatchLines
<1>3. CASE batch' = Append(batch, lines) /\ filtered' = filtered
  <2>1. /\ batch' \in Seq(SUBSET Line) /\ Len(batch') = Len(batch) + 1
        /\ batch'[Len(batch) + 1] = lines
        /\ \A i \in 1 .. Len(batch) : batch'[i] = batch[i]
    BY <1>1, <1>3, AppendProperties
  <2>2. Len(batch) \in Nat /\ DOMAIN batch = 1 .. Len(batch)
        /\ DOMAIN batch' = 1 .. Len(batch) + 1
    BY <1>1, <2>1
  <2>3. ASSUME NEW i \in DOMAIN batch PROVE i \in DOMAIN batch' /\ batch'[i] = batch[i]
    BY <2>1, <2>2
  <2>4. Len(batch) + 1 \in DOMAIN batch'
    BY <2>2
  <2> QED
    BY <1>3, <2>1, <2>3, <2>4 DEF BatchLines
<1> QED
  BY <1>2, <1>3 DEF ProcessLine

\* A step that loses nothing and moves no offset.
LEMMA DurableSame ==
    ASSUME DurabilityInv, UNCHANGED <<offsets, batchOffsets>>,
           Stored \subseteq Stored', filtered \subseteq filtered',
           BatchLines \subseteq BatchLines',
           pc' \in {"enforce", "commit"} => BatchLines' \subseteq Stored',
           pendingBatch' # NoBatch => pc' = "commit"
    PROVE  DurabilityInv'
<1>1. ASSUME NEW f \in File
      PROVE  /\ \A i \in 1 .. Safe(f)' :
                  <<f, 1, i>> \in Stored' \cup filtered' \cup BatchLines'
             /\ \A i \in 1 .. offsets'[f] : <<f, 1, i>> \in Stored' \cup filtered'
  <2>1. Safe(f)' = Safe(f) /\ offsets'[f] = offsets[f]
    BY DEF Safe
  <2> QED
    BY <2>1 DEF DurabilityInv
<1> QED
  BY <1>1 DEF DurabilityInv

\* A step that completes a record of f, the lines of which reach up to its
\* end.
LEMMA DurableRecord ==
    ASSUME AgentTypeOK, DurabilityInv, NEW f \in File, NEW lines \in SUBSET Line,
           NEW end \in Nat, NEW next \in Ret,
           pc \notin {"enforce", "commit"},
           ProcessLine(f, lines, end, next),
           \A i \in Safe(f) + 1 .. end : <<f, 1, i>> \in lines,
           UNCHANGED <<storeVars, offsets>>
    PROVE  DurabilityInv'
<1>1. Stored' = Stored
  BY DEF storeVars, Stored, Names
<1>2. /\ filtered \subseteq filtered' /\ BatchLines \subseteq BatchLines'
      /\ lines \subseteq filtered' \cup BatchLines'
  BY ProcessLineHolds
<1>3. /\ batchOffsets'[f] = end
      /\ \A g \in File \ {f} : batchOffsets'[g] = batchOffsets[g]
  BY DEF ProcessLine, AgentTypeOK
<1>4. ASSUME NEW g \in File, NEW i \in 1 .. Safe(g)'
      PROVE  <<g, 1, i>> \in Stored' \cup filtered' \cup BatchLines'
  <2>1. CASE g = f
    <3>1. Safe(f)' = end /\ Safe(f) \in Nat
      BY <1>3, PositionType DEF Safe, NoOffset
    <3>2. i \in 1 .. Safe(f) \/ i \in Safe(f) + 1 .. end
      BY <2>1, <3>1
    <3> QED
      BY <1>1, <1>2, <2>1, <3>2 DEF DurabilityInv
  <2>2. CASE g # f
    <3>1. Safe(g)' = Safe(g)
      BY <1>3, <2>2 DEF Safe
    <3> QED
      BY <1>1, <1>2, <3>1 DEF DurabilityInv
  <2> QED
    BY <2>1, <2>2
<1>5. ASSUME NEW g \in File, NEW i \in 1 .. offsets'[g]
      PROVE  <<g, 1, i>> \in Stored' \cup filtered'
  BY <1>1, <1>2 DEF DurabilityInv
<1>6. pendingBatch' = NoBatch
  BY DEF DurabilityInv, ProcessLine
<1>7. pc' \notin {"enforce", "commit"}
  BY DEF ProcessLine, Ret
<1> QED
  BY <1>4, <1>5, <1>6, <1>7 DEF DurabilityInv

LEMMA DurableAddLine ==
    ASSUME AgentTypeOK, PositionInv, DurabilityInv, NEW f \in File, AddLine(f)
    PROVE  DurabilityInv'
<1> DEFINE i == cursor[f] + 1
           line == <<f, readGen[f], i>>
<1>1. /\ PositionOf(f) /\ pc = "lines" /\ "lines" \in Ret
      /\ UNCHANGED <<storeVars, offsets>>
  BY DEF PositionInv, AddLine, Ret, tailerVars
<1>2. cursor[f] \in Nat /\ i \in Nat /\ Safe(f) \in Nat
  BY PositionType
<1>3. line = <<f, 1, i>> /\ Safe(f) <= cursor[f]
      /\ \A j \in Safe(f) + 1 .. cursor[f] : <<f, 1, j>> \in stack[f].lines
  BY <1>1 DEF PositionOf
<1>4. stack[f].lines \in SUBSET Line /\ stack[f].end \in Nat
  BY DEF AgentTypeOK
<1>5. {line} \in SUBSET Line
  <2>1. f \in Nat
    BY DEF File
  <2> QED
    BY <1>2, <1>3, <2>1 DEF Line
<1>6. CASE UNCHANGED <<batchVars, pc, ret>>
  <2>1. UNCHANGED <<offsets, batchOffsets, batch, filtered, pendingBatch, pc, batches>>
    BY <1>1, <1>6 DEF batchVars, storeVars
  <2>2. BatchLines' = BatchLines /\ Stored' = Stored
    BY <2>1 DEF BatchLines, Stored, Names
  <2> QED
    BY <2>1, <2>2, DurableSame DEF DurabilityInv
<1>7. CASE stack[f] = NoStack /\ ProcessLine(f, {line}, i, "lines")
  <2>1. Safe(f) = cursor[f]
    BY <1>2, <1>3, <1>7 DEF NoStack
  <2>2. \A j \in Safe(f) + 1 .. i : <<f, 1, j>> \in {line}
    BY <1>2, <1>3, <2>1
  <2> HIDE DEF line, i
  <2> QED
    BY <1>1, <1>2, <1>5, <1>7, <2>2, DurableRecord
<1>8. CASE stack[f] # NoStack /\ ProcessLine(f, stack[f].lines, stack[f].end, "lines")
  <2>1. stack[f].end = cursor[f]
    BY <1>1, <1>8 DEF PositionOf
  <2>2. \A j \in Safe(f) + 1 .. stack[f].end : <<f, 1, j>> \in stack[f].lines
    BY <1>3, <2>1
  <2> QED
    BY <1>1, <1>4, <1>8, <2>2, DurableRecord
<1> QED
  BY <1>6, <1>7, <1>8 DEF AddLine

\* FlushIdle or Flush completes the open record of f.
LEMMA DurableComplete ==
    ASSUME AgentTypeOK, PositionInv, DurabilityInv, NEW f \in File, NEW next \in Ret,
           stack[f] # NoStack, pc \in {"idle", "drain"},
           ProcessLine(f, stack[f].lines, stack[f].end, next),
           UNCHANGED <<storeVars, offsets>>
    PROVE  DurabilityInv'
<1>1. stack[f].lines \in SUBSET Line /\ stack[f].end \in Nat
  BY DEF AgentTypeOK
<1>2. PositionOf(f)
  BY DEF PositionInv
<1>3. \A j \in Safe(f) + 1 .. stack[f].end : <<f, 1, j>> \in stack[f].lines
  BY <1>2 DEF PositionOf
<1> QED
  BY <1>1, <1>3, DurableRecord

LEMMA DurableCommit ==
    ASSUME AgentTypeOK, PositionInv, DurabilityInv, Commit
    PROVE  DurabilityInv'
<1>1. Stored' = Stored /\ filtered' = filtered
  BY DEF Commit, storeVars, Stored, Names
<1>2. BatchLines \subseteq Stored
  BY DEF Commit, DurabilityInv
<1>3. BatchLines' = {} /\ pendingBatch' = NoBatch
  BY DEF Commit, BatchLines
<1>4. ASSUME NEW f \in File
      PROVE  offsets'[f] = Safe(f) /\ Safe(f)' = Safe(f)
  <2>1. offsets'[f] = Safe(f) /\ batchOffsets'[f] = NoOffset
    BY CommitSavesSafe DEF Commit
  <2> QED
    BY <2>1 DEF Safe
<1>5. ASSUME NEW f \in File, NEW i \in 1 .. Safe(f)
      PROVE  <<f, 1, i>> \in Stored' \cup filtered'
  BY <1>1, <1>2 DEF DurabilityInv
<1> QED
  BY <1>3, <1>4, <1>5 DEF DurabilityInv

LEMMA DurableLoseMemory ==
    ASSUME DurabilityInv, LoseMemory, Stored' = Stored
    PROVE  DurabilityInv'
<1>1. /\ filtered' = filtered /\ pc' = "down" /\ pendingBatch' = NoBatch
      /\ offsets' = offsets
  BY DEF LoseMemory
<1>2. \A f \in File : Safe(f)' = offsets[f]
  BY DEF LoseMemory, Safe
<1> QED
  BY <1>1, <1>2 DEF DurabilityInv

LEMMA DurableWrite ==
    ASSUME AgentTypeOK, DurabilityInv, WriteBatch
    PROVE  DurabilityInv'
<1>1. /\ UNCHANGED <<offsets, batchOffsets, batch, filtered, pendingBatch>>
      /\ pendingBatch = NoBatch
      /\ Publish(BatchLines, Len(batch))
  BY DEF WriteBatch, tailerVars, batchVars
<1>2. batches \in Seq(Batch)
  BY DEF AgentTypeOK, StoreTypeOK
<1>3. Stored \cup BatchLines \subseteq Stored'
  BY <1>1, <1>2, BatchLinesType, PublishAdds
<1>4. BatchLines' = BatchLines
  BY <1>1 DEF BatchLines
<1> QED
  BY <1>1, <1>3, <1>4, DurableSame

LEMMA DurableInit ==
    ASSUME AgentInit
    PROVE  DurabilityInv
<1>1. BatchLines = {} /\ pc = "down" /\ pendingBatch = NoBatch
  BY DEF AgentInit, BatchLines
<1>2. \A f \in File : offsets[f] = 0 /\ Safe(f) = 0
  BY DEF AgentInit, Safe
<1> QED
  BY <1>1, <1>2 DEF DurabilityInv

LEMMA DurableStep ==
    ASSUME "rotate" \notin Env, "save_fault" \notin Env,
           AgentTypeOK, PositionInv, DurabilityInv, [AgentNext]_vars
    PROVE  DurabilityInv'
<1> DEFINE Kept == UNCHANGED <<offsets, batchOffsets, batch, filtered>>
<1>0. ASSUME Kept, Stored' = Stored,
             pc' \in {"enforce", "commit"} => BatchLines \subseteq Stored,
             pendingBatch' # NoBatch => pc' = "commit"
      PROVE  DurabilityInv'
  <2>1. BatchLines' = BatchLines
    BY <1>0 DEF BatchLines
  <2> QED
    BY <1>0, <2>1, DurableSame
<1>1. ASSUME UNCHANGED storeVars PROVE Stored' = Stored
  BY <1>1 DEF storeVars, Stored, Names
<1>2. CASE Tick \/ SkipFile \/ ResetsDone \/ LinesDone \/ NotIdle \/ FlushBatch
           \/ WriteFails \/ Shutdown \/ DrainDone \/ Stat \/ Read \/ ReadFails
  <2>1. /\ Kept /\ UNCHANGED <<storeVars, pendingBatch>>
        /\ pc \notin {"enforce", "commit"}
    BY <1>2 DEF Tick, SkipFile, ResetsDone, LinesDone, NotIdle, FlushBatch, WriteFails,
                Shutdown, DrainDone, Stat, Read, ReadFails, ReadTo, tailerVars, batchVars
  <2>2. pc' \notin {"enforce", "commit"}
    <3>1. CASE WriteFails
      BY <3>1, GiveUpType DEF WriteFails, Ret
    <3>2. CASE ~WriteFails
      BY <1>2, <3>2 DEF Tick, SkipFile, ResetsDone, LinesDone, NotIdle, FlushBatch,
                        Shutdown, DrainDone, Stat, Read, ReadFails, ReadTo, NextFile
    <3> QED
      BY <3>1, <3>2
  <2> QED
    BY <1>0, <1>1, <2>1, <2>2 DEF DurabilityInv
<1>3. CASE Writer \/ UNCHANGED vars
  <2>1. Kept /\ UNCHANGED <<storeVars, pendingBatch, pc>>
    BY <1>3 DEF Writer, AppendLine, Rotate, vars, agentVars, tailerVars, batchVars, ctlVars
  <2> QED
    BY <1>0, <1>1, <2>1 DEF DurabilityInv
<1>4. CASE StartFails \/ SenderStep
  <2>1. Kept /\ UNCHANGED <<pendingBatch, pc>>
    BY <1>4 DEF StartFails, SenderStep, agentVars, tailerVars, batchVars, ctlVars
  <2>2. Stored' = Stored
    BY <1>4, RecoverKeeps, SenderKeeps DEF StartFails, SenderStep, AgentTypeOK
  <2> QED
    BY <1>0, <2>1, <2>2 DEF DurabilityInv
<1>5. CASE Start
  <2>1. Kept /\ UNCHANGED pendingBatch /\ pc = "down" /\ pc' = "stat"
    BY <1>5 DEF Start, tailerVars, batchVars
  <2>2. Stored' = Stored
    BY <1>5, RecoverKeeps DEF Start, AgentTypeOK
  <2> QED
    BY <1>0, <2>1, <2>2 DEF DurabilityInv
<1>6. CASE DoReset
  BY <1>6 DEF DoReset, PositionInv
<1>7. ASSUME NEW f \in File, AddLine(f)
      PROVE  DurabilityInv'
  BY <1>7, DurableAddLine
<1>8. CASE IdleRecord
  <2>1. /\ scan \in File /\ stack[scan] # NoStack /\ pc = "idle" /\ "idle" \in Ret
        /\ ProcessLine(scan, stack[scan].lines, stack[scan].end, "idle")
        /\ UNCHANGED <<storeVars, offsets>>
    BY <1>8 DEF IdleRecord, Ret, tailerVars
  <2> QED
    BY <2>1, DurableComplete
<1>9. CASE Drain
  <2>1. scan \in File /\ pc = "drain" /\ "drain" \in Ret /\ UNCHANGED <<storeVars, offsets>>
    BY <1>9 DEF Drain, Ret, tailerVars
  <2>2. CASE stack[scan] = NoStack
    <3>1. Kept /\ UNCHANGED <<pendingBatch, pc>>
      BY <1>9, <2>1, <2>2 DEF Drain, batchVars
    <3> QED
      BY <1>0, <1>1, <2>1, <3>1 DEF DurabilityInv
  <2>3. CASE stack[scan] # NoStack
    <3>1. ProcessLine(scan, stack[scan].lines, stack[scan].end, "drain")
      BY <1>9, <2>3 DEF Drain
    <3> QED
      BY <2>1, <2>3, <3>1, DurableComplete
  <2> QED
    BY <2>2, <2>3
<1>1a. CASE IdleDone \/ NothingToWrite
  <2>1. Kept /\ UNCHANGED <<storeVars, pendingBatch>> /\ pc \in {"idle", "write"}
    BY <1>1a DEF IdleDone, NothingToWrite, tailerVars, batchVars
  <2>2. pendingBatch = NoBatch
    BY <2>1 DEF DurabilityInv
  <2>3. pc' \in {"enforce", "commit"} => batch = <<>>
    BY <1>1a, <2>2 DEF IdleDone, NothingToWrite
  <2>4. batch = <<>> => BatchLines \subseteq Stored
    BY DEF BatchLines
  <2> QED
    BY <1>0, <1>1, <2>1, <2>2, <2>3, <2>4
<1>11. CASE WriteBatch
  BY <1>11, DurableWrite
<1>12. CASE Enforce
  <2>1. Kept /\ pc = "enforce" /\ pc' = "commit"
    BY <1>12 DEF Enforce, tailerVars
  <2>2. Stored' = Stored
    BY <1>12, EnforceKeeps DEF Enforce, AgentTypeOK
  <2> QED
    BY <1>0, <2>1, <2>2 DEF DurabilityInv
<1>13. CASE Commit
  BY <1>13, DurableCommit
<1>14. CASE CommitFails
  BY <1>14, PositionAccepted DEF CommitFails
<1>15. CASE Crash \/ Exit
  <2>1. LoseMemory /\ batches' = batches
    BY <1>15 DEF Crash, Exit, storeVars
  <2>2. Stored' = Stored
    BY <2>1 DEF Stored, Names
  <2> QED
    BY <2>1, <2>2, DurableLoseMemory
<1> QED
  BY <1>2, <1>3, <1>4, <1>5, <1>6, <1>7, <1>8, <1>9, <1>1a, <1>11, <1>12, <1>13, <1>14,
     <1>15
     DEF AgentNext, AgentStep, Poll, Flush, Stop

\* The write-ahead discipline of flushBatch: while no watched file shrinks
\* and offsets.json can be written, positions are ordered, the lines behind
\* the safe offset are on disk, filtered or in the batch, and the batch is on
\* disk whenever its offsets are committed.
THEOREM WriteAhead ==
    ASSUME "rotate" \notin Env, "save_fault" \notin Env
    PROVE  AgentSpec => []WriteAheadInv
<1>1. AgentInit => DurabilityInv
  BY DurableInit
<1>2. AgentTypeOK /\ PositionInv /\ DurabilityInv /\ [AgentNext]_vars => DurabilityInv'
  BY DurableStep
<1>3. PositionInv /\ DurabilityInv => WriteAheadInv
  BY DEF WriteAheadInv
<1> QED
  BY <1>1, <1>2, <1>3, AgentTypeCorrect, PositionsOrdered, PTL DEF AgentSpec

\* "Gzip batches are written to the agent's disk buffer before offsets are
\* committed": under the same conditions a restart, at any moment and
\* whatever the sender does to the buffer, skips only lines that are in a
\* batch or were filtered.
THEOREM RestartSkipsOnlyStored ==
    ASSUME "rotate" \notin Env, "save_fault" \notin Env
    PROVE  AgentSpec => []SkipsOnlyStored
<1>1. WriteAheadInv => SkipsOnlyStored
  BY DEF WriteAheadInv, PositionInv, PositionOf, DurabilityInv, SkipsOnlyStored
<1> QED
  BY <1>1, WriteAhead, PTL

-----------------------------------------------------------------------------
(***************************************************************************)
(* One process writes no line twice.  The position of a file, a generation *)
(* and a line, only moves on; the lines in an open record, in the batch    *)
(* and on disk are behind it, and an open record holds none of the others. *)
(***************************************************************************)

Passed(l) ==
    /\ l[1] \in File
    /\ \/ l[2] < readGen[l[1]]
       \/ l[2] = readGen[l[1]] /\ l[3] <= cursor[l[1]]

\* Without a shutdown the loop never drains.
RunInv == pc \notin {"drain", "exit"} /\ ret \notin {"drain", "exit"}

ReadInv ==
    \A f \in File : /\ readGen[f] <= Gen(f)
                    /\ readGen[f] = Gen(f) => readOffsets[f] <= Size(f)

OnceInv ==
    /\ WrittenOnce
    /\ \A l \in Stored \cup BatchLines : Passed(l)
    /\ \A f \in File : \A l \in stack[f].lines :
         Passed(l) /\ l[1] = f /\ l \notin Stored \cup BatchLines
    /\ pc # "enforce" /\ pendingBatch = NoBatch => BatchLines \cap Stored = {}
    /\ pc = "enforce" => batches # <<>>

\* With a single file, no commit happens while a reset is still to be handled.
AcceptInv ==
    /\ \A f \in File : cursor[f] <= readOffsets[f]
    /\ \A f \in File \ resets :
         /\ batchOffsets[f] <= cursor[f]
         /\ stack[f] # NoStack => stack[f].end <= cursor[f]
    /\ pc \notin {"stat", "read", "resets"} => resets = {}

\* Lines are staged only between ReadNewLines and the end of Poll's loop.
StagedInv ==
    \A f \in File : Staged(f) =>
        \/ pc \in {"resets", "lines"}
        \/ pc \in {"stat", "read"} /\ f < scan
        \/ pc \in {"write", "enforce", "commit"} /\ ret \in {"resets", "lines"}

-----------------------------------------------------------------------------
LEMMA RunStep ==
    ASSUME "stop" \notin Env, AgentTypeOK, RunInv, [AgentNext]_vars
    PROVE  RunInv'
<1>1. ASSUME NEW f, NEW lines, NEW end, NEW next \in {"resets", "lines", "idle"},
             ProcessLine(f, lines, end, next)
      PROVE  RunInv'
  BY <1>1 DEF ProcessLine, RunInv
<1>2. ASSUME GiveUp, UNCHANGED ret PROVE RunInv'
  BY <1>2 DEF GiveUp, RunInv
<1>3. CASE UNCHANGED <<pc, ret>>
  BY <1>3 DEF RunInv
<1>4. CASE Tick \/ Stat \/ SkipFile \/ Read \/ ReadFails \/ ResetsDone \/ LinesDone
           \/ NotIdle \/ IdleDone \/ FlushBatch \/ NothingToWrite \/ WriteBatch
           \/ Enforce \/ Commit \/ Start
  BY <1>4 DEF Tick, Stat, SkipFile, Read, ReadFails, ReadTo, NextFile, ResetsDone, LinesDone,
     NotIdle, IdleDone, FlushBatch, NothingToWrite, WriteBatch, Enforce, Commit, Start, RunInv
<1>5. CASE WriteFails \/ CommitFails
  BY <1>2, <1>5 DEF WriteFails, CommitFails
<1>6. CASE DoReset
  BY <1>1, <1>3, <1>6 DEF DoReset
<1>7. ASSUME NEW f \in File, AddLine(f) PROVE RunInv'
  BY <1>1, <1>3, <1>7 DEF AddLine
<1>8. CASE IdleRecord
  BY <1>1, <1>8 DEF IdleRecord
<1>9. CASE Stop
  BY <1>9 DEF Stop, Shutdown, Drain, DrainDone, Exit, RunInv
<1>10. CASE Crash
  BY <1>10 DEF Crash, LoseMemory, RunInv
<1>11. CASE Writer \/ StartFails \/ SenderStep \/ UNCHANGED vars
  BY <1>3, <1>11 DEF Writer, AppendLine, Rotate, StartFails, SenderStep, vars, agentVars, ctlVars
<1> QED
  BY <1>4, <1>5, <1>6, <1>7, <1>8, <1>9, <1>10, <1>11 DEF AgentNext, AgentStep, Poll, Flush

\* How the writers and log rotation move a file.
LEMMA FileMoves ==
    ASSUME AgentTypeOK, Writer, NEW g \in File
    PROVE  \/ Gen(g)' = Gen(g) /\ Size(g)' >= Size(g)
           \/ Gen(g)' = Gen(g) + 1
<1>1. PICK f \in File : AppendLine(f) \/ Rotate(f)
  BY DEF Writer
<1>2. content \in [File -> Seq(Seq(Kind))] /\ content[f] \in Seq(Seq(Kind)) /\ content[f] # <<>>
  BY DEF AgentTypeOK
<1>3. Gen(f) \in 1 .. Len(content[f]) /\ content[f][Gen(f)] \in Seq(Kind)
  BY <1>2 DEF Gen
<1>4. CASE g # f
  <2>1. content'[g] = content[g]
    BY <1>1, <1>2, <1>4 DEF AppendLine, Rotate
  <2> QED
    BY <2>1, PositionType DEF Gen, Size, Current
<1>5. CASE g = f /\ AppendLine(f)
  <2>1. PICK k \in Kind : content' = [content EXCEPT ![f][Gen(f)] = Append(@, k)]
    BY <1>5 DEF AppendLine
  <2>2. content'[f] = [content[f] EXCEPT ![Gen(f)] = Append(content[f][Gen(f)], k)]
    BY <1>2, <2>1
  <2>3. Append(content[f][Gen(f)], k) \in Seq(Kind)
        /\ Len(Append(content[f][Gen(f)], k)) = Len(content[f][Gen(f)]) + 1
    BY <1>3, AppendProperties
  <2>4. Len(content'[f]) = Len(content[f])
        /\ content'[f][Gen(f)] = Append(content[f][Gen(f)], k)
    BY <1>2, <1>3, <2>2, <2>3, ExceptSeq
  <2>5. Gen(f)' = Gen(f) /\ Size(f)' = Size(f) + 1
    BY <2>3, <2>4 DEF Gen, Size, Current
  <2> QED
    BY <1>5, <2>5, PositionType
<1>6. CASE g = f /\ Rotate(f)
  <2>1. content'[f] = Append(content[f], <<>>)
    BY <1>2, <1>6 DEF Rotate
  <2>2. Len(Append(content[f], <<>>)) = Len(content[f]) + 1
    BY <1>2, AppendProperties
  <2> QED
    BY <1>6, <2>1, <2>2 DEF Gen
<1> QED
  BY <1>1, <1>4, <1>5, <1>6

LEMMA GenType ==
    ASSUME AgentTypeOK, NEW f \in File
    PROVE  Gen(f) \in Nat /\ readGen[f] \in Nat
<1>1. content[f] \in Seq(Seq(Kind))
  BY DEF AgentTypeOK
<1> QED
  BY <1>1 DEF Gen, AgentTypeOK

\* What Stat and Read do to the file they are at, and only to that.
LEMMA StatMoves ==
    ASSUME AgentTypeOK, Stat
    PROVE  /\ scan \in File /\ UNCHANGED content
           /\ \/ UNCHANGED <<readOffsets, cursor, readGen, resets>>
              \/ /\ Size(scan) < readOffsets[scan]
                 /\ readOffsets' = [readOffsets EXCEPT ![scan] = 0]
                 /\ cursor' = [cursor EXCEPT ![scan] = 0]
                 /\ readGen' = [readGen EXCEPT ![scan] = Gen(scan)]
                 /\ resets' = resets \cup {scan}
BY DEF Stat, AgentTypeOK

LEMMA ReadMoves ==
    ASSUME AgentTypeOK, Read \/ ReadFails
    PROVE  /\ scan \in File /\ UNCHANGED <<content, cursor, resets>>
           /\ \/ UNCHANGED <<readOffsets, readGen>>
              \/ \E p \in readOffsets[scan] .. Size(scan) :
                   /\ readOffsets' = [readOffsets EXCEPT ![scan] = p]
                   /\ readGen' = [readGen EXCEPT ![scan] = Gen(scan)]
<1>1. scan \in File
  BY DEF Read, ReadFails, AgentTypeOK
<1>2. readOffsets[scan] \in Nat /\ Size(scan) \in Nat
  BY <1>1, PositionType
<1>3. CASE Size(scan) < readOffsets[scan]
  <2>1. ReadTo(scan, readOffsets[scan])
    BY <1>2, <1>3 DEF Read, ReadFails
  <2> QED
    BY <1>1, <1>3, <2>1 DEF ReadTo, AgentTypeOK
<1>4. CASE ~(Size(scan) < readOffsets[scan])
  <2>1. PICK p \in readOffsets[scan] .. Size(scan) : ReadTo(scan, p)
    BY <1>2, <1>4 DEF Read, ReadFails
  <2> QED
    BY <1>1, <1>4, <2>1 DEF ReadTo
<1> QED
  BY <1>3, <1>4

\* A position is not taken back.
Onward(f) ==
    \/ readGen'[f] > readGen[f]
    \/ readGen'[f] = readGen[f] /\ cursor'[f] >= cursor[f]

LEMMA ReadStep ==
    ASSUME "crash" \notin Env, AgentTypeOK, RunInv, ReadInv, [AgentNext]_vars
    PROVE  ReadInv' /\ \A f \in File : Onward(f)
<1>1. \A f \in File : /\ Gen(f) \in Nat /\ readGen[f] \in Nat /\ Size(f) \in Nat
                      /\ readOffsets[f] \in Nat /\ cursor[f] \in Nat
  BY GenType, PositionType
<1>2. \A f \in File : readGen[f] <= Gen(f) /\ (readGen[f] = Gen(f) => readOffsets[f] <= Size(f))
  BY DEF ReadInv
<1>3. readOffsets \in [File -> Nat] /\ cursor \in [File -> Nat] /\ readGen \in [File -> Nat \ {0}]
  BY DEF AgentTypeOK
<1>4. ASSUME UNCHANGED content
      PROVE  \A f \in File : Gen(f)' = Gen(f) /\ Size(f)' = Size(f)
  BY <1>4 DEF Gen, Size, Current
<1>5. CASE UNCHANGED <<content, readOffsets, readGen, cursor>>
  BY <1>1, <1>2, <1>4, <1>5 DEF ReadInv, Onward
<1>6. CASE Writer
  <2>1. UNCHANGED <<readOffsets, readGen, cursor>>
    BY <1>6 DEF Writer, AppendLine, Rotate, tailerVars
  <2>2. ASSUME NEW f \in File
        PROVE  /\ readGen'[f] <= Gen(f)' /\ (readGen'[f] = Gen(f)' => readOffsets'[f] <= Size(f)')
               /\ Onward(f)
    <3>1. Size(f)' \in Int
      <4>1. AgentTypeOK'
        BY <1>6, WriterType
      <4>2. content'[f] \in Seq(Seq(Kind)) /\ content'[f] # <<>>
        BY <4>1 DEF AgentTypeOK
      <4> QED
        BY <4>2 DEF Size, Current, Gen
    <3>2. CASE Gen(f)' = Gen(f) /\ Size(f)' >= Size(f)
      BY <1>1, <1>2, <2>1, <3>1, <3>2 DEF Onward
    <3>3. CASE Gen(f)' = Gen(f) + 1
      BY <1>1, <1>2, <2>1, <3>3 DEF Onward
    <3> QED
      BY <1>6, <3>2, <3>3, FileMoves
  <2> QED
    BY <2>2 DEF ReadInv
<1>7. CASE Stat
  <2>1. CASE UNCHANGED <<readOffsets, cursor, readGen, resets>>
    BY <1>5, <1>7, <2>1, StatMoves
  <2>2. CASE /\ Size(scan) < readOffsets[scan]
             /\ readOffsets' = [readOffsets EXCEPT ![scan] = 0]
             /\ cursor' = [cursor EXCEPT ![scan] = 0]
             /\ readGen' = [readGen EXCEPT ![scan] = Gen(scan)]
    <3>1. scan \in File /\ UNCHANGED content
      BY <1>7, StatMoves
    <3>2. readGen[scan] < Gen(scan)
      BY <1>1, <1>2, <2>2, <3>1
    <3>3. ASSUME NEW f \in File
          PROVE  /\ readGen'[f] <= Gen(f)' /\ (readGen'[f] = Gen(f)' => readOffsets'[f] <= Size(f)')
                 /\ Onward(f)
      <4>1. CASE f = scan
        BY <1>1, <1>3, <1>4, <2>2, <3>1, <3>2, <4>1 DEF Onward
      <4>2. CASE f # scan
        BY <1>1, <1>2, <1>3, <1>4, <2>2, <3>1, <4>2 DEF Onward
      <4> QED
        BY <4>1, <4>2
    <3> QED
      BY <3>3 DEF ReadInv
  <2> QED
    BY <1>7, <2>1, <2>2, StatMoves
<1>8. CASE Read \/ ReadFails
  <2>1. scan \in File /\ UNCHANGED <<content, cursor>>
    BY <1>8, ReadMoves
  <2>2. CASE UNCHANGED <<readOffsets, readGen>>
    BY <1>5, <2>1, <2>2
  <2>3. ASSUME NEW p \in readOffsets[scan] .. Size(scan),
               readOffsets' = [readOffsets EXCEPT ![scan] = p],
               readGen' = [readGen EXCEPT ![scan] = Gen(scan)]
        PROVE  ReadInv' /\ \A f \in File : Onward(f)
    <3>1. ASSUME NEW f \in File
          PROVE  /\ readGen'[f] <= Gen(f)' /\ (readGen'[f] = Gen(f)' => readOffsets'[f] <= Size(f)')
                 /\ Onward(f)
      <4>1. CASE f = scan
        BY <1>1, <1>2, <1>3, <1>4, <2>1, <2>3, <4>1 DEF Onward
      <4>2. CASE f # scan
        BY <1>1, <1>2, <1>3, <1>4, <2>1, <2>3, <4>2 DEF Onward
      <4> QED
        BY <4>1, <4>2
    <3> QED
      BY <3>1 DEF ReadInv
  <2> QED
    BY <1>8, <2>2, <2>3, ReadMoves
<1>9. ASSUME NEW g \in File, AddLine(g) PROVE ReadInv' /\ \A f \in File : Onward(f)
  <2>1. /\ UNCHANGED <<content, readOffsets, readGen>>
        /\ cursor' = [cursor EXCEPT ![g] = cursor[g] + 1]
    BY <1>9 DEF AddLine, tailerVars
  <2> QED
    BY <1>1, <1>2, <1>3, <1>4, <2>1 DEF ReadInv, Onward
<1>10. ~Crash /\ ~Exit
  BY DEF Crash, Exit, RunInv
<1> QED
  BY <1>5, <1>6, <1>7, <1>8, <1>9, <1>10
     DEF AgentNext, AgentStep, Poll, Flush, Stop, Start, StartFails, SenderStep, Tick, SkipFile,
         DoReset, ResetsDone, LinesDone, IdleRecord, NotIdle, IdleDone, FlushBatch,
         NothingToWrite, WriteBatch, WriteFails, Enforce, Commit, CommitFails, Shutdown, Drain,
         DrainDone, agentVars, tailerVars, vars

LEMMA PassedKept ==
    ASSUME AgentTypeOK, AgentTypeOK', \A f \in File : Onward(f), NEW l \in Line, Passed(l)
    PROVE  Passed(l)'
<1>1. l[2] \in Nat /\ l[3] \in Nat /\ l[1] \in File
  BY DEF Line, Passed
<1>2. /\ readGen[l[1]] \in Nat /\ cursor[l[1]] \in Nat
      /\ readGen'[l[1]] \in Nat /\ cursor'[l[1]] \in Nat
  BY <1>1 DEF AgentTypeOK
<1>3. Onward(l[1])
  BY <1>1
<1> QED
  BY <1>1, <1>2, <1>3 DEF Passed, Onward

LEMMA HeldType ==
    ASSUME AgentTypeOK
    PROVE  /\ Stored \in SUBSET Line /\ BatchLines \in SUBSET Line
           /\ \A f \in File : stack[f].lines \in SUBSET Line
<1>1. batches \in Seq(Batch)
  BY DEF AgentTypeOK, StoreTypeOK
<1>2. \A n \in Names : batches[n].lines \in SUBSET Line
  <2>1. \A n \in Names : batches[n] \in Batch
    BY <1>1 DEF Names
  <2> QED
    BY <2>1 DEF Batch
<1>3. \A f \in File : stack[f].lines \in SUBSET Line
  BY DEF AgentTypeOK
<1> QED
  BY <1>2, <1>3, BatchLinesType DEF Stored

\* A step that touches neither the records nor the lines of the batches.
LEMMA OnceSame ==
    ASSUME AgentTypeOK, AgentTypeOK', \A f \in File : Onward(f), OnceInv,
           UNCHANGED <<batch, stack>>, LinesKept, Stored' = Stored,
           pc' # "enforce" /\ pendingBatch' = NoBatch => BatchLines \cap Stored = {},
           pc' = "enforce" => pc = "enforce"
    PROVE  OnceInv'
<1>1. BatchLines' = BatchLines
  BY DEF BatchLines
<1>2. WrittenOnce'
  BY DEF OnceInv, WrittenOnce, LinesKept
<1>3. \A l \in Stored' \cup BatchLines' : Passed(l)'
  BY <1>1, HeldType, PassedKept DEF OnceInv
<1>4. ASSUME NEW f \in File, NEW l \in stack'[f].lines
      PROVE  Passed(l)' /\ l[1] = f /\ l \notin Stored' \cup BatchLines'
  BY <1>1, HeldType, PassedKept DEF OnceInv
<1>5. batches # <<>> => batches' # <<>>
  BY DEF LinesKept, Names
<1> QED
  BY <1>1, <1>2, <1>3, <1>4, <1>5 DEF OnceInv

LEMMA ProcessLineBatch ==
    ASSUME AgentTypeOK, NEW f, NEW lines, NEW end, NEW next, ProcessLine(f, lines, end, next)
    PROVE  BatchLines' \subseteq BatchLines \cup lines
<1>1. batch \in Seq(SUBSET Line)
  BY DEF AgentTypeOK
<1>2. CASE batch' = batch
  BY <1>2 DEF BatchLines
<1>3. CASE batch' = Append(batch, lines)
  <2>1. /\ DOMAIN batch' = 1 .. Len(batch) + 1
        /\ batch'[Len(batch) + 1] = lines
        /\ \A i \in 1 .. Len(batch) : batch'[i] = batch[i]
    BY <1>1, <1>3
  <2>2. Len(batch) \in Nat /\ DOMAIN batch = 1 .. Len(batch)
    BY <1>1
  <2>3. ASSUME NEW i \in DOMAIN batch'
        PROVE  batch'[i] = lines \/ (i \in DOMAIN batch /\ batch'[i] = batch[i])
    BY <2>1, <2>2
  <2> QED
    BY <2>3 DEF BatchLines
<1> QED
  BY <1>2, <1>3 DEF ProcessLine

\* A step that gives f a new line, unless new is empty, and moves lines of f
\* from its open record, or the new one, into the batch.
LEMMA OnceMoved ==
    ASSUME AgentTypeOK, AgentTypeOK', \A g \in File : Onward(g), OnceInv,
           NEW f \in File, NEW new \in SUBSET Line, NEW moved \in SUBSET Line,
           \A l \in new : l[1] = f /\ ~Passed(l) /\ Passed(l)',
           moved \subseteq stack[f].lines \cup new,
           stack'[f].lines \subseteq stack[f].lines \cup new,
           stack'[f].lines \cap moved = {},
           \A g \in File \ {f} : stack'[g] = stack[g],
           BatchLines' \subseteq BatchLines \cup moved,
           pc # "enforce", pc' # "enforce", UNCHANGED <<storeVars, pendingBatch>>
    PROVE  OnceInv'
<1> DEFINE Held == stack[f].lines \cup new
<1>1. Stored' = Stored /\ batches' = batches /\ Names' = Names
  BY DEF storeVars, Stored, Names
<1>2. \A l \in Stored \cup BatchLines : Passed(l)
  BY DEF OnceInv
<1>3. \A g \in File : \A l \in stack[g].lines :
        Passed(l) /\ l[1] = g /\ l \notin Stored \cup BatchLines
  BY DEF OnceInv
<1>4. \A l \in Line : Passed(l) => Passed(l)'
  BY PassedKept
<1>5. ASSUME NEW l \in Held
      PROVE  Passed(l)' /\ l[1] = f /\ l \notin Stored \cup BatchLines
  BY <1>2, <1>3, <1>4, HeldType
<1>6. WrittenOnce'
  BY <1>1 DEF OnceInv, WrittenOnce
<1>7. ASSUME NEW l \in Stored' \cup BatchLines' PROVE Passed(l)'
  <2>1. CASE l \in Stored \cup BatchLines
    BY <1>2, <1>4, <2>1, HeldType
  <2>2. CASE l \in Held
    BY <1>5, <2>2
  <2> QED
    BY <1>1, <2>1, <2>2
<1>8. ASSUME NEW g \in File, NEW l \in stack'[g].lines
      PROVE  Passed(l)' /\ l[1] = g /\ l \notin Stored' \cup BatchLines'
  <2>1. CASE g = f
    BY <1>1, <1>5, <2>1
  <2>2. CASE g # f
    <3>1. l \in stack[g].lines
      BY <2>2
    <3>2. Passed(l) /\ l[1] = g /\ l \notin Stored \cup BatchLines /\ l \in Line
      BY <1>3, <3>1, HeldType
    <3>3. l \notin moved
      BY <1>5, <2>2, <3>2
    <3> QED
      BY <1>1, <1>4, <3>2, <3>3
  <2> QED
    BY <2>1, <2>2
<1>9. pendingBatch' = NoBatch => BatchLines' \cap Stored' = {}
  <2>1. pendingBatch = NoBatch => BatchLines \cap Stored = {}
    BY DEF OnceInv
  <2>2. moved \cap Stored = {}
    BY <1>5
  <2> QED
    BY <1>1, <2>1, <2>2
<1> QED
  BY <1>6, <1>7, <1>8, <1>9 DEF OnceInv

\* The open record of f is completed.
LEMMA OnceComplete ==
    ASSUME AgentTypeOK, AgentTypeOK', \A g \in File : Onward(g), OnceInv,
           NEW f \in File, NEW end, NEW next \in {"resets", "idle"},
           ProcessLine(f, stack[f].lines, end, next),
           stack' = [stack EXCEPT ![f] = NoStack],
           pc # "enforce", UNCHANGED storeVars
    PROVE  OnceInv'
<1>1. stack'[f] = NoStack /\ \A g \in File \ {f} : stack'[g] = stack[g]
  BY DEF AgentTypeOK
<1>2. stack'[f].lines = {}
  BY <1>1 DEF NoStack
<1>3. pc' # "enforce" /\ UNCHANGED pendingBatch
  BY DEF ProcessLine
<1>4. BatchLines' \subseteq BatchLines \cup stack[f].lines
  BY ProcessLineBatch
<1>5. stack[f].lines \in SUBSET Line
  BY HeldType
<1> DEFINE new == {}
           moved == stack[f].lines
<1>6. /\ new \in SUBSET Line /\ moved \in SUBSET Line
      /\ \A l \in new : l[1] = f /\ ~Passed(l) /\ Passed(l)'
      /\ moved \subseteq stack[f].lines \cup new
      /\ stack'[f].lines \subseteq stack[f].lines \cup new
      /\ stack'[f].lines \cap moved = {}
      /\ BatchLines' \subseteq BatchLines \cup moved
  BY <1>2, <1>4, <1>5
<1> HIDE DEF new, moved
<1> QED
  BY <1>1, <1>3, <1>6, OnceMoved

LEMMA OnceAddLine ==
    ASSUME AgentTypeOK, AgentTypeOK', \A g \in File : Onward(g), OnceInv,
           NEW f \in File, AddLine(f)
    PROVE  OnceInv'
<1>0. cursor[f] \in Nat /\ readGen[f] \in Nat /\ f \in Nat
  <2>1. cursor[f] \in Nat /\ readGen[f] \in Nat
    BY DEF AgentTypeOK
  <2> QED
    BY <2>1 DEF File
<1>p. PICK i \in Nat : i = cursor[f] + 1
  BY <1>0
<1>q. PICK line \in Line : line = <<f, readGen[f], i>>
  BY <1>0 DEF Line
<1> DEFINE new == {line}
<1>1. /\ pc = "lines" /\ cursor' = [cursor EXCEPT ![f] = i]
      /\ UNCHANGED <<storeVars, readGen>>
  BY <1>p DEF AddLine, tailerVars
<1>3. cursor'[f] = i /\ readGen'[f] = readGen[f]
  BY <1>1 DEF AgentTypeOK
<1>4. line[1] = f /\ line[2] = readGen[f] /\ line[3] = i
  BY <1>q
<1>5. ~Passed(line) /\ Passed(line)'
  BY <1>0, <1>p, <1>3, <1>4 DEF Passed
<1>6. stack[f].lines \in SUBSET Line /\ line \notin stack[f].lines
  BY <1>5, HeldType DEF OnceInv
<1>7. /\ new \in SUBSET Line /\ \A l \in new : l[1] = f /\ ~Passed(l) /\ Passed(l)'
  BY <1>4, <1>5
<1>8. ASSUME NEW moved \in SUBSET Line, moved \subseteq stack[f].lines \cup new,
             stack'[f].lines \subseteq stack[f].lines \cup new,
             stack'[f].lines \cap moved = {},
             \A g \in File \ {f} : stack'[g] = stack[g],
             BatchLines' \subseteq BatchLines \cup moved,
             pc' # "enforce", UNCHANGED pendingBatch
      PROVE  OnceInv'
  <2> HIDE DEF new
  <2> QED
    BY <1>1, <1>7, <1>8, OnceMoved
<1>9. ASSUME NEW lines, stack' = [stack EXCEPT ![f] = [lines |-> lines, end |-> i]]
      PROVE  stack'[f].lines = lines /\ \A g \in File \ {f} : stack'[g] = stack[g]
  <2>1. stack'[f] = [lines |-> lines, end |-> i]
    BY <1>9 DEF AgentTypeOK
  <2> QED
    BY <1>9, <2>1 DEF AgentTypeOK
<1>10. ASSUME UNCHANGED <<batchVars, pc, ret>>
       PROVE  BatchLines' = BatchLines /\ pc' # "enforce" /\ UNCHANGED pendingBatch
  BY <1>1, <1>10 DEF batchVars, BatchLines
<1>11. ASSUME NEW lines, NEW end, ProcessLine(f, lines, end, "lines")
       PROVE  /\ BatchLines' \subseteq BatchLines \cup lines /\ pc' # "enforce"
              /\ UNCHANGED pendingBatch
  BY <1>11, ProcessLineBatch DEF ProcessLine
<1>12. CASE /\ stack' = [stack EXCEPT ![f] = [lines |-> stack[f].lines \cup {line}, end |-> i]]
            /\ UNCHANGED <<batchVars, pc, ret>>
  <2>1. {} \in SUBSET Line /\ {} \subseteq stack[f].lines \cup new
    OBVIOUS
  <2> QED
    BY <1>8, <1>9, <1>10, <1>12, <2>1
<1>13. CASE ProcessLine(f, {line}, i, "lines") /\ UNCHANGED stackVars /\ stack[f] = NoStack
  <2>1. stack' = stack /\ stack[f].lines = {}
    BY <1>13 DEF stackVars, NoStack
  <2> QED
    BY <1>4, <1>8, <1>11, <1>13, <2>1
<1>14. CASE /\ stack' = [stack EXCEPT ![f] = [lines |-> {line}, end |-> i]]
            /\ UNCHANGED <<batchVars, pc, ret>>
  <2>1. {} \in SUBSET Line /\ {} \subseteq stack[f].lines \cup new
    OBVIOUS
  <2> QED
    BY <1>8, <1>9, <1>10, <1>14, <2>1
<1>15. CASE /\ ProcessLine(f, stack[f].lines, stack[f].end, "lines")
            /\ stack' = [stack EXCEPT ![f] = [lines |-> {line}, end |-> i]]
  <2>1. stack'[f].lines = {line} /\ \A g \in File \ {f} : stack'[g] = stack[g]
    BY <1>9, <1>15
  <2>2. /\ BatchLines' \subseteq BatchLines \cup stack[f].lines /\ pc' # "enforce"
        /\ UNCHANGED pendingBatch
    BY <1>11, <1>15
  <2>3. /\ stack'[f].lines \cap stack[f].lines = {}
        /\ stack'[f].lines \subseteq stack[f].lines \cup new
        /\ stack[f].lines \subseteq stack[f].lines \cup new
    BY <1>6, <2>1
  <2> HIDE DEF new
  <2> QED
    BY <1>6, <1>8, <2>1, <2>2, <2>3
<1> QED
  BY <1>p, <1>q, <1>12, <1>13, <1>14, <1>15 DEF AddLine

LEMMA OnceWrite ==
    ASSUME AgentTypeOK, AgentTypeOK', \A g \in File : Onward(g), OnceInv, WriteBatch
    PROVE  OnceInv'
<1>1. /\ UNCHANGED <<batch, stack, pendingBatch>> /\ pendingBatch = NoBatch
      /\ pc = "write" /\ pc' = "enforce" /\ Publish(BatchLines, Len(batch))
  BY DEF WriteBatch, batchVars, stackVars
<1>2. batches \in Seq(Batch)
  BY DEF AgentTypeOK, StoreTypeOK
<1> DEFINE m == Len(batches) + 1
<1>3. /\ Stored' = Stored \cup BatchLines
      /\ Names' = Names \cup {m} /\ m \notin Names
      /\ batches'[m].lines = BatchLines
      /\ \A n \in Names : batches'[n].lines = batches[n].lines
  BY <1>1, <1>2, BatchLinesType, PublishAdds
<1> HIDE DEF m
<1>4. BatchLines' = BatchLines
  BY <1>1 DEF BatchLines
<1>5. BatchLines \cap Stored = {}
  BY <1>1 DEF OnceInv
<1>6. \A n \in Names : batches[n].lines \cap BatchLines = {}
  BY <1>5 DEF Stored
<1>7. WrittenOnce'
  <2>1. SUFFICES ASSUME NEW k \in Names', NEW n \in Names', k # n
                 PROVE  batches'[k].lines \cap batches'[n].lines = {}
    BY DEF WrittenOnce
  <2>2. CASE k \in Names /\ n \in Names
    BY <1>3, <2>1, <2>2 DEF OnceInv, WrittenOnce
  <2>3. CASE k = m \/ n = m
    BY <1>3, <1>6, <2>1, <2>3
  <2> QED
    BY <1>3, <2>2, <2>3
<1>8. \A l \in Stored' \cup BatchLines' : Passed(l)'
  BY <1>3, <1>4, HeldType, PassedKept DEF OnceInv
<1>9. ASSUME NEW f \in File, NEW l \in stack'[f].lines
      PROVE  Passed(l)' /\ l[1] = f /\ l \notin Stored' \cup BatchLines'
  BY <1>1, <1>3, <1>4, HeldType, PassedKept DEF OnceInv
<1>10. batches' # <<>>
  <2>1. Names' # {}
    BY <1>3
  <2> QED
    BY <2>1 DEF Names
<1> QED
  BY <1>1, <1>7, <1>8, <1>9, <1>10 DEF OnceInv

LEMMA OnceStep ==
    ASSUME "crash" \notin Env, "stop" \notin Env, AgentTypeOK, AgentTypeOK', RunInv, ReadInv,
           OnceInv, [AgentNext]_vars
    PROVE  OnceInv'
<1>1. \A f \in File : Onward(f)
  BY ReadStep
<1>2. ASSUME UNCHANGED <<batch, stack, pendingBatch>>, Stored' = Stored, LinesKept,
             pc = "enforce" <=> pc' = "enforce"
      PROVE  OnceInv'
  BY <1>1, <1>2, OnceSame DEF OnceInv
<1>3. ASSUME UNCHANGED storeVars PROVE Stored' = Stored /\ LinesKept
  BY <1>3 DEF storeVars, Stored, Names, LinesKept
<1>4. CASE Tick \/ Stat \/ SkipFile \/ Read \/ ReadFails \/ ResetsDone \/ LinesDone
           \/ NotIdle \/ IdleDone \/ FlushBatch \/ NothingToWrite
  <2>1. UNCHANGED <<batch, stack, pendingBatch, storeVars>> /\ pc # "enforce" /\ pc' # "enforce"
    BY <1>4 DEF Tick, Stat, SkipFile, Read, ReadFails, ReadTo, NextFile, ResetsDone, LinesDone,
       NotIdle, IdleDone, FlushBatch, NothingToWrite, batchVars, stackVars
  <2> QED
    BY <1>2, <1>3, <2>1
<1>5. CASE WriteFails \/ CommitFails
  <2>1. /\ UNCHANGED <<batch, stack, pendingBatch, storeVars>> /\ pc # "enforce" /\ GiveUp
    BY <1>5 DEF WriteFails, CommitFails, batchVars, stackVars
  <2>2. pc' # "enforce"
    BY <2>1, GiveUpType DEF Ret
  <2> QED
    BY <1>2, <1>3, <2>1, <2>2
<1>6. CASE Writer \/ UNCHANGED vars
  <2>1. UNCHANGED <<batch, stack, pendingBatch, storeVars, pc>>
    BY <1>6 DEF Writer, AppendLine, Rotate, vars, agentVars, batchVars, stackVars, ctlVars
  <2> QED
    BY <1>2, <1>3, <2>1
<1>7. CASE Start \/ StartFails \/ SenderStep
  <2>1. /\ UNCHANGED <<batch, stack, pendingBatch>>
        /\ UNCHANGED pc \/ (pc = "down" /\ pc' = "stat")
    BY <1>7 DEF Start, StartFails, SenderStep, agentVars, batchVars, stackVars, ctlVars
  <2>2. Stored' = Stored /\ LinesKept
    BY <1>7, RecoverKeeps, SenderKeeps DEF Start, StartFails, SenderStep, AgentTypeOK
  <2> QED
    BY <1>2, <2>1, <2>2
<1>8. CASE DoReset
  <2>1. /\ UNCHANGED storeVars /\ pc = "resets"
        /\ \E f \in resets :
             \/ UNCHANGED <<stackVars, batch, pendingBatch, pc>>
             \/ /\ ProcessLine(f, stack[f].lines, 0, "resets")
                /\ stack' = [stack EXCEPT ![f] = NoStack]
    BY <1>8 DEF DoReset
  <2>2. CASE UNCHANGED <<stackVars, batch, pendingBatch, pc>>
    BY <1>2, <1>3, <2>1, <2>2 DEF stackVars
  <2>3. ASSUME NEW f \in resets, ProcessLine(f, stack[f].lines, 0, "resets"),
               stack' = [stack EXCEPT ![f] = NoStack]
        PROVE  OnceInv'
    <3>1. f \in File
      BY DEF AgentTypeOK
    <3> QED
      BY <1>1, <2>1, <2>3, <3>1, OnceComplete
  <2> QED
    BY <2>1, <2>2, <2>3
<1>9. ASSUME NEW f \in File, AddLine(f) PROVE OnceInv'
  BY <1>1, <1>9, OnceAddLine
<1>10. CASE IdleRecord
  <2>1. /\ scan \in File /\ pc = "idle" /\ UNCHANGED storeVars
        /\ stack' = [stack EXCEPT ![scan] = NoStack]
        /\ ProcessLine(scan, stack[scan].lines, stack[scan].end, "idle")
    BY <1>10 DEF IdleRecord
  <2> QED
    BY <1>1, <2>1, OnceComplete
<1>11. CASE WriteBatch
  BY <1>1, <1>11, OnceWrite
<1>12. CASE Enforce
  <2>1. /\ UNCHANGED <<batch, stack>> /\ pendingBatch' = Len(batches)
        /\ pc = "enforce" /\ pc' = "commit"
    BY <1>12 DEF Enforce, stackVars
  <2>2. Stored' = Stored /\ LinesKept
    BY <1>12, EnforceKeeps DEF Enforce, AgentTypeOK
  <2>3. batches \in Seq(Batch) /\ batches # <<>>
    BY <2>1 DEF OnceInv, AgentTypeOK, StoreTypeOK
  <2>4. pendingBatch' # NoBatch
    BY <2>1, <2>3, EmptySeq DEF NoBatch
  <2> QED
    BY <1>1, <2>1, <2>2, <2>4, OnceSame
<1>13. CASE Commit
  <2>1. /\ batch' = <<>> /\ pc' = ret /\ UNCHANGED <<storeVars, stack>>
    BY <1>13 DEF Commit, stackVars
  <2>2. BatchLines' = {} /\ Stored' = Stored /\ batches' = batches /\ Names' = Names
    BY <2>1 DEF BatchLines, storeVars, Stored, Names
  <2>3. pc' # "enforce"
    BY <2>1 DEF AgentTypeOK, Ret
  <2>4. WrittenOnce' /\ \A l \in Stored' : Passed(l)'
    BY <1>1, <2>2, HeldType, PassedKept DEF OnceInv, WrittenOnce
  <2>5. ASSUME NEW f \in File, NEW l \in stack'[f].lines
        PROVE  Passed(l)' /\ l[1] = f /\ l \notin Stored' \cup BatchLines'
    BY <1>1, <2>1, <2>2, HeldType, PassedKept DEF OnceInv
  <2> QED
    BY <2>2, <2>3, <2>4, <2>5 DEF OnceInv
<1>14. ~Crash /\ ~Stop
  BY DEF Crash, Stop, Shutdown, Drain, DrainDone, Exit, RunInv
<1> QED
  BY <1>4, <1>5, <1>6, <1>7, <1>8, <1>9, <1>10, <1>11, <1>12, <1>13, <1>14
     DEF AgentNext, AgentStep, Poll, Flush

LEMMA OnceInit ==
    ASSUME AgentInit
    PROVE  RunInv /\ ReadInv /\ OnceInv
<1>1. /\ batches = <<>> /\ batch = <<>> /\ pc = "down" /\ ret = "wait"
      /\ \A f \in File : stack[f].lines = {}
  BY DEF AgentInit, StoreInit, NoStack
<1>2. Names = {}
  BY <1>1 DEF Names
<1>3. Stored = {} /\ BatchLines = {}
  BY <1>1, <1>2 DEF Stored, BatchLines
<1>4. ReadInv
  <2>1. ASSUME NEW f \in File PROVE Gen(f) = 1 /\ Size(f) = 0 /\ readGen[f] = 1 /\ readOffsets[f] = 0
    <3>1. content[f] = << <<>> >> /\ readGen[f] = 1 /\ readOffsets[f] = 0
      BY DEF AgentInit
    <3> QED
      BY <3>1 DEF Gen, Size, Current
  <2> QED
    BY <2>1 DEF ReadInv
<1> QED
  BY <1>1, <1>2, <1>3, <1>4 DEF RunInv, OnceInv, WrittenOnce

\* A process that is neither stopped nor killed writes no line to the buffer
\* twice, for any files and batch size, although writes and saves fail and
\* are retried, reads fail, and files shrink and regrow, noticed or not.
THEOREM NoLineWrittenTwice ==
    ASSUME "crash" \notin Env, "stop" \notin Env
    PROVE  AgentSpec => []WrittenOnce
<1>1. AgentInit => RunInv /\ ReadInv /\ OnceInv
  BY OnceInit
<1>2. /\ AgentTypeOK /\ AgentTypeOK' /\ RunInv /\ ReadInv /\ OnceInv
      /\ [AgentNext]_vars
      => RunInv' /\ ReadInv' /\ OnceInv'
  BY RunStep, ReadStep, OnceStep
<1>3. OnceInv => WrittenOnce
  BY DEF OnceInv
<1> QED
  BY <1>1, <1>2, <1>3, AgentTypeCorrect, PTL DEF AgentSpec

-----------------------------------------------------------------------------
(***************************************************************************)
(* Commits with a single file, which may shrink.                           *)
(***************************************************************************)

AcceptOf(f) ==
    /\ batchOffsets[f] <= cursor[f]
    /\ stack[f] # NoStack => stack[f].end <= cursor[f]

LEMMA AcceptType ==
    ASSUME AgentTypeOK, NEW f \in File
    PROVE  /\ cursor[f] \in Nat /\ readOffsets[f] \in Nat /\ Size(f) \in Nat
           /\ batchOffsets[f] \in Int /\ stack[f].end \in Nat
<1>1. stack[f].end \in Nat
  BY DEF AgentTypeOK
<1> QED
  BY <1>1, PositionType DEF NoOffset

\* A record of f that ends no later than the cursor is completed.
LEMMA AcceptRecord ==
    ASSUME AgentTypeOK, AcceptInv, NEW f \in File, NEW lines, NEW end \in Nat, NEW next,
           ProcessLine(f, lines, end, next), end <= cursor'[f], resets' = {},
           next \notin {"stat", "read"},
           \A g \in File : cursor'[g] <= readOffsets'[g],
           \A g \in File \ {f} : cursor'[g] = cursor[g] /\ stack'[g] = stack[g] /\ g \notin resets,
           stack'[f] # NoStack => stack'[f].end <= cursor'[f]
    PROVE  AcceptInv'
<1>1. batchOffsets'[f] = end /\ \A g \in File \ {f} : batchOffsets'[g] = batchOffsets[g]
  BY DEF ProcessLine, AgentTypeOK
<1>2. ASSUME NEW g \in File PROVE AcceptOf(g)'
  BY <1>1 DEF AcceptOf, AcceptInv
<1> QED
  BY <1>2 DEF AcceptInv, AcceptOf

LEMMA AcceptStep ==
    ASSUME NumFiles = 1, AgentTypeOK, AcceptInv, [AgentNext]_vars
    PROVE  AcceptInv'
<1>0. File = {1}
  BY DEF File
<1>1. ASSUME UNCHANGED <<cursor, readOffsets, batchOffsets, stack, resets>>,
             pc' \notin {"stat", "read", "resets"} => resets = {}
      PROVE  AcceptInv'
  BY <1>1 DEF AcceptInv
<1>2. \A f \in File : /\ cursor[f] \in Nat /\ readOffsets[f] \in Nat /\ Size(f) \in Nat
                      /\ batchOffsets[f] \in Int /\ stack[f].end \in Nat
  BY AcceptType
<1>3. CASE Tick \/ SkipFile \/ ResetsDone \/ LinesDone \/ NotIdle \/ IdleDone \/ FlushBatch
           \/ NothingToWrite \/ WriteBatch \/ Shutdown \/ DrainDone \/ Start
  <2>1. UNCHANGED <<cursor, readOffsets, batchOffsets, stack, resets>>
    BY <1>3 DEF Tick, SkipFile, ResetsDone, LinesDone, NotIdle, IdleDone, FlushBatch,
       NothingToWrite, WriteBatch, Shutdown, DrainDone, Start, tailerVars, batchVars, stackVars
  <2>2. pc' \notin {"stat", "read", "resets"} => resets = {}
    BY <1>3 DEF AcceptInv, Tick, SkipFile, NextFile, ResetsDone, LinesDone, NotIdle, IdleDone,
       FlushBatch, NothingToWrite, WriteBatch, Shutdown, DrainDone, Start
  <2> QED
    BY <1>1, <2>1, <2>2
<1>4. CASE WriteFails \/ CommitFails \/ Enforce
  <2>1. UNCHANGED <<cursor, readOffsets, batchOffsets, stack, resets>>
    BY <1>4 DEF WriteFails, CommitFails, Enforce, tailerVars, batchVars, stackVars
  <2>2. pc \in {"write", "enforce", "commit"}
    BY <1>4 DEF WriteFails, CommitFails, Enforce
  <2>3. resets = {}
    BY <2>2 DEF AcceptInv
  <2> QED
    BY <1>1, <2>1, <2>3
<1>5. CASE Writer \/ StartFails \/ SenderStep \/ UNCHANGED vars
  <2>1. UNCHANGED <<cursor, readOffsets, batchOffsets, stack, resets, pc>>
    BY <1>5 DEF Writer, AppendLine, Rotate, StartFails, SenderStep, vars, agentVars,
       tailerVars, batchVars, stackVars, ctlVars
  <2> QED
    BY <1>1, <2>1 DEF AcceptInv
<1>6. CASE Stat
  <2>1. UNCHANGED <<batchOffsets, stack>> /\ pc' = "read"
    BY <1>6 DEF Stat, batchVars, stackVars
  <2>2. CASE UNCHANGED <<readOffsets, cursor, readGen, resets>>
    BY <1>1, <2>1, <2>2
  <2>3. CASE /\ readOffsets' = [readOffsets EXCEPT ![scan] = 0]
             /\ cursor' = [cursor EXCEPT ![scan] = 0]
             /\ resets' = resets \cup {scan}
    <3>1. scan = 1 /\ scan \in File
      BY <1>0, <1>6, StatMoves
    <3>2. cursor'[1] = 0 /\ readOffsets'[1] = 0 /\ 1 \in resets'
      BY <1>0, <2>3, <3>1 DEF AgentTypeOK
    <3> QED
      BY <1>0, <2>1, <3>2 DEF AcceptInv
  <2> QED
    BY <1>6, <2>2, <2>3, StatMoves
<1>7. CASE Read \/ ReadFails
  <2>1. /\ UNCHANGED <<cursor, resets, batchOffsets, stack>> /\ scan \in File
        /\ pc' \in {"stat", "resets"}
    BY <1>7, ReadMoves DEF Read, ReadFails, ReadTo, NextFile, batchVars, stackVars
  <2>2. CASE UNCHANGED readOffsets
    BY <1>1, <2>1, <2>2
  <2>3. ASSUME NEW p \in readOffsets[scan] .. Size(scan),
               readOffsets' = [readOffsets EXCEPT ![scan] = p]
        PROVE  AcceptInv'
    <3>1. scan = 1
      BY <1>0, <2>1
    <3>2. readOffsets'[1] = p
      BY <1>0, <2>3, <3>1 DEF AgentTypeOK
    <3>3. cursor[1] <= p
      BY <1>0, <1>2, <2>3, <3>1 DEF AcceptInv
    <3> QED
      BY <1>0, <2>1, <3>2, <3>3 DEF AcceptInv
  <2> QED
    BY <1>7, <2>2, <2>3, ReadMoves
<1>8. CASE DoReset
  <2>1. PICK f \in resets :
          /\ resets' = resets \ {f}
          /\ \/ /\ stack[f] = NoStack
                /\ batchOffsets' = [batchOffsets EXCEPT ![f] = 0]
                /\ UNCHANGED <<stackVars, pc>>
             \/ /\ ProcessLine(f, stack[f].lines, 0, "resets")
                /\ stack' = [stack EXCEPT ![f] = NoStack]
    BY <1>8 DEF DoReset
  <2>2. f = 1 /\ resets' = {} /\ f \in File
    BY <1>0, <2>1 DEF AgentTypeOK
  <2>3. UNCHANGED <<cursor, readOffsets>> /\ pc = "resets"
    BY <1>8 DEF DoReset, tailerVars
  <2>4. CASE /\ stack[f] = NoStack
             /\ batchOffsets' = [batchOffsets EXCEPT ![f] = 0]
             /\ UNCHANGED <<stackVars, pc>>
    <3>1. batchOffsets'[1] = 0 /\ stack'[1] = NoStack
      BY <1>0, <2>2, <2>4 DEF AgentTypeOK, stackVars
    <3> QED
      BY <1>0, <1>2, <2>2, <2>3, <3>1 DEF AcceptInv
  <2>5. CASE /\ ProcessLine(f, stack[f].lines, 0, "resets")
             /\ stack' = [stack EXCEPT ![f] = NoStack]
    <3>1. stack'[f] = NoStack
      BY <2>2, <2>5 DEF AgentTypeOK
    <3>2. 0 <= cursor'[f] /\ \A g \in File : cursor'[g] <= readOffsets'[g]
      BY <1>2, <2>2, <2>3 DEF AcceptInv
    <3> QED
      BY <1>0, <2>2, <2>5, <3>1, <3>2, AcceptRecord
  <2> QED
    BY <2>1, <2>4, <2>5
<1>9. ASSUME NEW f \in File, AddLine(f) PROVE AcceptInv'
  <2>1. /\ pc = "lines" /\ Staged(f) /\ cursor' = [cursor EXCEPT ![f] = cursor[f] + 1]
        /\ UNCHANGED <<readOffsets, resets>>
    BY <1>9 DEF AddLine, tailerVars
  <2>2. resets = {} /\ f = 1
    BY <1>0, <2>1 DEF AcceptInv
  <2>3. cursor'[f] = cursor[f] + 1 /\ cursor'[f] <= readOffsets'[f]
    BY <1>2, <2>1 DEF Staged, AgentTypeOK
  <2>4. batchOffsets[f] <= cursor[f] /\ (stack[f] # NoStack => stack[f].end <= cursor[f])
    BY <2>2 DEF AcceptInv
  <2>5. ASSUME NEW lines, stack' = [stack EXCEPT ![f] = [lines |-> lines, end |-> cursor[f] + 1]]
        PROVE  stack'[f].end = cursor'[f]
    <3>1. stack'[f] = [lines |-> lines, end |-> cursor[f] + 1]
      BY <2>5 DEF AgentTypeOK
    <3> QED
      BY <2>3, <3>1
  <2>6. CASE /\ UNCHANGED <<batchVars, pc>>
             /\ \E lines : stack' = [stack EXCEPT ![f] = [lines |-> lines, end |-> cursor[f] + 1]]
    <3>1. stack'[f].end = cursor'[f] /\ batchOffsets'[f] = batchOffsets[f]
      BY <2>5, <2>6 DEF batchVars
    <3>2. batchOffsets'[f] <= cursor'[f]
      BY <1>2, <2>3, <2>4, <3>1
    <3>3. stack'[f].end <= cursor'[f]
      BY <1>2, <2>3, <3>1
    <3> QED
      BY <1>0, <2>1, <2>2, <2>3, <3>2, <3>3 DEF AcceptInv
  <2>7. ASSUME NEW lines, NEW end \in Nat, ProcessLine(f, lines, end, "lines"),
               end <= cursor'[f], stack'[f] # NoStack => stack'[f].end <= cursor'[f]
        PROVE  AcceptInv'
    <3>1. resets' = {} /\ \A g \in File : cursor'[g] <= readOffsets'[g]
      BY <1>0, <2>1, <2>2, <2>3
    <3> QED
      BY <1>0, <2>2, <2>7, <3>1, AcceptRecord
  <2>8. CASE ProcessLine(f, {<<f, readGen[f], cursor[f] + 1>>}, cursor[f] + 1, "lines")
             /\ UNCHANGED stackVars /\ stack[f] = NoStack
    <3>1. stack'[f] = NoStack
      BY <2>8 DEF stackVars
    <3>2. cursor[f] + 1 \in Nat /\ cursor[f] + 1 <= cursor'[f]
      BY <1>2, <2>3
    <3> QED
      BY <2>7, <2>8, <3>1, <3>2
  <2>9. CASE /\ ProcessLine(f, stack[f].lines, stack[f].end, "lines") /\ stack[f] # NoStack
             /\ \E lines : stack' = [stack EXCEPT ![f] = [lines |-> lines, end |-> cursor[f] + 1]]
    <3>1. stack[f].end \in Nat /\ stack[f].end <= cursor'[f] /\ stack'[f].end <= cursor'[f]
      BY <1>2, <2>3, <2>4, <2>5, <2>9
    <3> QED
      BY <2>7, <2>9, <3>1
  <2> QED
    BY <1>9, <2>6, <2>8, <2>9 DEF AddLine
<1>10. ASSUME NEW f \in File, NEW next \in {"idle", "drain"}, stack[f] # NoStack, pc \in {"idle", "drain"},
              ProcessLine(f, stack[f].lines, stack[f].end, next),
              stack' = [stack EXCEPT ![f] = NoStack],
              UNCHANGED <<cursor, readOffsets, resets>>
       PROVE  AcceptInv'
  <2>1. resets = {} /\ f = 1
    BY <1>0, <1>10 DEF AcceptInv
  <2>2. stack[f].end \in Nat /\ stack[f].end <= cursor'[f] /\ stack'[f] = NoStack
    BY <1>2, <1>10, <2>1 DEF AcceptInv, AgentTypeOK
  <2>3. resets' = {} /\ \A g \in File : cursor'[g] <= readOffsets'[g]
    BY <1>10, <2>1 DEF AcceptInv
  <2> QED
    BY <1>0, <1>10, <2>1, <2>2, <2>3, AcceptRecord
<1>11. CASE IdleRecord
  BY <1>10, <1>11 DEF IdleRecord, tailerVars
<1>12. CASE Drain
  <2>1. scan \in File /\ pc = "drain" /\ UNCHANGED <<cursor, readOffsets, resets>>
    BY <1>12 DEF Drain, tailerVars
  <2>2. CASE stack[scan] = NoStack
    <3>1. UNCHANGED <<stack, batchOffsets, pc>>
      BY <1>12, <2>2 DEF Drain, stackVars, batchVars
    <3> QED
      BY <1>1, <2>1, <3>1 DEF AcceptInv
  <2>3. CASE stack[scan] # NoStack
    BY <1>10, <1>12, <2>1, <2>3 DEF Drain
  <2> QED
    BY <2>2, <2>3
<1>13. CASE Commit
  <2>1. /\ UNCHANGED <<cursor, readOffsets, stack, resets>> /\ pc = "commit"
        /\ \A f \in File : batchOffsets'[f] = NoOffset
    BY <1>13 DEF Commit, stackVars
  <2>2. resets = {}
    BY <2>1 DEF AcceptInv
  <2>3. \A f \in File : batchOffsets'[f] <= cursor'[f]
    BY <1>2, <2>1 DEF NoOffset
  <2> QED
    BY <2>1, <2>2, <2>3 DEF AcceptInv
<1>14. CASE Crash \/ Exit
  <2>1. /\ cursor' = offsets /\ readOffsets' = offsets /\ resets' = {}
        /\ \A f \in File : batchOffsets'[f] = NoOffset /\ stack'[f] = NoStack /\ offsets[f] \in Nat
    BY <1>14 DEF Crash, Exit, LoseMemory, AgentTypeOK
  <2> QED
    BY <2>1 DEF AcceptInv, NoOffset
<1> QED
  BY <1>3, <1>4, <1>5, <1>6, <1>7, <1>8, <1>9, <1>11, <1>12, <1>13, <1>14
     DEF AgentNext, AgentStep, Poll, Flush, Stop

\* An agent that watches a single file never meets "invalid safe file offset"
\* either, although the file shrinks and regrows at any moment, writes and
\* saves fail and the process stops and starts.
THEOREM OneFileCommitsAccepted ==
    ASSUME NumFiles = 1
    PROVE  AgentSpec => []CommitAccepted
<1>1. AgentInit => AcceptInv
  BY DEF AgentInit, AcceptInv, NoOffset
<1>2. AgentTypeOK /\ AcceptInv /\ [AgentNext]_vars => AcceptInv'
  BY AcceptStep
<1>3. AgentTypeOK /\ AcceptInv => CommitAccepted
  <2> SUFFICES ASSUME AgentTypeOK, AcceptInv, pc = "commit", NEW f \in File
               PROVE  batchOffsets[f] <= readOffsets[f]
    BY DEF CommitAccepted, ValidOffsets
  <2>1. batchOffsets[f] <= cursor[f] /\ cursor[f] <= readOffsets[f]
    BY DEF AcceptInv
  <2> QED
    BY <2>1, AcceptType
<1> QED
  BY <1>1, <1>2, <1>3, AgentTypeCorrect, PTL DEF AgentSpec

-----------------------------------------------------------------------------
(***************************************************************************)
(* Commits with any number of files, which may shrink, while no write or   *)
(* save fails.                                                             *)
(***************************************************************************)

\* After a poll whose writes and saves succeeded the batch holds no offset:
\* none is held of a file that is then found to have shrunk.
QuietInv ==
    /\ \A f \in File : cursor[f] <= readOffsets[f]
    /\ \A f \in File : f \notin resets => AcceptOf(f)
    /\ \A f \in resets : batchOffsets[f] = NoOffset
    /\ pc \in {"down", "wait", "stat", "read"} => \A f \in File : batchOffsets[f] = NoOffset
    /\ \/ resets = {}
       \/ pc \in {"stat", "read", "resets"}
       \/ pc \in {"write", "enforce", "commit"} /\ ret = "resets"

LEMMA QuietAccepts ==
    ASSUME AgentTypeOK, QuietInv
    PROVE  CommitAccepted
<1> SUFFICES ASSUME pc = "commit", NEW f \in File PROVE batchOffsets[f] <= readOffsets[f]
  BY DEF CommitAccepted, ValidOffsets
<1>1. cursor[f] <= readOffsets[f] /\ (batchOffsets[f] = NoOffset \/ batchOffsets[f] <= cursor[f])
  BY DEF QuietInv, AcceptOf
<1> QED
  BY <1>1, AcceptType DEF NoOffset

\* A record of f that ends no later than the cursor is completed.
LEMMA QuietRecord ==
    ASSUME AgentTypeOK, QuietInv, NEW f \in File, NEW lines, NEW end \in Nat,
           NEW next \in {"resets", "lines", "idle", "drain"},
           ProcessLine(f, lines, end, next), end <= cursor'[f],
           resets' = resets \ {f}, next = "resets" \/ resets = {},
           \A g \in File : cursor'[g] <= readOffsets'[g],
           \A g \in File \ {f} : cursor'[g] = cursor[g] /\ stack'[g] = stack[g],
           stack'[f] # NoStack => stack'[f].end <= cursor'[f]
    PROVE  QuietInv'
<1>1. batchOffsets'[f] = end /\ \A g \in File \ {f} : batchOffsets'[g] = batchOffsets[g]
  BY DEF ProcessLine, AgentTypeOK
<1>2. pc' = next \/ (pc' = "write" /\ ret' = next)
  BY DEF ProcessLine
<1>3. ASSUME NEW g \in File, g \notin resets' PROVE AcceptOf(g)'
  BY <1>1, <1>3 DEF AcceptOf, QuietInv
<1>4. ASSUME NEW g \in resets' PROVE batchOffsets'[g] = NoOffset
  BY <1>1, <1>4 DEF QuietInv, AgentTypeOK
<1>5. \/ resets' = {}
      \/ pc' \in {"stat", "read", "resets"}
      \/ pc' \in {"write", "enforce", "commit"} /\ ret' = "resets"
  BY <1>2
<1>6. pc' \notin {"down", "wait", "stat", "read"}
  BY <1>2
<1> QED
  BY <1>3, <1>4, <1>5, <1>6 DEF QuietInv

LEMMA QuietAddLine ==
    ASSUME AgentTypeOK, QuietInv, NEW f \in File, AddLine(f)
    PROVE  QuietInv'
<1>1. /\ pc = "lines" /\ Staged(f) /\ cursor' = [cursor EXCEPT ![f] = cursor[f] + 1]
      /\ UNCHANGED <<readOffsets, resets>>
  BY DEF AddLine, tailerVars
<1>2. resets = {} /\ resets' = {} /\ resets' = resets \ {f}
  BY <1>1 DEF QuietInv
<1>3. /\ cursor[f] \in Nat /\ readOffsets[f] \in Nat /\ batchOffsets[f] \in Int
      /\ stack[f].end \in Nat
  BY AcceptType
<1>4. /\ cursor'[f] = cursor[f] + 1 /\ cursor'[f] <= readOffsets'[f]
      /\ \A g \in File \ {f} : cursor'[g] = cursor[g]
  BY <1>1, <1>3 DEF Staged, AgentTypeOK
<1>5. \A g \in File : cursor'[g] <= readOffsets'[g]
  BY <1>1, <1>4 DEF QuietInv
<1>6. batchOffsets[f] <= cursor[f] /\ (stack[f] # NoStack => stack[f].end <= cursor[f])
  BY <1>2 DEF QuietInv, AcceptOf
<1>7. ASSUME NEW lines, stack' = [stack EXCEPT ![f] = [lines |-> lines, end |-> cursor[f] + 1]]
      PROVE  /\ stack'[f].end <= cursor'[f]
             /\ \A g \in File \ {f} : stack'[g] = stack[g]
  <2>1. /\ stack'[f] = [lines |-> lines, end |-> cursor[f] + 1]
        /\ \A g \in File \ {f} : stack'[g] = stack[g]
    BY <1>7 DEF AgentTypeOK
  <2> QED
    BY <1>3, <1>4, <2>1
<1>8. CASE /\ UNCHANGED <<batchVars, pc, ret>>
           /\ \E lines : stack' = [stack EXCEPT ![f] = [lines |-> lines, end |-> cursor[f] + 1]]
  <2>1. /\ UNCHANGED batchOffsets /\ stack'[f].end <= cursor'[f]
        /\ \A g \in File \ {f} : stack'[g] = stack[g]
    BY <1>7, <1>8 DEF batchVars
  <2>2. batchOffsets'[f] <= cursor'[f]
    BY <1>3, <1>4, <1>6, <2>1
  <2>3. ASSUME NEW g \in File PROVE AcceptOf(g)'
    BY <1>2, <1>4, <2>1, <2>2 DEF AcceptOf, QuietInv
  <2> QED
    BY <1>1, <1>2, <1>5, <1>8, <2>3 DEF QuietInv
<1>9. CASE /\ stack[f] = NoStack /\ UNCHANGED stackVars
           /\ ProcessLine(f, {<<f, readGen[f], cursor[f] + 1>>}, cursor[f] + 1, "lines")
  <2>1. UNCHANGED stack /\ cursor[f] + 1 \in Nat /\ cursor[f] + 1 <= cursor'[f]
    BY <1>3, <1>4, <1>9 DEF stackVars
  <2> QED
    BY <1>2, <1>4, <1>5, <1>9, <2>1, QuietRecord
<1>10. CASE /\ stack[f] # NoStack /\ ProcessLine(f, stack[f].lines, stack[f].end, "lines")
            /\ \E lines : stack' = [stack EXCEPT ![f] = [lines |-> lines, end |-> cursor[f] + 1]]
  <2>1. /\ stack[f].end <= cursor'[f] /\ stack'[f].end <= cursor'[f]
        /\ \A g \in File \ {f} : stack'[g] = stack[g]
    BY <1>3, <1>4, <1>6, <1>7, <1>10
  <2> QED
    BY <1>2, <1>3, <1>4, <1>5, <1>10, <2>1, QuietRecord
<1> QED
  BY <1>8, <1>9, <1>10 DEF AddLine

LEMMA QuietStep ==
    ASSUME "write_fault" \notin Env, "save_fault" \notin Env,
           AgentTypeOK, QuietInv, [AgentNext]_vars
    PROVE  QuietInv'
<1> DEFINE Idle(p) == p \in {"down", "wait", "stat", "read"}
           Handling(p, r) == \/ p \in {"stat", "read", "resets"}
                             \/ p \in {"write", "enforce", "commit"} /\ r = "resets"
<1>1. ASSUME UNCHANGED <<cursor, readOffsets, batchOffsets, stack, resets>>,
             Idle(pc') => Idle(pc), resets = {} \/ Handling(pc', ret')
      PROVE  QuietInv'
  BY <1>1 DEF QuietInv, AcceptOf
<1>2. \A f \in File : /\ cursor[f] \in Nat /\ readOffsets[f] \in Nat /\ Size(f) \in Nat
                      /\ batchOffsets[f] \in Int /\ stack[f].end \in Nat
  BY AcceptType
<1>3. CASE Tick \/ SkipFile \/ ResetsDone \/ LinesDone \/ NotIdle \/ IdleDone \/ FlushBatch
           \/ NothingToWrite \/ WriteBatch \/ Enforce \/ Shutdown \/ DrainDone \/ Start
  <2>1. UNCHANGED <<cursor, readOffsets, batchOffsets, stack, resets>>
    BY <1>3 DEF Tick, SkipFile, ResetsDone, LinesDone, NotIdle, IdleDone, FlushBatch,
       NothingToWrite, WriteBatch, Enforce, Shutdown, DrainDone, Start, tailerVars, batchVars,
       stackVars
  <2>2. Idle(pc') => Idle(pc)
    BY <1>3 DEF Tick, SkipFile, NextFile, ResetsDone, LinesDone, NotIdle, IdleDone,
       FlushBatch, NothingToWrite, WriteBatch, Enforce, Shutdown, DrainDone, Start
  <2>3. resets = {} \/ Handling(pc', ret')
    BY <1>3 DEF QuietInv, Tick, SkipFile, NextFile, ResetsDone, LinesDone, NotIdle, IdleDone,
       FlushBatch, NothingToWrite, WriteBatch, Enforce, Shutdown, DrainDone, Start
  <2> QED
    BY <1>1, <2>1, <2>2, <2>3
<1>4. ~WriteFails /\ ~CommitFails
  BY QuietAccepts DEF WriteFails, CommitFails, CommitAccepted
<1>5. CASE Writer \/ StartFails \/ SenderStep \/ UNCHANGED vars
  <2>1. UNCHANGED <<cursor, readOffsets, batchOffsets, stack, resets, pc, ret>>
    BY <1>5 DEF Writer, AppendLine, Rotate, StartFails, SenderStep, vars, agentVars,
       tailerVars, batchVars, stackVars, ctlVars
  <2> QED
    BY <1>1, <2>1 DEF QuietInv
<1>6. CASE Stat
  <2>1. UNCHANGED <<batchOffsets, stack, ret>> /\ pc = "stat" /\ pc' = "read"
    BY <1>6 DEF Stat, batchVars, stackVars
  <2>2. \A f \in File : batchOffsets'[f] = NoOffset
    BY <2>1 DEF QuietInv
  <2>3. CASE UNCHANGED <<readOffsets, cursor, readGen, resets>>
    BY <1>1, <2>1, <2>3
  <2>4. ASSUME NEW f \in File, readOffsets' = [readOffsets EXCEPT ![f] = 0],
               cursor' = [cursor EXCEPT ![f] = 0], resets' = resets \cup {f}
        PROVE  QuietInv'
    <3>1. /\ cursor'[f] = 0 /\ readOffsets'[f] = 0
          /\ \A g \in File \ {f} : cursor'[g] = cursor[g] /\ readOffsets'[g] = readOffsets[g]
      BY <2>4 DEF AgentTypeOK
    <3>2. \A g \in File : cursor'[g] <= readOffsets'[g]
      BY <3>1 DEF QuietInv
    <3>3. ASSUME NEW g \in File, g \notin resets' PROVE AcceptOf(g)'
      BY <2>1, <2>4, <3>1, <3>3 DEF AcceptOf, QuietInv
    <3>4. \A g \in resets' : g \in File
      BY <2>4 DEF AgentTypeOK
    <3> QED
      BY <2>1, <2>2, <3>2, <3>3, <3>4 DEF QuietInv
  <2> QED
    BY <1>6, <2>3, <2>4, StatMoves
<1>7. CASE Read \/ ReadFails
  <2>1. /\ UNCHANGED <<cursor, resets, batchOffsets, stack, ret>> /\ scan \in File
        /\ pc = "read" /\ pc' \in {"stat", "resets"}
    BY <1>7, ReadMoves DEF Read, ReadFails, ReadTo, NextFile, batchVars, stackVars
  <2>2. CASE UNCHANGED readOffsets
    BY <1>1, <2>1, <2>2
  <2>3. ASSUME NEW f \in File, NEW p \in readOffsets[f] .. Size(f),
               readOffsets' = [readOffsets EXCEPT ![f] = p]
        PROVE  QuietInv'
    <3>1. readOffsets'[f] = p /\ \A g \in File \ {f} : readOffsets'[g] = readOffsets[g]
      BY <2>3 DEF AgentTypeOK
    <3>2. cursor[f] <= p
      BY <1>2, <2>3 DEF QuietInv
    <3>3. \A g \in File : cursor'[g] <= readOffsets'[g]
      BY <2>1, <3>1, <3>2 DEF QuietInv
    <3> QED
      BY <2>1, <3>3 DEF QuietInv, AcceptOf
  <2> QED
    BY <1>7, <2>1, <2>2, <2>3, ReadMoves
<1>8. CASE DoReset
  <2>1. PICK f \in resets :
          /\ resets' = resets \ {f}
          /\ \/ /\ stack[f] = NoStack
                /\ batchOffsets' = [batchOffsets EXCEPT ![f] = 0]
                /\ UNCHANGED <<stackVars, pc>>
             \/ /\ ProcessLine(f, stack[f].lines, 0, "resets")
                /\ stack' = [stack EXCEPT ![f] = NoStack]
    BY <1>8 DEF DoReset
  <2>2. f \in File
    BY <2>1 DEF AgentTypeOK
  <2>3. UNCHANGED <<cursor, readOffsets>> /\ pc = "resets"
    BY <1>8 DEF DoReset, tailerVars
  <2>4. 0 <= cursor'[f] /\ \A g \in File : cursor'[g] <= readOffsets'[g]
    BY <1>2, <2>2, <2>3 DEF QuietInv
  <2>5. stack'[f] = NoStack /\ \A g \in File \ {f} : stack'[g] = stack[g]
    BY <2>1, <2>2 DEF AgentTypeOK, stackVars
  <2>6. CASE batchOffsets' = [batchOffsets EXCEPT ![f] = 0] /\ UNCHANGED pc
    <3>1. batchOffsets'[f] = 0 /\ \A g \in File \ {f} : batchOffsets'[g] = batchOffsets[g]
      BY <2>2, <2>6 DEF AgentTypeOK
    <3>2. ASSUME NEW g \in File, g \notin resets' PROVE AcceptOf(g)'
      BY <2>1, <2>3, <2>4, <2>5, <3>1, <3>2 DEF QuietInv, AcceptOf
    <3>3. ASSUME NEW g \in resets' PROVE batchOffsets'[g] = NoOffset
      BY <2>1, <3>1, <3>3 DEF QuietInv, AgentTypeOK
    <3> QED
      BY <2>3, <2>4, <2>6, <3>2, <3>3 DEF QuietInv
  <2>7. CASE ProcessLine(f, stack[f].lines, 0, "resets")
    BY <2>1, <2>2, <2>3, <2>4, <2>5, <2>7, QuietRecord
  <2> QED
    BY <2>1, <2>6, <2>7
<1>9. ASSUME NEW f \in File, AddLine(f) PROVE QuietInv'
  BY <1>9, QuietAddLine
<1>10. ASSUME NEW f \in File, NEW next \in {"idle", "drain"}, stack[f] # NoStack,
              pc \in {"idle", "drain"},
              ProcessLine(f, stack[f].lines, stack[f].end, next),
              stack' = [stack EXCEPT ![f] = NoStack],
              UNCHANGED <<cursor, readOffsets, resets>>
       PROVE  QuietInv'
  <2>1. resets = {} /\ resets' = resets \ {f}
    BY <1>10 DEF QuietInv
  <2>2. /\ stack[f].end \in Nat /\ stack[f].end <= cursor'[f] /\ stack'[f] = NoStack
        /\ \A g \in File \ {f} : stack'[g] = stack[g]
    BY <1>2, <1>10, <2>1 DEF QuietInv, AcceptOf, AgentTypeOK
  <2>3. \A g \in File : cursor'[g] <= readOffsets'[g]
    BY <1>10 DEF QuietInv
  <2> QED
    BY <1>10, <2>1, <2>2, <2>3, QuietRecord
<1>11. CASE IdleRecord
  BY <1>10, <1>11 DEF IdleRecord, tailerVars
<1>12. CASE Drain
  <2>1. scan \in File /\ pc = "drain" /\ UNCHANGED <<cursor, readOffsets, resets>>
    BY <1>12 DEF Drain, tailerVars
  <2>2. CASE stack[scan] = NoStack
    <3>1. UNCHANGED <<stack, batchOffsets, pc>>
      BY <1>12, <2>2 DEF Drain, stackVars, batchVars
    <3> QED
      BY <1>1, <2>1, <3>1 DEF QuietInv
  <2>3. CASE stack[scan] # NoStack
    BY <1>10, <1>12, <2>1, <2>3 DEF Drain
  <2> QED
    BY <2>2, <2>3
<1>13. CASE Commit
  <2>1. /\ UNCHANGED <<cursor, readOffsets, stack, resets, ret>> /\ pc = "commit" /\ pc' = ret
        /\ \A f \in File : batchOffsets'[f] = NoOffset
    BY <1>13 DEF Commit, stackVars
  <2>2. ASSUME NEW f \in File, f \notin resets PROVE AcceptOf(f)'
    BY <1>2, <2>1, <2>2 DEF AcceptOf, QuietInv, NoOffset
  <2>3. \A f \in resets : f \in File
    BY DEF AgentTypeOK
  <2> QED
    BY <2>1, <2>2, <2>3 DEF QuietInv
<1>14. CASE Crash \/ Exit
  <2>1. /\ cursor' = offsets /\ readOffsets' = offsets /\ resets' = {}
        /\ \A f \in File : batchOffsets'[f] = NoOffset /\ stack'[f] = NoStack /\ offsets[f] \in Nat
    BY <1>14 DEF Crash, Exit, LoseMemory, AgentTypeOK
  <2> QED
    BY <2>1 DEF QuietInv, AcceptOf, NoOffset
<1> QED
  BY <1>3, <1>4, <1>5, <1>6, <1>7, <1>8, <1>9, <1>11, <1>12, <1>13, <1>14
     DEF AgentNext, AgentStep, Poll, Flush, Stop

\* Nor does an agent meet it whose writes and saves succeed, although several
\* of its files shrink and regrow at any moment, in the same poll too.
THEOREM UnfailingCommitsAccepted ==
    ASSUME "write_fault" \notin Env, "save_fault" \notin Env
    PROVE  AgentSpec => []CommitAccepted
<1>1. AgentInit => QuietInv
  BY DEF AgentInit, QuietInv, AcceptOf, NoOffset
<1>2. AgentTypeOK /\ QuietInv /\ [AgentNext]_vars => QuietInv'
  BY QuietStep
<1>3. AgentTypeOK /\ QuietInv => CommitAccepted
  BY QuietAccepts
<1> QED
  BY <1>1, <1>2, <1>3, AgentTypeCorrect, PTL DEF AgentSpec

-----------------------------------------------------------------------------
(***************************************************************************)
(* No line is forgotten.                                                   *)
(***************************************************************************)

\* Nothing is staged of f, or of any file, where a step may drop it.
NoneStaged == \A f \in File : ~Staged(f)

LEMMA StagedType ==
    ASSUME AgentTypeOK, NEW f \in File, ~Staged(f)
    PROVE  StagedLines(f) = {}
<1>1. cursor[f] \in Nat /\ readOffsets[f] \in Nat
  BY DEF AgentTypeOK
<1> QED
  BY <1>1 DEF Staged, StagedLines

LEMMA StagedStep ==
    ASSUME AgentTypeOK, StagedInv, [AgentNext]_vars
    PROVE  StagedInv'
<1>0. \A f \in File : cursor[f] \in Nat /\ readOffsets[f] \in Nat /\ f \in Nat
  BY DEF AgentTypeOK, File
<1>1. ASSUME UNCHANGED <<cursor, readOffsets>>
      PROVE  \A f \in File : Staged(f)' <=> Staged(f)
  BY <1>1 DEF Staged
<1>2. CASE UNCHANGED <<cursor, readOffsets, pc, ret, scan>>
  BY <1>1, <1>2 DEF StagedInv
<1>3. ASSUME pc \in {"down", "wait", "idle", "flush", "drain", "exit"} PROVE NoneStaged
  BY <1>3 DEF StagedInv, NoneStaged
<1>4. ASSUME NoneStaged, UNCHANGED <<cursor, readOffsets>> PROVE StagedInv'
  BY <1>1, <1>4 DEF StagedInv, NoneStaged
<1>5. CASE Tick \/ IdleRecord \/ NotIdle \/ IdleDone \/ FlushBatch \/ Shutdown \/ Drain
           \/ DrainDone \/ Start
  <2>1. /\ UNCHANGED <<cursor, readOffsets>>
        /\ pc \in {"down", "wait", "idle", "flush", "drain", "exit"}
    BY <1>5 DEF Tick, IdleRecord, NotIdle, IdleDone, FlushBatch, Shutdown, Drain, DrainDone,
       Start, tailerVars
  <2> QED
    BY <1>3, <1>4, <2>1
<1>6. CASE LinesDone
  <2>1. UNCHANGED <<cursor, readOffsets>> /\ NoneStaged
    BY <1>6 DEF LinesDone, NoneStaged, tailerVars
  <2> QED
    BY <1>4, <2>1
<1>7. CASE ResetsDone \/ NothingToWrite \/ WriteBatch \/ WriteFails \/ Enforce \/ Commit
           \/ CommitFails
  <2>1. UNCHANGED <<cursor, readOffsets, ret>>
    BY <1>7 DEF ResetsDone, NothingToWrite, WriteBatch, WriteFails, Enforce, Commit,
       CommitFails, tailerVars
  <2>2. \/ pc = "resets" /\ pc' = "lines"
        \/ pc \in {"write", "enforce", "commit"} /\ pc' \in {"enforce", "commit"}
        \/ pc \in {"write", "commit"} /\ pc' = ret
        \/ pc \in {"write", "commit"} /\ ret = "drain"
    BY <1>7 DEF ResetsDone, NothingToWrite, WriteBatch, WriteFails, Enforce, Commit,
       CommitFails, GiveUp
  <2> QED
    BY <1>1, <2>1, <2>2 DEF StagedInv
<1>8. CASE DoReset
  <2>1. /\ UNCHANGED <<cursor, readOffsets>>
        /\ pc' = "resets" \/ (pc' = "write" /\ ret' = "resets")
    BY <1>8 DEF DoReset, ProcessLine, tailerVars
  <2> QED
    BY <2>1 DEF StagedInv
<1>9. ASSUME NEW f \in File, AddLine(f) PROVE StagedInv'
  <2>1. pc' = "lines" \/ (pc' = "write" /\ ret' = "lines")
    BY <1>9 DEF AddLine, ProcessLine
  <2> QED
    BY <2>1 DEF StagedInv
<1>10. ASSUME NextFile, pc \in {"stat", "read"}, scan \in File,
              \A f \in File \ {scan} : Staged(f)' <=> Staged(f)
       PROVE  StagedInv'
  <2>1. pc' = "resets" \/ (pc' = "stat" /\ scan' = scan + 1)
    BY <1>10 DEF NextFile
  <2>2. ASSUME NEW f \in File, Staged(f)', pc' = "stat", scan' = scan + 1
        PROVE  f < scan'
    <3>1. CASE f = scan
      BY <1>0, <2>2, <3>1
    <3>2. CASE f # scan
      <4>1. f < scan
        BY <1>10, <2>2, <3>2 DEF StagedInv
      <4> QED
        BY <1>0, <1>10, <2>2, <4>1
    <3> QED
      BY <3>1, <3>2
  <2> QED
    BY <2>1, <2>2 DEF StagedInv
<1>11. CASE SkipFile
  BY <1>1, <1>10, <1>11 DEF SkipFile, tailerVars, AgentTypeOK
<1>12. CASE Read \/ ReadFails
  <2>1. /\ scan \in File /\ pc = "read" /\ NextFile /\ UNCHANGED cursor
        /\ \E p : readOffsets' = [readOffsets EXCEPT ![scan] = p]
    BY <1>12 DEF Read, ReadFails, ReadTo, AgentTypeOK
  <2>2. \A f \in File \ {scan} : Staged(f)' <=> Staged(f)
    BY <2>1 DEF Staged, AgentTypeOK
  <2> QED
    BY <1>10, <2>1, <2>2
<1>13. CASE Stat
  <2>1. pc = "stat" /\ pc' = "read" /\ scan' = scan /\ scan \in File
    BY <1>13, StatMoves DEF Stat
  <2>2. CASE UNCHANGED <<readOffsets, cursor, readGen, resets>>
    BY <1>1, <2>1, <2>2 DEF StagedInv
  <2>3. CASE /\ readOffsets' = [readOffsets EXCEPT ![scan] = 0]
             /\ cursor' = [cursor EXCEPT ![scan] = 0]
    <3>1. ~Staged(scan)'
      <4>1. readOffsets'[scan] = 0 /\ cursor'[scan] = 0 /\ scan' = scan
        BY <2>1, <2>3 DEF AgentTypeOK
      <4> QED
        BY <4>1 DEF Staged
    <3>2. \A f \in File \ {scan} : Staged(f)' <=> Staged(f)
      BY <2>3 DEF Staged, AgentTypeOK
    <3>3. ASSUME NEW f \in File, Staged(f)' PROVE f < scan'
      <4>1. f # scan
        BY <2>1, <3>1, <3>3
      <4> QED
        BY <2>1, <3>2, <3>3, <4>1 DEF StagedInv
    <3> QED
      BY <2>1, <3>3 DEF StagedInv
  <2> QED
    BY <1>13, <2>2, <2>3, StatMoves
<1>14. CASE Crash \/ Exit
  <2>1. cursor' = offsets /\ readOffsets' = offsets /\ \A f \in File : offsets[f] \in Nat
    BY <1>14 DEF Crash, Exit, LoseMemory, AgentTypeOK
  <2> QED
    BY <2>1 DEF StagedInv, Staged
<1>15. CASE Writer \/ StartFails \/ SenderStep \/ UNCHANGED vars
  BY <1>2, <1>15 DEF Writer, AppendLine, Rotate, StartFails, SenderStep, vars, agentVars,
     tailerVars, ctlVars
<1> QED
  BY <1>5, <1>6, <1>7, <1>8, <1>9, <1>11, <1>12, <1>13, <1>14, <1>15
     DEF AgentNext, AgentStep, Poll, Flush, Stop

\* As DurabilityInv, for files that shrink too.
WrittenFirst ==
    /\ pc \in {"enforce", "commit"} => BatchLines \subseteq Stored
    /\ pendingBatch # NoBatch => pc = "commit"

LEMMA WrittenFirstStep ==
    ASSUME "save_fault" \notin Env, AgentTypeOK, CommitAccepted, WrittenFirst, [AgentNext]_vars
    PROVE  WrittenFirst'
<1>0. ASSUME UNCHANGED batch, Stored' = Stored,
             pc' \in {"enforce", "commit"} => BatchLines \subseteq Stored,
             pendingBatch' # NoBatch => pc' = "commit"
      PROVE  WrittenFirst'
  <2>1. BatchLines' = BatchLines
    BY <1>0 DEF BatchLines
  <2> QED
    BY <1>0, <2>1 DEF WrittenFirst
<1>1. ASSUME UNCHANGED storeVars PROVE Stored' = Stored
  BY <1>1 DEF storeVars, Stored, Names
<1>2. CASE Tick \/ SkipFile \/ ResetsDone \/ LinesDone \/ NotIdle \/ FlushBatch
           \/ WriteFails \/ Shutdown \/ DrainDone \/ Stat \/ Read \/ ReadFails
  <2>1. /\ UNCHANGED <<batch, storeVars, pendingBatch>>
        /\ pc \notin {"enforce", "commit"}
    BY <1>2 DEF Tick, SkipFile, ResetsDone, LinesDone, NotIdle, FlushBatch, WriteFails,
                Shutdown, DrainDone, Stat, Read, ReadFails, ReadTo, batchVars
  <2>2. pc' \notin {"enforce", "commit"}
    <3>1. CASE WriteFails
      BY <3>1, GiveUpType DEF WriteFails, Ret
    <3>2. CASE ~WriteFails
      BY <1>2, <3>2 DEF Tick, SkipFile, ResetsDone, LinesDone, NotIdle, FlushBatch,
                        Shutdown, DrainDone, Stat, Read, ReadFails, ReadTo, NextFile
    <3> QED
      BY <3>1, <3>2
  <2> QED
    BY <1>0, <1>1, <2>1, <2>2 DEF WrittenFirst
<1>3. CASE Writer \/ UNCHANGED vars
  <2>1. UNCHANGED <<batch, storeVars, pendingBatch, pc>>
    BY <1>3 DEF Writer, AppendLine, Rotate, vars, agentVars, batchVars, ctlVars
  <2> QED
    BY <1>0, <1>1, <2>1 DEF WrittenFirst
<1>4. CASE Start \/ StartFails \/ SenderStep
  <2>1. /\ UNCHANGED <<batch, pendingBatch>>
        /\ UNCHANGED pc \/ (pc = "down" /\ pc' = "stat")
    BY <1>4 DEF Start, StartFails, SenderStep, agentVars, batchVars, ctlVars
  <2>2. Stored' = Stored
    BY <1>4, RecoverKeeps, SenderKeeps DEF Start, StartFails, SenderStep, AgentTypeOK
  <2> QED
    BY <1>0, <2>1, <2>2 DEF WrittenFirst
<1>5. ASSUME NEW f, NEW lines, NEW end, NEW next \in {"resets", "lines", "idle", "drain"},
             pc \notin {"enforce", "commit"}, ProcessLine(f, lines, end, next)
      PROVE  WrittenFirst'
  BY <1>5 DEF ProcessLine, WrittenFirst
<1>6. ASSUME pc \notin {"enforce", "commit"}, UNCHANGED <<batch, pendingBatch, pc>>
      PROVE  WrittenFirst'
  BY <1>6 DEF WrittenFirst
<1>7. CASE DoReset \/ IdleRecord \/ Drain
  BY <1>5, <1>6, <1>7 DEF DoReset, IdleRecord, Drain, batchVars
<1>8. ASSUME NEW f \in File, AddLine(f) PROVE WrittenFirst'
  BY <1>5, <1>6, <1>8 DEF AddLine, batchVars
<1>9. CASE IdleDone \/ NothingToWrite
  <2>1. UNCHANGED <<batch, storeVars, pendingBatch>> /\ pc \in {"idle", "write"}
    BY <1>9 DEF IdleDone, NothingToWrite, batchVars
  <2>2. pendingBatch = NoBatch
    BY <2>1 DEF WrittenFirst
  <2>3. pc' \in {"enforce", "commit"} => batch = <<>>
    BY <1>9, <2>2 DEF IdleDone, NothingToWrite
  <2>4. batch = <<>> => BatchLines \subseteq Stored
    BY DEF BatchLines
  <2> QED
    BY <1>0, <1>1, <2>1, <2>2, <2>3, <2>4
<1>10. CASE WriteBatch
  <2>1. /\ UNCHANGED <<batch, pendingBatch>> /\ pendingBatch = NoBatch
        /\ Publish(BatchLines, Len(batch))
    BY <1>10 DEF WriteBatch, batchVars
  <2>2. batches \in Seq(Batch)
    BY DEF AgentTypeOK, StoreTypeOK
  <2>3. Stored' = Stored \cup BatchLines
    BY <2>1, <2>2, BatchLinesType, PublishAdds
  <2>4. BatchLines' = BatchLines
    BY <2>1 DEF BatchLines
  <2> QED
    BY <2>1, <2>3, <2>4 DEF WrittenFirst
<1>11. CASE Enforce
  <2>1. UNCHANGED batch /\ pc = "enforce" /\ pc' = "commit"
    BY <1>11 DEF Enforce
  <2>2. Stored' = Stored
    BY <1>11, EnforceKeeps DEF Enforce, AgentTypeOK
  <2> QED
    BY <1>0, <2>1, <2>2 DEF WrittenFirst
<1>12. CASE Commit
  <2>1. batch' = <<>> /\ pendingBatch' = NoBatch
    BY <1>12 DEF Commit
  <2>2. BatchLines' = {}
    BY <2>1 DEF BatchLines
  <2> QED
    BY <2>1, <2>2 DEF WrittenFirst
<1>13. ~CommitFails
  BY DEF CommitFails, CommitAccepted
<1>14. CASE Crash \/ Exit
  BY <1>14 DEF Crash, Exit, LoseMemory, WrittenFirst
<1> QED
  BY <1>2, <1>3, <1>4, <1>7, <1>8, <1>9, <1>10, <1>11, <1>12, <1>13, <1>14
     DEF AgentNext, AgentStep, Poll, Flush, Stop

\* A step accounts for what was in memory if it does for each part of it.
LEMMA HoldsParts ==
    ASSUME BatchLines \subseteq BatchLines' \cup Stored',
           \A f \in File : stack[f].lines \subseteq stack'[f].lines \cup BatchLines' \cup filtered',
           \A f \in File : StagedLines(f) \subseteq
                             StagedLines(f)' \cup stack'[f].lines \cup BatchLines' \cup filtered'
    PROVE  InMemory \subseteq InMemory' \cup Stored' \cup filtered'
<1>1. ASSUME NEW f \in File PROVE stack'[f].lines \cup StagedLines(f)' \subseteq InMemory'
  BY DEF InMemory
<1>2. BatchLines' \subseteq InMemory'
  BY DEF InMemory
<1>3. ASSUME NEW l \in InMemory
      PROVE  l \in BatchLines \/ \E f \in File : l \in stack[f].lines \cup StagedLines(f)
  BY DEF InMemory
<1> QED
  BY <1>1, <1>2, <1>3

LEMMA StagedSame ==
    ASSUME UNCHANGED <<readOffsets, readGen, cursor>>
    PROVE  \A f \in File : StagedLines(f)' = StagedLines(f)
BY DEF StagedLines

\* A completed record goes to the batch or to the filtered lines.
LEMMA HoldsRecord ==
    ASSUME AgentTypeOK, NEW f \in File, NEW end, NEW next,
           ProcessLine(f, stack[f].lines, end, next),
           \A g \in File \ {f} : stack'[g] = stack[g]
    PROVE  /\ BatchLines \subseteq BatchLines'
           /\ \A g \in File : stack[g].lines \subseteq
                                stack'[g].lines \cup BatchLines' \cup filtered'
<1>1. stack[f].lines \in SUBSET Line
  BY DEF AgentTypeOK
<1>2. BatchLines \subseteq BatchLines' /\ stack[f].lines \subseteq filtered' \cup BatchLines'
  BY <1>1, ProcessLineHolds
<1> QED
  BY <1>2

\* StackAssembler.Add: the line joins a record, opens one or is processed on
\* its own, and the record it completes is processed.
LEMMA HoldsAddLine ==
    ASSUME AgentTypeOK, NEW f \in File, AddLine(f)
    PROVE  InMemory \subseteq InMemory' \cup Stored' \cup filtered'
<1> DEFINE i == cursor[f] + 1
           line == <<f, readGen[f], i>>
<1>1. /\ UNCHANGED <<readOffsets, readGen, storeVars>>
      /\ cursor' = [cursor EXCEPT ![f] = i]
  BY DEF AddLine, tailerVars
<1>2. /\ cursor[f] \in Nat /\ readOffsets[f] \in Nat /\ cursor'[f] = i
      /\ \A g \in File \ {f} : cursor'[g] = cursor[g]
  BY <1>1 DEF AgentTypeOK
<1>3. StagedLines(f) \subseteq StagedLines(f)' \cup {line}
  <2>1. ASSUME NEW j \in cursor[f] + 1 .. readOffsets[f]
        PROVE  j = i \/ j \in cursor'[f] + 1 .. readOffsets'[f]
    BY <1>1, <1>2
  <2> QED
    BY <1>1, <2>1 DEF StagedLines
<1>4. \A g \in File \ {f} : StagedLines(g)' = StagedLines(g)
  BY <1>1, <1>2 DEF StagedLines
<1>5. line \in Line
  <2>1. f \in Nat /\ readGen[f] \in Nat /\ i \in Nat
    BY <1>2 DEF AgentTypeOK, File
  <2> QED
    BY <2>1 DEF Line
<1>6. /\ BatchLines \subseteq BatchLines'
      /\ \A g \in File : stack[g].lines \subseteq stack'[g].lines \cup BatchLines' \cup filtered'
      /\ line \in stack'[f].lines \cup BatchLines' \cup filtered'
  <2>1. CASE /\ stack' = [stack EXCEPT ![f] = [lines |-> stack[f].lines \cup {line}, end |-> i]]
             /\ UNCHANGED batchVars
    <3>1. /\ stack'[f].lines = stack[f].lines \cup {line}
          /\ \A g \in File \ {f} : stack'[g] = stack[g]
      BY <2>1 DEF AgentTypeOK
    <3>2. BatchLines' = BatchLines
      BY <2>1 DEF BatchLines, batchVars
    <3> QED
      BY <3>1, <3>2
  <2>2. CASE ProcessLine(f, {line}, i, "lines") /\ UNCHANGED stackVars
    <3>1. BatchLines \subseteq BatchLines' /\ {line} \subseteq filtered' \cup BatchLines'
      BY <1>5, <2>2, ProcessLineHolds
    <3> QED
      BY <2>2, <3>1 DEF stackVars
  <2>3. CASE /\ stack[f] = NoStack
             /\ stack' = [stack EXCEPT ![f] = [lines |-> {line}, end |-> i]]
             /\ UNCHANGED batchVars
    <3>1. /\ stack'[f].lines = {line} /\ stack[f].lines = {}
          /\ \A g \in File \ {f} : stack'[g] = stack[g]
      BY <2>3 DEF AgentTypeOK, NoStack
    <3>2. BatchLines' = BatchLines
      BY <2>3 DEF BatchLines, batchVars
    <3> QED
      BY <3>1, <3>2
  <2>4. CASE /\ ProcessLine(f, stack[f].lines, stack[f].end, "lines")
             /\ stack' = [stack EXCEPT ![f] = [lines |-> {line}, end |-> i]]
    <3>1. /\ stack'[f].lines = {line}
          /\ \A g \in File \ {f} : stack'[g] = stack[g]
      BY <2>4 DEF AgentTypeOK
    <3> QED
      BY <2>4, <3>1, HoldsRecord
  <2> QED
    BY <2>1, <2>2, <2>3, <2>4 DEF AddLine
<1> HIDE DEF i, line
<1>7. \A g \in File : StagedLines(g) \subseteq
                        StagedLines(g)' \cup stack'[g].lines \cup BatchLines' \cup filtered'
  BY <1>3, <1>4, <1>6
<1> QED
  BY <1>6, <1>7, HoldsParts

LEMMA HoldsStep ==
    ASSUME "save_fault" \notin Env, AgentTypeOK, StagedInv, CommitAccepted, WrittenFirst,
           [AgentNext]_vars, pc' # "down"
    PROVE  InMemory \subseteq InMemory' \cup Stored' \cup filtered'
<1>1. ASSUME UNCHANGED <<batch, stack, readOffsets, readGen, cursor>>
      PROVE  InMemory \subseteq InMemory' \cup Stored' \cup filtered'
  <2>1. BatchLines' = BatchLines
    BY <1>1 DEF BatchLines
  <2> QED
    BY <1>1, <2>1, StagedSame, HoldsParts
<1>2. ASSUME NEW f \in File, NEW end, NEW next,
             ProcessLine(f, stack[f].lines, end, next),
             stack' = [stack EXCEPT ![f] = NoStack],
             UNCHANGED <<readOffsets, readGen, cursor>>
      PROVE  InMemory \subseteq InMemory' \cup Stored' \cup filtered'
  <2>1. \A g \in File \ {f} : stack'[g] = stack[g]
    BY <1>2 DEF AgentTypeOK
  <2>2. /\ BatchLines \subseteq BatchLines'
        /\ \A g \in File : stack[g].lines \subseteq
                             stack'[g].lines \cup BatchLines' \cup filtered'
    BY <1>2, <2>1, HoldsRecord
  <2> QED
    BY <1>2, <2>2, StagedSame, HoldsParts
<1>3. CASE DoReset
  <2>1. PICK f \in File :
          \/ UNCHANGED <<stackVars, batch>>
          \/ ProcessLine(f, stack[f].lines, 0, "resets") /\ stack' = [stack EXCEPT ![f] = NoStack]
    BY <1>3 DEF DoReset, AgentTypeOK
  <2>2. UNCHANGED <<readOffsets, readGen, cursor>>
    BY <1>3 DEF DoReset, tailerVars
  <2> QED
    BY <1>1, <1>2, <2>1, <2>2 DEF stackVars
<1>4. CASE IdleRecord
  BY <1>2, <1>4 DEF IdleRecord, tailerVars
<1>5. CASE Drain
  <2>1. /\ scan \in File /\ UNCHANGED <<readOffsets, readGen, cursor>>
        /\ \/ UNCHANGED <<stackVars, batchVars>>
           \/ /\ ProcessLine(scan, stack[scan].lines, stack[scan].end, "drain")
              /\ stack' = [stack EXCEPT ![scan] = NoStack]
    BY <1>5 DEF Drain, tailerVars
  <2> QED
    BY <1>1, <1>2, <2>1 DEF stackVars, batchVars
<1>6. ASSUME NEW f \in File, AddLine(f)
      PROVE  InMemory \subseteq InMemory' \cup Stored' \cup filtered'
  BY <1>6, HoldsAddLine
<1>7. CASE Stat \/ Read \/ ReadFails
  <2>1. /\ scan \in File /\ pc \in {"stat", "read"} /\ UNCHANGED <<batch, stack>>
        /\ \A f \in File \ {scan} : /\ readOffsets'[f] = readOffsets[f]
                                    /\ readGen'[f] = readGen[f]
                                    /\ cursor'[f] = cursor[f]
    BY <1>7 DEF Stat, Read, ReadFails, ReadTo, AgentTypeOK, stackVars, batchVars
  <2>2. StagedLines(scan) = {}
    <3>1. scan \in Nat
      BY <2>1 DEF File
    <3>2. ~Staged(scan)
      BY <2>1, <3>1 DEF StagedInv
    <3> QED
      BY <2>1, <3>2, StagedType
  <2>3. \A f \in File \ {scan} : StagedLines(f)' = StagedLines(f)
    BY <2>1 DEF StagedLines
  <2>4. BatchLines' = BatchLines
    BY <2>1 DEF BatchLines
  <2>5. \A f \in File : StagedLines(f) \subseteq
                          StagedLines(f)' \cup stack'[f].lines \cup BatchLines' \cup filtered'
    BY <2>2, <2>3
  <2> QED
    BY <2>1, <2>4, <2>5, HoldsParts
<1>8. CASE Commit
  <2>1. /\ pc = "commit"
        /\ UNCHANGED <<storeVars, stack, readOffsets, readGen, cursor>>
    BY <1>8 DEF Commit, stackVars
  <2>2. Stored' = Stored
    BY <2>1 DEF storeVars, Stored, Names
  <2>3. BatchLines \subseteq Stored'
    BY <2>1, <2>2 DEF WrittenFirst
  <2> QED
    BY <2>1, <2>3, StagedSame, HoldsParts
<1>9. ~Crash /\ ~Exit /\ ~CommitFails
  BY DEF Crash, Exit, LoseMemory, CommitFails, CommitAccepted
<1> QED
  BY <1>1, <1>3, <1>4, <1>5, <1>6, <1>7, <1>8, <1>9
     DEF AgentNext, AgentStep, Poll, Flush, Stop, Writer, AppendLine, Rotate, Start, StartFails,
         SenderStep, Tick, SkipFile, ResetsDone, LinesDone, NotIdle, IdleDone, FlushBatch,
         NothingToWrite, WriteBatch, WriteFails, Enforce, Shutdown, DrainDone,
         vars, agentVars, tailerVars, stackVars, batchVars

\* flushBatch is never refused its offsets where no file rotates, where there
\* is one file, and where writes succeed too.
LEMMA AllCommitsAccepted ==
    ASSUME "save_fault" \notin Env,
           "rotate" \notin Env \/ NumFiles = 1 \/ "write_fault" \notin Env
    PROVE  AgentSpec => []CommitAccepted
BY CommitsAccepted, OneFileCommitsAccepted, UnfailingCommitsAccepted

\* When offsets can be saved, and files do not rotate, there is only one, or
\* batches can be written, no step of a running process drops a line it has staged, holds in an open
\* record or has in the batch, unless the line is filtered or on disk
\* (Agent.Poll, flushBatch, Flush, StackAssembler).
THEOREM NoLineDropped ==
    ASSUME "save_fault" \notin Env,
           "rotate" \notin Env \/ NumFiles = 1 \/ "write_fault" \notin Env
    PROVE  AgentSpec => NoLineForgotten
<1>1. AgentInit => StagedInv /\ WrittenFirst
  BY DEF AgentInit, StagedInv, Staged, WrittenFirst
<1>2. /\ AgentTypeOK /\ CommitAccepted /\ StagedInv /\ WrittenFirst
      /\ [AgentNext]_vars
      => (StagedInv /\ WrittenFirst)'
  BY StagedStep, WrittenFirstStep
<1>3. /\ AgentTypeOK /\ CommitAccepted /\ StagedInv /\ WrittenFirst
      /\ [AgentNext]_vars
      => [pc' # "down" => InMemory \subseteq InMemory' \cup Stored' \cup filtered']_vars
  BY HoldsStep
<1> QED
  BY <1>1, <1>2, <1>3, AgentTypeCorrect, AllCommitsAccepted, PTL
     DEF AgentSpec, NoLineForgotten

-----------------------------------------------------------------------------
(***************************************************************************)
(* Restarts when files shrink: a saved offset belongs to one generation of *)
(* its file, and the agent knows only the file's size.                     *)
(***************************************************************************)

\* The lines of the generation being read that are out of the assembler.
SafeIn(f) ==
    IF batchOffsets[f] # NoOffset THEN batchOffsets[f]
    ELSE IF savedGen[f] = readGen[f] THEN offsets[f] ELSE 0

\* The generation saved, the one read and the one on disk are in this order;
\* an offset of an older generation lies beyond what is there of the new one,
\* so that size < offset tells a restart, and a poll, that the file shrank.
ShrinkGens(f) ==
    /\ savedGen[f] <= readGen[f] /\ readGen[f] <= Gen(f)
    /\ readGen[f] = Gen(f) => readOffsets[f] <= Size(f)
    /\ savedGen[f] < Gen(f) => Size(f) < offsets[f] \/ offsets[f] = 0
    /\ savedGen[f] < readGen[f] => readOffsets[f] < offsets[f] \/ offsets[f] = 0
    /\ f \in resets => savedGen[f] < readGen[f] /\ cursor[f] = 0

\* New content that no poll has noticed is there only after a restart, when
\* nothing of the file is in memory.
ShrinkUnseen(f) ==
    readGen[f] < Gen(f) /\ Size(f) > 0 =>
        /\ f \notin resets /\ batchOffsets[f] = NoOffset /\ stack[f] = NoStack
        /\ cursor[f] = readOffsets[f] /\ readOffsets[f] = offsets[f]

ShrinkHeld(f) ==
    /\ savedGen[f] = readGen[f] => offsets[f] <= SafeIn(f)
    /\ SafeIn(f) <= cursor[f]
    /\ stack[f] # NoStack => stack[f].end = cursor[f]
    /\ \A i \in SafeIn(f) + 1 .. cursor[f] : <<f, readGen[f], i>> \in stack[f].lines
    /\ \A i \in 1 .. SafeIn(f) :
         <<f, readGen[f], i>> \in Stored \cup filtered \cup BatchLines

ShrinkSaved(f) ==
    \A i \in 1 .. offsets[f] : <<f, savedGen[f], i>> \in Stored \cup filtered

ShrinkOf(f) ==
    /\ ShrinkGens(f)
    /\ ShrinkUnseen(f)
    /\ f \notin resets => ShrinkHeld(f)
    /\ ShrinkSaved(f)

ShrinkInv == \A f \in File : ShrinkOf(f)

\* What is needed of the order of the steps of a poll: resets are handled
\* before lines are, and no commit comes before the reset of a file of which
\* the batch holds an offset.
OrderInv ==
    /\ \A f \in File : cursor[f] <= readOffsets[f]
    /\ pc \in {"lines", "idle", "drain"} => resets = {}
    /\ pc = "commit" => \A f \in resets : batchOffsets[f] = NoOffset

\* What the tailer knows of f does not change.
SameTail(f) ==
    /\ offsets'[f] = offsets[f] /\ savedGen'[f] = savedGen[f]
    /\ readOffsets'[f] = readOffsets[f] /\ readGen'[f] = readGen[f]

LinesStay ==
    Stored \subseteq Stored' /\ filtered \subseteq filtered' /\ BatchLines \subseteq BatchLines'

LEMMA ShrinkType ==
    ASSUME AgentTypeOK, NEW f \in File
    PROVE  /\ offsets[f] \in Nat /\ readOffsets[f] \in Nat /\ cursor[f] \in Nat
           /\ batchOffsets[f] \in Nat \cup {NoOffset} /\ Size(f) \in Nat /\ Gen(f) \in Nat
           /\ readGen[f] \in Nat /\ savedGen[f] \in Nat /\ SafeIn(f) \in Nat
           /\ stack[f].lines \in SUBSET Line /\ stack[f].end \in Nat
<1>1. /\ offsets[f] \in Nat /\ readOffsets[f] \in Nat /\ cursor[f] \in Nat
      /\ batchOffsets[f] \in Nat \cup {NoOffset} /\ Size(f) \in Nat
      /\ Gen(f) \in Nat /\ readGen[f] \in Nat
  BY PositionType, GenType
<1>2. savedGen[f] \in Nat /\ stack[f].lines \in SUBSET Line /\ stack[f].end \in Nat
  BY DEF AgentTypeOK
<1>3. SafeIn(f) \in Nat
  BY <1>1 DEF SafeIn
<1> QED
  BY <1>1, <1>2, <1>3

\* What a step that moves no saved offset leaves of ShrinkSaved.
LEMMA ShrinkSavedSame ==
    ASSUME NEW f, ShrinkSaved(f), SameTail(f), LinesStay
    PROVE  ShrinkSaved(f)'
BY DEF ShrinkSaved, SameTail, LinesStay

\* A step that moves nothing of f and loses no line.
LEMMA ShrinkSame ==
    ASSUME NEW f, ShrinkOf(f), content'[f] = content[f], SameTail(f), LinesStay,
           cursor'[f] = cursor[f], stack'[f] = stack[f],
           batchOffsets'[f] = batchOffsets[f], f \in resets' <=> f \in resets
    PROVE  ShrinkOf(f)'
<1>1. Gen(f)' = Gen(f) /\ Size(f)' = Size(f)
  BY DEF Gen, Size, Current
<1>2. SafeIn(f)' = SafeIn(f)
  BY DEF SafeIn, SameTail
<1>3. ShrinkGens(f)' /\ ShrinkUnseen(f)'
  BY <1>1 DEF ShrinkOf, ShrinkGens, ShrinkUnseen, SameTail
<1>4. ShrinkHeld(f) => ShrinkHeld(f)'
  BY <1>2 DEF ShrinkHeld, SameTail, LinesStay
<1> QED
  BY <1>3, <1>4, ShrinkSavedSame DEF ShrinkOf

\* A step of the assembler: what it holds of f changes, what the tailer
\* knows does not.
LEMMA ShrinkMoved ==
    ASSUME NEW f, ShrinkOf(f), content'[f] = content[f], SameTail(f), LinesStay,
           f \notin resets', ~(readGen[f] < Gen(f) /\ Size(f) > 0), ShrinkHeld(f)'
    PROVE  ShrinkOf(f)'
<1>1. Gen(f)' = Gen(f) /\ Size(f)' = Size(f)
  BY DEF Gen, Size, Current
<1>2. ShrinkGens(f)' /\ ShrinkUnseen(f)'
  BY <1>1 DEF ShrinkOf, ShrinkGens, ShrinkUnseen, SameTail
<1> QED
  BY <1>2, ShrinkSavedSame DEF ShrinkOf

\* A record that reaches from the safe offset to end is completed.
LEMMA ShrinkRecord ==
    ASSUME AgentTypeOK, NEW f \in File, NEW lines \in SUBSET Line, NEW end \in Nat, NEW next,
           ShrinkHeld(f), ProcessLine(f, lines, end, next), SameTail(f), Stored' = Stored,
           SafeIn(f) <= end, end <= cursor'[f],
           \A i \in SafeIn(f) + 1 .. end : <<f, readGen[f], i>> \in lines,
           stack'[f] # NoStack => stack'[f].end = cursor'[f],
           \A i \in end + 1 .. cursor'[f] : <<f, readGen[f], i>> \in stack'[f].lines
    PROVE  LinesStay /\ ShrinkHeld(f)'
<1>1. /\ filtered \subseteq filtered' /\ BatchLines \subseteq BatchLines'
      /\ lines \subseteq filtered' \cup BatchLines'
  BY ProcessLineHolds
<1>2. batchOffsets'[f] = end
  BY DEF ProcessLine, AgentTypeOK
<1>3. SafeIn(f)' = end
  BY <1>2 DEF SafeIn, NoOffset
<1>4. ASSUME NEW i \in 1 .. end
      PROVE  <<f, readGen[f], i>> \in Stored' \cup filtered' \cup BatchLines'
  <2>1. i \in 1 .. SafeIn(f) \/ i \in SafeIn(f) + 1 .. end
    BY ShrinkType
  <2> QED
    BY <1>1, <2>1 DEF ShrinkHeld
<1>5. savedGen[f] = readGen[f] => offsets[f] <= end
  BY ShrinkType DEF ShrinkHeld
<1> QED
  BY <1>1, <1>3, <1>4, <1>5 DEF ShrinkHeld, LinesStay, SameTail

LEMMA ShrinkAddLine ==
    ASSUME AgentTypeOK, OrderInv, NEW f \in File, ShrinkOf(f), AddLine(f)
    PROVE  ShrinkOf(f)'
<1> DEFINE i == cursor[f] + 1
           line == <<f, readGen[f], i>>
<1>1. /\ pc = "lines" /\ Staged(f) /\ cursor' = [cursor EXCEPT ![f] = i]
      /\ UNCHANGED <<storeVars, content, tailerVars, resets>>
  BY DEF AddLine
<1>2. resets = {} /\ resets' = {} /\ f \notin resets /\ f \notin resets'
  BY <1>1 DEF OrderInv
<1>3. SameTail(f) /\ content'[f] = content[f] /\ Stored' = Stored
  BY <1>1 DEF SameTail, tailerVars, storeVars, Stored, Names
<1>4. /\ cursor[f] \in Nat /\ SafeIn(f) \in Nat /\ readGen[f] \in Nat
      /\ stack[f].lines \in SUBSET Line /\ stack[f].end \in Nat /\ offsets[f] \in Nat
  BY ShrinkType
<1>5. i \in Nat /\ cursor'[f] = i
  BY <1>1, <1>4 DEF AgentTypeOK
<1>6. line \in Line
  BY <1>4, <1>5 DEF Line, File
<1>7. ~(readGen[f] < Gen(f) /\ Size(f) > 0)
  BY <1>1, <1>4 DEF ShrinkOf, ShrinkUnseen, Staged
<1>8. ShrinkHeld(f)
  BY <1>2 DEF ShrinkOf
<1>9. /\ SafeIn(f) <= cursor[f]
      /\ stack[f] # NoStack => stack[f].end = cursor[f]
      /\ \A j \in SafeIn(f) + 1 .. cursor[f] : <<f, readGen[f], j>> \in stack[f].lines
      /\ stack[f] = NoStack => SafeIn(f) = cursor[f]
  <2>1. /\ SafeIn(f) <= cursor[f] /\ (stack[f] # NoStack => stack[f].end = cursor[f])
        /\ \A j \in SafeIn(f) + 1 .. cursor[f] : <<f, readGen[f], j>> \in stack[f].lines
    BY <1>8 DEF ShrinkHeld
  <2>2. stack[f] = NoStack => SafeIn(f) = cursor[f]
    <3>1. ASSUME stack[f] = NoStack, SafeIn(f) # cursor[f] PROVE FALSE
      <4>1. cursor[f] \in SafeIn(f) + 1 .. cursor[f]
        BY <1>4, <2>1, <3>1
      <4>2. stack[f].lines = {}
        BY <3>1 DEF NoStack
      <4> QED
        BY <2>1, <4>1, <4>2
    <3> QED
      BY <3>1
  <2> QED
    BY <2>1, <2>2
<1>10. ASSUME NEW lines, stack' = [stack EXCEPT ![f] = [lines |-> lines, end |-> i]]
       PROVE  stack'[f].lines = lines /\ stack'[f].end = i
  <2>1. stack'[f] = [lines |-> lines, end |-> i]
    BY <1>10 DEF AgentTypeOK
  <2> QED
    BY <2>1
<1>11. ASSUME NEW lines, stack' = [stack EXCEPT ![f] = [lines |-> lines, end |-> i]],
              UNCHANGED batchVars,
              \A j \in SafeIn(f) + 1 .. i : <<f, readGen[f], j>> \in lines
       PROVE  ShrinkOf(f)'
  <2>1. stack'[f].lines = lines /\ stack'[f].end = i
    BY <1>10, <1>11
  <2>2. UNCHANGED <<batch, filtered, batchOffsets>>
    BY <1>11 DEF batchVars
  <2>3. LinesStay /\ BatchLines' = BatchLines
    BY <1>3, <2>2 DEF LinesStay, BatchLines
  <2>4. SafeIn(f)' = SafeIn(f)
    BY <1>3, <2>2 DEF SafeIn, SameTail
  <2>5. SafeIn(f) <= i
    BY <1>4, <1>9
  <2> HIDE DEF i, line
  <2>6. ShrinkHeld(f)'
    BY <1>3, <1>5, <1>8, <1>11, <2>1, <2>2, <2>3, <2>4, <2>5 DEF ShrinkHeld, SameTail
  <2> QED
    BY <1>2, <1>3, <1>7, <2>3, <2>6, ShrinkMoved
<1>12. CASE /\ stack[f] # NoStack
            /\ stack' = [stack EXCEPT ![f] = [lines |-> stack[f].lines \cup {line}, end |-> i]]
            /\ UNCHANGED batchVars
  <2>1. \A j \in SafeIn(f) + 1 .. i : <<f, readGen[f], j>> \in stack[f].lines \cup {line}
    <3> TAKE j \in SafeIn(f) + 1 .. i
    <3>1. j \in SafeIn(f) + 1 .. cursor[f] \/ j = i
      BY <1>4
    <3> QED
      BY <1>9, <3>1
  <2> HIDE DEF i, line
  <2> QED
    BY <1>11, <1>12, <2>1
<1>13. CASE /\ stack[f] = NoStack
            /\ stack' = [stack EXCEPT ![f] = [lines |-> {line}, end |-> i]]
            /\ UNCHANGED batchVars
  <2>1. \A j \in SafeIn(f) + 1 .. i : <<f, readGen[f], j>> \in {line}
    BY <1>4, <1>9, <1>13
  <2> HIDE DEF i, line
  <2> QED
    BY <1>11, <1>13, <2>1
<1>14. CASE /\ stack[f] = NoStack /\ ProcessLine(f, {line}, i, "lines") /\ UNCHANGED stackVars
  <2>1. \A j \in SafeIn(f) + 1 .. i : <<f, readGen[f], j>> \in {line}
    BY <1>4, <1>9, <1>14
  <2>2. stack'[f] = NoStack /\ SafeIn(f) <= i /\ i <= cursor'[f]
    BY <1>4, <1>5, <1>9, <1>14 DEF stackVars
  <2>3. \A j \in i + 1 .. cursor'[f] : <<f, readGen[f], j>> \in stack'[f].lines
    BY <1>4, <1>5
  <2>4. {line} \in SUBSET Line
    BY <1>6
  <2> HIDE DEF i, line
  <2>5. LinesStay /\ ShrinkHeld(f)'
    BY <1>3, <1>5, <1>8, <1>14, <2>1, <2>2, <2>3, <2>4, ShrinkRecord
  <2> QED
    BY <1>2, <1>3, <1>7, <2>5, ShrinkMoved
<1>15. CASE /\ stack[f] # NoStack /\ ProcessLine(f, stack[f].lines, stack[f].end, "lines")
            /\ stack' = [stack EXCEPT ![f] = [lines |-> {line}, end |-> i]]
  <2>1. stack[f].end = cursor[f] /\ SafeIn(f) <= stack[f].end /\ stack[f].end <= cursor'[f]
    BY <1>4, <1>5, <1>9, <1>15
  <2>2. \A j \in SafeIn(f) + 1 .. stack[f].end : <<f, readGen[f], j>> \in stack[f].lines
    BY <1>9, <2>1
  <2>3. \A j \in stack[f].end + 1 .. cursor'[f] : <<f, readGen[f], j>> \in {line}
    BY <1>4, <1>5, <2>1
  <2>4. stack'[f].end = cursor'[f] /\ stack'[f].lines = {line}
    BY <1>5, <1>10, <1>15
  <2> HIDE DEF i, line
  <2>5. LinesStay /\ ShrinkHeld(f)'
    BY <1>3, <1>4, <1>8, <1>15, <2>1, <2>2, <2>3, <2>4, ShrinkRecord
  <2> QED
    BY <1>2, <1>3, <1>7, <2>5, ShrinkMoved
<1> QED
  BY <1>12, <1>13, <1>14, <1>15 DEF AddLine

\* FlushIdle or Flush completes the open record of f.
LEMMA ShrinkComplete ==
    ASSUME AgentTypeOK, OrderInv, NEW f \in File, NEW next, ShrinkOf(f),
           pc \in {"idle", "drain"}, stack[f] # NoStack,
           ProcessLine(f, stack[f].lines, stack[f].end, next),
           stack' = [stack EXCEPT ![f] = NoStack],
           UNCHANGED <<storeVars, content, tailerVars, cursor, resets>>
    PROVE  ShrinkOf(f)'
<1>1. resets = {} /\ f \notin resets /\ f \notin resets'
  BY DEF OrderInv
<1>2. SameTail(f) /\ content'[f] = content[f] /\ Stored' = Stored /\ cursor'[f] = cursor[f]
  BY DEF SameTail, tailerVars, storeVars, Stored, Names
<1>3. ShrinkHeld(f) /\ ~(readGen[f] < Gen(f) /\ Size(f) > 0)
  BY <1>1 DEF ShrinkOf, ShrinkUnseen
<1>4. /\ stack[f].lines \in SUBSET Line /\ stack[f].end \in Nat /\ cursor[f] \in Nat
      /\ stack'[f] = NoStack
  BY ShrinkType DEF AgentTypeOK
<1>5. /\ stack[f].end = cursor[f] /\ SafeIn(f) <= stack[f].end
      /\ \A i \in SafeIn(f) + 1 .. stack[f].end : <<f, readGen[f], i>> \in stack[f].lines
  BY <1>3 DEF ShrinkHeld
<1>6. /\ stack[f].end <= cursor'[f]
      /\ \A i \in stack[f].end + 1 .. cursor'[f] : <<f, readGen[f], i>> \in stack'[f].lines
  BY <1>2, <1>4, <1>5
<1>7. LinesStay /\ ShrinkHeld(f)'
  BY <1>2, <1>3, <1>4, <1>5, <1>6, ShrinkRecord
<1> QED
  BY <1>1, <1>2, <1>3, <1>7, ShrinkMoved

\* A file is written to or rotates.
LEMMA AppendMoves ==
    ASSUME AgentTypeOK, NEW f \in File, AppendLine(f)
    PROVE  Gen(f)' = Gen(f) /\ Size(f)' = Size(f) + 1
<1>1. content \in [File -> Seq(Seq(Kind))] /\ content[f] \in Seq(Seq(Kind)) /\ content[f] # <<>>
  BY DEF AgentTypeOK
<1>2. Gen(f) \in 1 .. Len(content[f]) /\ content[f][Gen(f)] \in Seq(Kind)
  BY <1>1 DEF Gen
<1>3. PICK k \in Kind : content' = [content EXCEPT ![f][Gen(f)] = Append(@, k)]
  BY DEF AppendLine
<1>4. content'[f] = [content[f] EXCEPT ![Gen(f)] = Append(content[f][Gen(f)], k)]
  BY <1>1, <1>3
<1>5. Append(content[f][Gen(f)], k) \in Seq(Kind)
      /\ Len(Append(content[f][Gen(f)], k)) = Len(content[f][Gen(f)]) + 1
  BY <1>2, AppendProperties
<1>6. Len(content'[f]) = Len(content[f])
      /\ content'[f][Gen(f)] = Append(content[f][Gen(f)], k)
  BY <1>1, <1>2, <1>4, <1>5, ExceptSeq
<1> QED
  BY <1>5, <1>6 DEF Gen, Size, Current

LEMMA RotateMoves ==
    ASSUME AgentTypeOK, NEW f \in File, Rotate(f)
    PROVE  Gen(f)' = Gen(f) + 1 /\ Size(f)' = 0
<1>1. content[f] \in Seq(Seq(Kind)) /\ <<>> \in Seq(Kind)
  BY DEF AgentTypeOK
<1>2. content'[f] = Append(content[f], <<>>)
  BY DEF Rotate, AgentTypeOK
<1>3. /\ Len(Append(content[f], <<>>)) = Len(content[f]) + 1
      /\ Append(content[f], <<>>)[Len(content[f]) + 1] = <<>>
  BY <1>1, AppendProperties
<1> QED
  BY <1>2, <1>3 DEF Gen, Size, Current

LEMMA ShrinkWriter ==
    ASSUME "regrow" \notin Env, "regrow_unseen" \notin Env,
           AgentTypeOK, NEW f \in File, ShrinkOf(f), AppendLine(f) \/ Rotate(f)
    PROVE  ShrinkOf(f)'
<1>1. /\ UNCHANGED <<offsets, savedGen, readOffsets, readGen, cursor, stack, batch,
                     batchOffsets, filtered, resets, batches>>
  BY DEF AppendLine, Rotate, storeVars, tailerVars, stackVars, batchVars
<1>2. SameTail(f) /\ LinesStay /\ BatchLines' = BatchLines /\ Stored' = Stored
  BY <1>1 DEF SameTail, LinesStay, BatchLines, Stored, Names
<1>3. SafeIn(f)' = SafeIn(f)
  BY <1>1 DEF SafeIn
<1>4. ShrinkHeld(f) => ShrinkHeld(f)'
  BY <1>1, <1>2, <1>3 DEF ShrinkHeld
<1>5. ShrinkSaved(f)'
  BY <1>2, ShrinkSavedSame DEF ShrinkOf
<1>6. /\ offsets[f] \in Nat /\ readOffsets[f] \in Nat /\ Size(f) \in Nat /\ Gen(f) \in Nat
      /\ readGen[f] \in Nat /\ savedGen[f] \in Nat
  BY ShrinkType
<1>7. CASE AppendLine(f)
  <2>1. Gen(f)' = Gen(f) /\ Size(f)' = Size(f) + 1
    BY <1>7, AppendMoves
  <2>2. /\ readGen[f] = Gen(f)
        /\ savedGen[f] = Gen(f) \/ Size(f) + 1 < offsets[f] \/ offsets[f] = 0
    BY <1>7 DEF AppendLine, MayGrow
  <2>3. ShrinkGens(f)' /\ ShrinkUnseen(f)'
    BY <1>1, <1>6, <2>1, <2>2 DEF ShrinkOf, ShrinkGens, ShrinkUnseen
  <2> QED
    BY <1>1, <1>4, <1>5, <2>3 DEF ShrinkOf
<1>8. CASE Rotate(f)
  <2>1. Gen(f)' = Gen(f) + 1 /\ Size(f)' = 0
    BY <1>8, RotateMoves
  <2>2. ShrinkGens(f)' /\ ShrinkUnseen(f)'
    BY <1>1, <1>6, <2>1 DEF ShrinkOf, ShrinkGens, ShrinkUnseen
  <2> QED
    BY <1>1, <1>4, <1>5, <2>2 DEF ShrinkOf
<1> QED
  BY <1>7, <1>8

\* ReadNewLines finds the file shorter than what was read of it.
LEMMA ShrinkStat ==
    ASSUME AgentTypeOK, NEW f \in File, ShrinkOf(f), Size(f) < readOffsets[f],
           readOffsets'[f] = 0, cursor'[f] = 0, readGen'[f] = Gen(f), f \in resets',
           UNCHANGED <<content, offsets, savedGen, stack, batch, batchOffsets, filtered, batches>>
    PROVE  ShrinkOf(f)'
<1>1. Gen(f)' = Gen(f) /\ Size(f)' = Size(f)
  BY DEF Gen, Size, Current
<1>2. /\ offsets[f] \in Nat /\ readOffsets[f] \in Nat /\ Size(f) \in Nat /\ Gen(f) \in Nat
      /\ readGen[f] \in Nat /\ savedGen[f] \in Nat
  BY ShrinkType
<1>3. savedGen[f] < Gen(f)
  BY <1>2 DEF ShrinkOf, ShrinkGens
<1>4. ShrinkGens(f)' /\ ShrinkUnseen(f)'
  BY <1>1, <1>2, <1>3 DEF ShrinkOf, ShrinkGens, ShrinkUnseen
<1>5. ShrinkSaved(f)'
  BY DEF ShrinkOf, ShrinkSaved, Stored, Names
<1> QED
  BY <1>4, <1>5 DEF ShrinkOf

\* ReadNewLines reads on.  New content that it had not noticed is read from
\* its start, for otherwise it would be shorter than what was read.
LEMMA ShrinkRead ==
    ASSUME AgentTypeOK, OrderInv, NEW f \in File, ShrinkOf(f),
           NEW p \in readOffsets[f] .. Size(f), readOffsets'[f] = p, readGen'[f] = Gen(f),
           UNCHANGED <<content, offsets, savedGen, cursor, stack, batch, batchOffsets, filtered,
                       batches, resets>>
    PROVE  ShrinkOf(f)'
<1>1. Gen(f)' = Gen(f) /\ Size(f)' = Size(f)
  BY DEF Gen, Size, Current
<1>2. /\ offsets[f] \in Nat /\ readOffsets[f] \in Nat /\ Size(f) \in Nat /\ Gen(f) \in Nat
      /\ readGen[f] \in Nat /\ savedGen[f] \in Nat /\ cursor[f] \in Nat /\ SafeIn(f) \in Nat
  BY ShrinkType
<1>3. p \in Nat /\ p <= Size(f) /\ readOffsets[f] <= p
  BY <1>2
<1>4. readGen[f] <= Gen(f) /\ savedGen[f] <= readGen[f]
  BY DEF ShrinkOf, ShrinkGens
<1>5. ShrinkGens(f)' /\ ShrinkUnseen(f)'
  BY <1>1, <1>2, <1>3, <1>4 DEF ShrinkOf, ShrinkGens, ShrinkUnseen
<1>6. ShrinkSaved(f)'
  BY DEF ShrinkOf, ShrinkSaved, Stored, Names
<1>7. BatchLines' = BatchLines /\ Stored' = Stored
  BY DEF BatchLines, Stored, Names
<1>8. ASSUME f \notin resets PROVE ShrinkHeld(f)'
  <2>1. ShrinkHeld(f)
    BY <1>8 DEF ShrinkOf
  <2>2. CASE readGen[f] = Gen(f)
    <3>1. SafeIn(f)' = SafeIn(f)
      BY <2>2 DEF SafeIn
    <3> QED
      BY <1>7, <2>1, <2>2, <3>1 DEF ShrinkHeld
  <2>3. CASE readGen[f] # Gen(f)
    <3>1. readGen[f] < Gen(f) /\ savedGen[f] < Gen(f)
      BY <1>2, <1>4, <2>3
    <3>2. readOffsets[f] = 0
      BY <1>2, <1>3, <3>1 DEF ShrinkOf, ShrinkGens, ShrinkUnseen
    <3>3. cursor[f] = 0
      BY <1>2, <3>2 DEF OrderInv
    <3>4. SafeIn(f) = 0
      BY <1>2, <2>1, <3>3 DEF ShrinkHeld
    <3>5. SafeIn(f)' = 0
      BY <1>2, <3>1, <3>4 DEF SafeIn
    <3>6. savedGen'[f] # readGen'[f]
      BY <1>2, <3>1
    <3> QED
      BY <2>1, <3>3, <3>5, <3>6 DEF ShrinkHeld
  <2> QED
    BY <2>2, <2>3
<1> QED
  BY <1>5, <1>6, <1>8 DEF ShrinkOf

\* Poll handles the reset of f: the new content is safe up to its start.
LEMMA ShrinkReset ==
    ASSUME AgentTypeOK, NEW f \in File, ShrinkOf(f), f \in resets, f \notin resets',
           batchOffsets'[f] = 0, stack'[f] = NoStack, LinesStay, content'[f] = content[f],
           cursor'[f] = cursor[f], SameTail(f)
    PROVE  ShrinkOf(f)'
<1>1. /\ savedGen[f] < readGen[f] /\ cursor[f] = 0
      /\ ~(readGen[f] < Gen(f) /\ Size(f) > 0)
  BY DEF ShrinkOf, ShrinkGens, ShrinkUnseen
<1>2. SafeIn(f)' = 0
  BY DEF SafeIn, NoOffset
<1>3. savedGen[f] \in Nat /\ readGen[f] \in Nat
  BY ShrinkType
<1>4. ShrinkHeld(f)'
  BY <1>1, <1>2, <1>3 DEF ShrinkHeld, SameTail
<1> QED
  BY <1>1, <1>4, ShrinkMoved

\* The saved offset moves to the safe one, in the generation being read.
LEMMA ShrinkCommit ==
    ASSUME AgentTypeOK, OrderInv, WrittenFirst, NEW f \in File, ShrinkOf(f), Commit
    PROVE  ShrinkOf(f)'
<1>1. /\ pc = "commit" /\ batchOffsets'[f] = NoOffset /\ offsets'[f] = Candidate(f)
      /\ savedGen'[f] = IF batchOffsets[f] = NoOffset THEN savedGen[f] ELSE readGen[f]
      /\ UNCHANGED <<content, readOffsets, readGen, cursor, stack, filtered, resets, batches>>
      /\ batch' = <<>>
  BY DEF Commit, storeVars, stackVars
<1>2. /\ f \in resets => batchOffsets[f] = NoOffset
      /\ BatchLines \subseteq Stored
  BY <1>1 DEF OrderInv, WrittenFirst
<1>3. Stored' = Stored /\ Gen(f)' = Gen(f) /\ Size(f)' = Size(f)
  BY <1>1 DEF Stored, Names, Gen, Size, Current
<1>4. /\ offsets[f] \in Nat /\ readOffsets[f] \in Nat /\ Size(f) \in Nat /\ Gen(f) \in Nat
      /\ readGen[f] \in Nat /\ savedGen[f] \in Nat /\ cursor[f] \in Nat /\ SafeIn(f) \in Nat
      /\ batchOffsets[f] \in Nat \cup {NoOffset}
  BY ShrinkType
<1>5. (f \notin resets => ShrinkHeld(f)) /\ cursor[f] <= readOffsets[f]
  BY DEF ShrinkOf, OrderInv
<1>6. CASE batchOffsets[f] = NoOffset
  <2>1. offsets'[f] = offsets[f] /\ savedGen'[f] = savedGen[f]
    BY <1>1, <1>6 DEF Candidate
  <2>2. SafeIn(f)' = SafeIn(f)
    BY <1>1, <1>6, <2>1 DEF SafeIn
  <2>3. ShrinkGens(f)' /\ ShrinkUnseen(f)' /\ ShrinkSaved(f)'
    BY <1>1, <1>3, <2>1 DEF ShrinkOf, ShrinkGens, ShrinkUnseen, ShrinkSaved
  <2>4. f \notin resets => ShrinkHeld(f)'
    BY <1>1, <1>2, <1>3, <1>5, <2>1, <2>2 DEF ShrinkHeld
  <2> QED
    BY <1>1, <2>3, <2>4 DEF ShrinkOf
<1>7. CASE batchOffsets[f] # NoOffset
  <2>1. /\ SafeIn(f) = batchOffsets[f] /\ savedGen'[f] = readGen[f] /\ batchOffsets[f] \in Nat
    BY <1>1, <1>4, <1>7 DEF SafeIn
  <2>0. f \notin resets /\ f \notin resets' /\ ShrinkHeld(f)
    BY <1>1, <1>2, <1>5, <1>7
  <2>2. /\ savedGen[f] <= readGen[f] /\ readGen[f] <= Gen(f)
        /\ batchOffsets[f] <= cursor[f]
        /\ savedGen[f] = readGen[f] => offsets[f] <= batchOffsets[f]
        /\ savedGen[f] < readGen[f] => readOffsets[f] < offsets[f] \/ offsets[f] = 0
        /\ readGen[f] = Gen(f) => readOffsets[f] <= Size(f)
        /\ ~(readGen[f] < Gen(f) /\ Size(f) > 0)
    BY <1>7, <2>0, <2>1 DEF ShrinkOf, ShrinkGens, ShrinkUnseen, ShrinkHeld
  <2>3. offsets'[f] = batchOffsets[f]
    BY <1>1, <1>4, <1>5, <1>7, <2>1, <2>2 DEF Candidate
  <2>4. SafeIn(f)' = batchOffsets[f]
    BY <1>1, <2>1, <2>3 DEF SafeIn
  <2>5. ShrinkGens(f)' /\ ShrinkUnseen(f)'
    BY <1>1, <1>3, <1>4, <2>0, <2>1, <2>2, <2>3 DEF ShrinkGens, ShrinkUnseen
  <2>6. ShrinkSaved(f)'
    BY <1>1, <1>2, <1>3, <2>0, <2>1, <2>3 DEF ShrinkSaved, ShrinkHeld
  <2>7. ShrinkHeld(f)'
    BY <1>1, <1>2, <1>3, <1>4, <2>0, <2>1, <2>3, <2>4 DEF ShrinkHeld
  <2> QED
    BY <2>5, <2>6, <2>7 DEF ShrinkOf
<1> QED
  BY <1>6, <1>7

LEMMA ShrinkLoseMemory ==
    ASSUME AgentTypeOK, OrderInv, NEW f \in File, ShrinkOf(f), LoseMemory, Stored' = Stored
    PROVE  ShrinkOf(f)'
<1>1. /\ readOffsets'[f] = offsets[f] /\ cursor'[f] = offsets[f] /\ readGen'[f] = savedGen[f]
      /\ stack'[f] = NoStack /\ batchOffsets'[f] = NoOffset /\ f \notin resets'
      /\ UNCHANGED <<content, offsets, savedGen, filtered>>
  BY DEF LoseMemory
<1>2. Gen(f)' = Gen(f) /\ Size(f)' = Size(f) /\ SafeIn(f)' = offsets[f]
  BY <1>1 DEF Gen, Size, Current, SafeIn
<1>3. /\ offsets[f] \in Nat /\ Size(f) \in Nat /\ Gen(f) \in Nat
      /\ readGen[f] \in Nat /\ savedGen[f] \in Nat
  BY ShrinkType
<1>4. savedGen[f] = Gen(f) => offsets[f] <= Size(f)
  <2>1. ASSUME savedGen[f] = Gen(f) PROVE offsets[f] <= Size(f)
    <3>1. readGen[f] = Gen(f) /\ f \notin resets /\ readOffsets[f] <= Size(f)
      BY <1>3, <2>1 DEF ShrinkOf, ShrinkGens
    <3>2. offsets[f] <= SafeIn(f) /\ SafeIn(f) <= cursor[f] /\ cursor[f] <= readOffsets[f]
      BY <2>1, <3>1 DEF ShrinkOf, ShrinkHeld, OrderInv
    <3> QED
      BY <3>1, <3>2, ShrinkType
  <2> QED
    BY <2>1
<1>5. ShrinkGens(f)' /\ ShrinkUnseen(f)'
  BY <1>1, <1>2, <1>3, <1>4 DEF ShrinkOf, ShrinkGens, ShrinkUnseen
<1>6. ShrinkSaved(f)'
  BY <1>1 DEF ShrinkOf, ShrinkSaved
<1>7. ShrinkHeld(f)'
  BY <1>1, <1>2, <1>3 DEF ShrinkOf, ShrinkSaved, ShrinkHeld
<1> QED
  BY <1>5, <1>6, <1>7 DEF ShrinkOf

\* A step that moves no file but f.
LEMMA ShrinkOthers ==
    ASSUME ShrinkInv, NEW f \in File, ShrinkOf(f)', LinesStay,
           \A g \in File \ {f} :
               /\ content'[g] = content[g] /\ SameTail(g) /\ cursor'[g] = cursor[g]
               /\ stack'[g] = stack[g] /\ batchOffsets'[g] = batchOffsets[g]
               /\ g \in resets' <=> g \in resets
    PROVE  ShrinkInv'
<1> SUFFICES ASSUME NEW g \in File PROVE ShrinkOf(g)'
  BY DEF ShrinkInv
<1>1. CASE g = f
  BY <1>1
<1>2. CASE g # f
  BY <1>2, ShrinkSame DEF ShrinkInv
<1> QED
  BY <1>1, <1>2

LEMMA ShrinkStep ==
    ASSUME "regrow" \notin Env, "regrow_unseen" \notin Env, "save_fault" \notin Env,
           AgentTypeOK, CommitAccepted, OrderInv, WrittenFirst, ShrinkInv, [AgentNext]_vars
    PROVE  ShrinkInv'
<1>1. ASSUME UNCHANGED storeVars PROVE Stored' = Stored
  BY <1>1 DEF storeVars, Stored, Names
<1>2. ASSUME UNCHANGED <<content, tailerVars, cursor, stack, batchOffsets, resets, batch, filtered>>,
             Stored \subseteq Stored'
      PROVE  ShrinkInv'
  <2>1. LinesStay /\ \A f \in File : SameTail(f)
    BY <1>2 DEF SameTail, tailerVars, LinesStay, BatchLines
  <2> QED
    BY <1>2, <2>1, ShrinkSame DEF ShrinkInv
<1>3. CASE Tick \/ SkipFile \/ ResetsDone \/ LinesDone \/ NotIdle \/ IdleDone \/ FlushBatch
           \/ NothingToWrite \/ WriteFails \/ Shutdown \/ DrainDone \/ UNCHANGED vars
  <2>1. UNCHANGED <<content, tailerVars, cursor, stack, batchOffsets, resets, batch, filtered,
                    storeVars>>
    BY <1>3 DEF Tick, SkipFile, ResetsDone, LinesDone, NotIdle, IdleDone, FlushBatch,
       NothingToWrite, WriteFails, Shutdown, DrainDone, vars, agentVars, batchVars, stackVars
  <2> QED
    BY <1>1, <1>2, <2>1
<1>4. CASE Start \/ StartFails \/ SenderStep \/ Enforce
  <2>1. UNCHANGED <<content, tailerVars, cursor, stack, batchOffsets, resets, batch, filtered>>
    BY <1>4 DEF Start, StartFails, SenderStep, Enforce, agentVars, batchVars, stackVars
  <2>2. Stored' = Stored
    BY <1>4, RecoverKeeps, SenderKeeps, EnforceKeeps
       DEF Start, StartFails, SenderStep, Enforce, AgentTypeOK
  <2> QED
    BY <1>2, <2>1, <2>2
<1>5. CASE WriteBatch
  <2>1. /\ UNCHANGED <<content, tailerVars, cursor, stack, batchOffsets, resets, batch, filtered>>
        /\ Publish(BatchLines, Len(batch))
    BY <1>5 DEF WriteBatch, batchVars, stackVars
  <2>2. batches \in Seq(Batch)
    BY DEF AgentTypeOK, StoreTypeOK
  <2>3. Stored \subseteq Stored'
    BY <2>1, <2>2, BatchLinesType, PublishAdds
  <2> QED
    BY <1>2, <2>1, <2>3
<1>6. CASE Writer
  <2>1. PICK f \in File : AppendLine(f) \/ Rotate(f)
    BY <1>6 DEF Writer
  <2>2. ShrinkOf(f)'
    BY <2>1, ShrinkWriter DEF ShrinkInv
  <2>3. UNCHANGED <<storeVars, tailerVars, cursor, stack, batchOffsets, resets, batch, filtered>>
    BY <2>1 DEF AppendLine, Rotate, batchVars, stackVars
  <2>4. LinesStay /\ \A g \in File : SameTail(g)
    BY <1>1, <2>3 DEF LinesStay, SameTail, tailerVars, BatchLines
  <2>5. \A g \in File \ {f} : content'[g] = content[g]
    BY <2>1 DEF AppendLine, Rotate, AgentTypeOK
  <2> QED
    BY <2>2, <2>3, <2>4, <2>5, ShrinkOthers
<1>7. CASE Stat
  <2>1. UNCHANGED <<content, offsets, savedGen, stack, batch, batchOffsets, filtered, batches>>
    BY <1>7 DEF Stat, storeVars, batchVars, stackVars
  <2>2. CASE UNCHANGED <<readOffsets, cursor, readGen, resets>>
    <3>1. UNCHANGED tailerVars /\ Stored' = Stored
      BY <2>1, <2>2 DEF tailerVars, Stored, Names
    <3> QED
      BY <1>2, <2>1, <2>2, <3>1
  <2>3. ASSUME NEW f \in File, Size(f) < readOffsets[f],
               readOffsets' = [readOffsets EXCEPT ![f] = 0],
               cursor' = [cursor EXCEPT ![f] = 0],
               readGen' = [readGen EXCEPT ![f] = Gen(f)],
               resets' = resets \cup {f}
        PROVE  ShrinkInv'
    <3>1. /\ readOffsets'[f] = 0 /\ cursor'[f] = 0
          /\ readGen'[f] = Gen(f) /\ f \in resets'
      BY <2>3 DEF AgentTypeOK
    <3>2. ShrinkOf(f)'
      BY <2>1, <2>3, <3>1, ShrinkStat DEF ShrinkInv
    <3>3. \A g \in File \ {f} : /\ SameTail(g) /\ cursor'[g] = cursor[g]
                                /\ g \in resets' <=> g \in resets
                                /\ content'[g] = content[g] /\ stack'[g] = stack[g]
                                /\ batchOffsets'[g] = batchOffsets[g]
      BY <2>1, <2>3 DEF SameTail, AgentTypeOK
    <3>4. LinesStay
      BY <2>1 DEF LinesStay, Stored, Names, BatchLines
    <3> QED
      BY <2>3, <3>2, <3>3, <3>4, ShrinkOthers
  <2> QED
    BY <1>7, <2>2, <2>3, StatMoves
<1>8. CASE Read \/ ReadFails
  <2>1. UNCHANGED <<content, offsets, savedGen, cursor, stack, batch, batchOffsets, filtered,
                    batches, resets>>
    BY <1>8 DEF Read, ReadFails, ReadTo, storeVars, batchVars, stackVars
  <2>2. CASE UNCHANGED <<readOffsets, readGen>>
    <3>1. UNCHANGED tailerVars /\ Stored' = Stored
      BY <2>1, <2>2 DEF tailerVars, Stored, Names
    <3> QED
      BY <1>2, <2>1, <3>1
  <2>3. ASSUME NEW f \in File, NEW p \in readOffsets[f] .. Size(f),
               readOffsets' = [readOffsets EXCEPT ![f] = p],
               readGen' = [readGen EXCEPT ![f] = Gen(f)]
        PROVE  ShrinkInv'
    <3>1. readOffsets'[f] = p /\ readGen'[f] = Gen(f)
      BY <2>3 DEF AgentTypeOK
    <3>2. ShrinkOf(f)'
      BY <2>1, <2>3, <3>1, ShrinkRead DEF ShrinkInv
    <3>3. \A g \in File \ {f} : SameTail(g)
      BY <2>1, <2>3 DEF SameTail, AgentTypeOK
    <3>4. LinesStay
      BY <2>1 DEF LinesStay, Stored, Names, BatchLines
    <3> QED
      BY <2>1, <2>3, <3>2, <3>3, <3>4, ShrinkOthers
  <2> QED
    BY <1>8, <2>2, <2>3, ReadMoves
<1>9. CASE DoReset
  <2>1. PICK f \in resets :
          /\ resets' = resets \ {f}
          /\ \/ /\ stack[f] = NoStack
                /\ batchOffsets' = [batchOffsets EXCEPT ![f] = 0]
                /\ UNCHANGED <<stackVars, batch, filtered>>
             \/ /\ ProcessLine(f, stack[f].lines, 0, "resets")
                /\ stack' = [stack EXCEPT ![f] = NoStack]
    BY <1>9 DEF DoReset
  <2>2. f \in File /\ f \notin resets' /\ \A g \in File \ {f} : g \in resets' <=> g \in resets
    BY <2>1 DEF AgentTypeOK
  <2>3. UNCHANGED <<storeVars, content, tailerVars, cursor>>
    BY <1>9 DEF DoReset
  <2>4. Stored' = Stored /\ \A g \in File : SameTail(g)
    BY <1>1, <2>3 DEF SameTail, tailerVars
  <2>5. /\ batchOffsets'[f] = 0 /\ stack'[f] = NoStack
        /\ \A g \in File \ {f} : batchOffsets'[g] = batchOffsets[g] /\ stack'[g] = stack[g]
    BY <2>1, <2>2 DEF AgentTypeOK, stackVars, ProcessLine
  <2>6. LinesStay
    <3>1. CASE UNCHANGED <<batch, filtered>>
      BY <2>4, <3>1 DEF LinesStay, BatchLines
    <3>2. CASE ProcessLine(f, stack[f].lines, 0, "resets")
      <4>1. stack[f].lines \in SUBSET Line
        BY <2>2, ShrinkType
      <4> QED
        BY <2>4, <3>2, <4>1, ProcessLineHolds DEF LinesStay
    <3> QED
      BY <2>1, <3>1, <3>2
  <2>7. ShrinkOf(f)'
    BY <2>1, <2>2, <2>3, <2>4, <2>5, <2>6, ShrinkReset DEF ShrinkInv
  <2> QED
    BY <2>2, <2>3, <2>4, <2>5, <2>6, <2>7, ShrinkOthers
<1>10. ASSUME NEW f \in File, AddLine(f) PROVE ShrinkInv'
  <2>1. ShrinkOf(f)'
    BY <1>10, ShrinkAddLine DEF ShrinkInv
  <2>2. /\ UNCHANGED <<storeVars, content, tailerVars, resets>>
        /\ cursor' = [cursor EXCEPT ![f] = cursor[f] + 1]
    BY <1>10 DEF AddLine
  <2>3. Stored' = Stored /\ \A g \in File : SameTail(g)
    BY <1>1, <2>2 DEF SameTail, tailerVars
  <2>4. /\ UNCHANGED <<batchOffsets, batch, filtered>>
           \/ \E lines \in SUBSET Line : \E end : ProcessLine(f, lines, end, "lines")
        /\ UNCHANGED stack \/ \E r : stack' = [stack EXCEPT ![f] = r]
    <3>1. stack[f].lines \in SUBSET Line /\ {<<f, readGen[f], cursor[f] + 1>>} \in SUBSET Line
      BY ShrinkType DEF Line, File
    <3> QED
      BY <1>10, <3>1, Zenon DEF AddLine, batchVars, stackVars
  <2>5. LinesStay
    <3>1. CASE UNCHANGED <<batch, filtered>>
      BY <2>3, <3>1 DEF LinesStay, BatchLines
    <3>2. ASSUME NEW lines \in SUBSET Line, NEW end, ProcessLine(f, lines, end, "lines")
          PROVE  LinesStay
      BY <2>3, <3>2, ProcessLineHolds DEF LinesStay
    <3> QED
      BY <2>4, <3>1, <3>2
  <2>6. \A g \in File \ {f} : /\ batchOffsets'[g] = batchOffsets[g] /\ stack'[g] = stack[g]
                               /\ cursor'[g] = cursor[g]
    BY <2>2, <2>4 DEF AgentTypeOK, ProcessLine
  <2> QED
    BY <2>1, <2>2, <2>3, <2>5, <2>6, ShrinkOthers
<1>11. ASSUME NEW f \in File, NEW next, pc \in {"idle", "drain"}, stack[f] # NoStack,
              ProcessLine(f, stack[f].lines, stack[f].end, next),
              stack' = [stack EXCEPT ![f] = NoStack],
              UNCHANGED <<storeVars, content, tailerVars, cursor, resets>>
       PROVE  ShrinkInv'
  <2>1. ShrinkOf(f)'
    BY <1>11, ShrinkComplete DEF ShrinkInv
  <2>2. Stored' = Stored /\ \A g \in File : SameTail(g)
    BY <1>1, <1>11 DEF SameTail, tailerVars
  <2>3. stack[f].lines \in SUBSET Line
    BY ShrinkType
  <2>4. LinesStay
    BY <1>11, <2>2, <2>3, ProcessLineHolds DEF LinesStay
  <2>5. \A g \in File \ {f} : batchOffsets'[g] = batchOffsets[g] /\ stack'[g] = stack[g]
    BY <1>11 DEF AgentTypeOK, ProcessLine
  <2> QED
    BY <1>11, <2>1, <2>2, <2>4, <2>5, ShrinkOthers
<1>12. CASE IdleRecord
  BY <1>11, <1>12 DEF IdleRecord
<1>13. CASE Drain
  <2>1. /\ scan \in File /\ pc = "drain"
        /\ UNCHANGED <<storeVars, content, tailerVars, cursor, resets>>
    BY <1>13 DEF Drain
  <2>2. CASE stack[scan] = NoStack
    <3>1. UNCHANGED <<stack, batchOffsets, batch, filtered>>
      BY <1>13, <2>2 DEF Drain, stackVars, batchVars
    <3> QED
      BY <1>1, <1>2, <2>1, <3>1
  <2>3. CASE stack[scan] # NoStack
    BY <1>11, <1>13, <2>1, <2>3 DEF Drain
  <2> QED
    BY <2>2, <2>3
<1>14. CASE Commit
  BY <1>14, ShrinkCommit DEF ShrinkInv
<1>15. ~CommitFails
  BY DEF CommitFails, CommitAccepted
<1>16. CASE Crash \/ Exit
  <2>1. LoseMemory /\ batches' = batches
    BY <1>16 DEF Crash, Exit, storeVars
  <2>2. Stored' = Stored
    BY <2>1 DEF Stored, Names
  <2> QED
    BY <2>1, <2>2, ShrinkLoseMemory DEF ShrinkInv
<1> QED
  BY <1>3, <1>4, <1>5, <1>6, <1>7, <1>8, <1>9, <1>10, <1>12, <1>13, <1>14, <1>15, <1>16
     DEF AgentNext, AgentStep, Poll, Flush, Stop

LEMMA ShrinkInit ==
    ASSUME AgentInit
    PROVE  ShrinkInv
<1> SUFFICES ASSUME NEW f \in File PROVE ShrinkOf(f)
  BY DEF ShrinkInv
<1>1. /\ offsets[f] = 0 /\ readOffsets[f] = 0 /\ readGen[f] = 1 /\ savedGen[f] = 1
      /\ cursor[f] = 0 /\ stack[f] = NoStack /\ batchOffsets[f] = NoOffset /\ resets = {}
      /\ content[f] = << <<>> >>
  BY DEF AgentInit
<1>2. Gen(f) = 1 /\ Size(f) = 0 /\ SafeIn(f) = 0
  BY <1>1 DEF Gen, Size, Current, SafeIn
<1> QED
  BY <1>1, <1>2 DEF ShrinkOf, ShrinkGens, ShrinkUnseen, ShrinkHeld, ShrinkSaved

\* Each of the two conditions under which commits are accepted gives the
\* order that a commit needs.
LEMMA OrderHolds ==
    ASSUME "save_fault" \notin Env, NumFiles = 1 \/ "write_fault" \notin Env
    PROVE  AgentSpec => []OrderInv
<1>1. CASE NumFiles = 1
  <2>1. AgentInit => AcceptInv
    BY DEF AgentInit, AcceptInv, NoOffset
  <2>2. AgentTypeOK /\ AcceptInv /\ [AgentNext]_vars => AcceptInv'
    BY <1>1, AcceptStep
  <2>3. AcceptInv => OrderInv
    BY DEF AcceptInv, OrderInv
  <2> QED
    BY <2>1, <2>2, <2>3, AgentTypeCorrect, PTL DEF AgentSpec
<1>2. CASE "write_fault" \notin Env
  <2>1. AgentInit => QuietInv
    BY DEF AgentInit, QuietInv, AcceptOf, NoOffset
  <2>2. AgentTypeOK /\ QuietInv /\ [AgentNext]_vars => QuietInv'
    BY <1>2, QuietStep
  <2>3. QuietInv => OrderInv
    BY DEF QuietInv, OrderInv
  <2> QED
    BY <2>1, <2>2, <2>3, AgentTypeCorrect, PTL DEF AgentSpec
<1> QED
  BY <1>1, <1>2

\* Log files that are rotated or truncated, at any moment and again and
\* again: where offsets.json can be written, new content does not outgrow
\* the saved offset before that is replaced (Tailer.CommitOffsets), and there
\* is one file or batches can be written, a restart skips only lines that
\* are in a batch or were filtered.  It never starts in the middle of new
\* content because of an offset into the old.
THEOREM ShrunkFilesSkipOnlyStored ==
    ASSUME "save_fault" \notin Env, "regrow" \notin Env, "regrow_unseen" \notin Env,
           NumFiles = 1 \/ "write_fault" \notin Env
    PROVE  AgentSpec => []SkipsOnlyStored
<1>1. AgentInit => WrittenFirst /\ ShrinkInv
  BY ShrinkInit DEF AgentInit, WrittenFirst
<1>2. AgentTypeOK /\ CommitAccepted /\ WrittenFirst /\ [AgentNext]_vars => WrittenFirst'
  BY WrittenFirstStep
<1>3. /\ AgentTypeOK /\ CommitAccepted /\ OrderInv /\ WrittenFirst /\ ShrinkInv
      /\ [AgentNext]_vars
      => ShrinkInv'
  BY ShrinkStep
<1>4. AgentTypeOK /\ ShrinkInv => SkipsOnlyStored
  <2> SUFFICES ASSUME AgentTypeOK, ShrinkInv, NEW f \in File, Size(f) >= offsets[f],
                      NEW i \in 1 .. offsets[f]
               PROVE  <<f, Gen(f), i>> \in Stored \cup filtered
    BY DEF SkipsOnlyStored
  <2>1. /\ offsets[f] \in Nat /\ Size(f) \in Nat /\ offsets[f] > 0
        /\ savedGen[f] \in Nat /\ readGen[f] \in Nat /\ Gen(f) \in Nat
    BY ShrinkType
  <2>2. savedGen[f] = Gen(f)
    BY <2>1 DEF ShrinkInv, ShrinkOf, ShrinkGens
  <2> QED
    BY <2>2 DEF ShrinkInv, ShrinkOf, ShrinkSaved
<1>5. AgentSpec => []CommitAccepted
  BY AllCommitsAccepted
<1> QED
  BY <1>1, <1>2, <1>3, <1>4, <1>5, AgentTypeCorrect, OrderHolds, PTL DEF AgentSpec
=============================================================================
