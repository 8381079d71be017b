------------------------------- MODULE Agent --------------------------------
(***************************************************************************)
(* The collecting half of the CentiLog agent (cmd/agent/agent.go,          *)
(* tailer.go, main.go): watched files grow and are rotated; the polling    *)
(* loop reads their new lines, joins stack traces, filters, collects       *)
(* records into a batch, writes the batch to the disk buffer and only then *)
(* saves the file offsets from which a restart resumes.                    *)
(*                                                                         *)
(* The unit of an offset is the line.  A line is <<file, generation, i>>;  *)
(* a rotation or truncation starts a new generation.  What the sender does *)
(* to the buffer meanwhile is BatchStore's SenderStoreStep.                *)
(***************************************************************************)
EXTENDS BatchStore

CONSTANTS
    NumFiles,     \* watched files, in the order of the configuration
    BatchSize,    \* config.BatchSize
    MaxLines,     \* bound: lines per generation of a file
    MaxGens,      \* bound: generations of a file
    MaxRestarts   \* bound: crashes and shutdowns

ASSUME AgentAssumption ==
    /\ NumFiles \in Nat \ {0}
    /\ BatchSize \in Nat \ {0}
    /\ MaxLines \in Nat
    /\ MaxGens \in Nat \ {0}
    /\ MaxRestarts \in Nat

File == 1 .. NumFiles
Kind == {"head", "cont"}    \* isStackContinuation: a record's first line or not
NoOffset == -1              \* no entry in agent.batchOffsets
NoBatch == 0                \* agent.pendingBatch = ""

VARIABLES
    content,        \* content[f][g]: the kinds of the lines of generation g
    offsets,        \* tailer.offsets, equal to the saved offsets.json
    readOffsets,    \* tailer.readOffsets
    readGen,        \* the generation readOffsets was read in
    cursor,         \* the last line of f that Poll has handed to the assembler
    stack,          \* assembler.pending: the lines of the open record, its end
    fresh,          \* files whose open record was updated in this poll
    batch,          \* agent.batch, a sequence of records (sets of lines)
    batchOffsets,   \* agent.batchOffsets
    pendingBatch,   \* agent.pendingBatch
    resets,         \* resetPaths of this poll that are still to be handled
    filtered,       \* history: lines dropped by level or by sampling
    savedGen,       \* history: the generation offsets was saved for
    pc,             \* where the polling loop is
    ret,            \* where flushBatch returns to
    scan,           \* the file a loop over config.Files is at
    restarts

tailerVars == <<offsets, readOffsets, readGen, savedGen>>
stackVars  == <<stack, fresh>>
batchVars  == <<batch, batchOffsets, pendingBatch, filtered>>
ctlVars    == <<pc, ret, scan>>
agentVars  == <<content, tailerVars, cursor, stackVars, batchVars, resets,
                ctlVars, restarts>>
vars       == <<storeVars, agentVars>>

PC == {"down", "wait", "stat", "read", "resets", "lines", "idle",
       "flush", "write", "enforce", "commit", "drain", "exit"}
Ret == {"wait", "resets", "lines", "idle", "flush", "drain", "exit"}

AgentTypeOK ==
    /\ StoreTypeOK
    /\ content \in [File -> Seq(Seq(Kind))]
    /\ \A f \in File : content[f] # <<>>
    /\ offsets \in [File -> Nat]
    /\ readOffsets \in [File -> Nat]
    /\ readGen \in [File -> Nat \ {0}]
    /\ cursor \in [File -> Nat]
    /\ stack \in [File -> [lines : SUBSET Line, end : Nat]]
    /\ fresh \subseteq File
    /\ batch \in Seq(SUBSET Line)
    /\ batchOffsets \in [File -> Nat \cup {NoOffset}]
    /\ pendingBatch \in Nat
    /\ resets \subseteq File
    /\ filtered \subseteq Line
    /\ savedGen \in [File -> Nat \ {0}]
    /\ pc \in PC
    /\ ret \in Ret
    /\ scan \in 1 .. NumFiles + 1
    /\ pc \in {"stat", "read"} => scan \in File
    /\ restarts \in 0 .. MaxRestarts

Gen(f) == Len(content[f])
Current(f) == content[f][Gen(f)]
Size(f) == Len(Current(f))

NoStack == [lines |-> {}, end |-> 0]
BatchLines == UNION {batch[i] : i \in DOMAIN batch}
Stored == UNION {batches[n].lines : n \in Names}

-----------------------------------------------------------------------------
(***************************************************************************)
(* The process starts down, with an empty buffer and no saved offsets.     *)
(***************************************************************************)
AgentInit ==
    /\ StoreInit
    /\ content = [f \in File |-> << <<>> >>]
    /\ offsets = [f \in File |-> 0]
    /\ readOffsets = [f \in File |-> 0]
    /\ readGen = [f \in File |-> 1]
    /\ savedGen = [f \in File |-> 1]
    /\ cursor = [f \in File |-> 0]
    /\ stack = [f \in File |-> NoStack]
    /\ fresh = {}
    /\ batch = <<>>
    /\ batchOffsets = [f \in File |-> NoOffset]
    /\ pendingBatch = NoBatch
    /\ resets = {}
    /\ filtered = {}
    /\ pc = "down"
    /\ ret = "wait"
    /\ scan = 1
    /\ restarts = 0

\* The memory of the process is gone; what it will hold after the restart
\* comes from the saved offsets.
LoseMemory ==
    /\ readOffsets' = offsets
    /\ cursor' = offsets
    /\ readGen' = savedGen
    /\ stack' = [f \in File |-> NoStack]
    /\ fresh' = {}
    /\ batch' = <<>>
    /\ batchOffsets' = [f \in File |-> NoOffset]
    /\ pendingBatch' = NoBatch
    /\ resets' = {}
    /\ pc' = "down"
    /\ ret' = "wait"
    /\ scan' = 1
    /\ UNCHANGED <<content, offsets, savedGen, filtered>>

Crash ==
    /\ "crash" \in Env
    /\ pc # "down"
    /\ restarts < MaxRestarts
    /\ restarts' = restarts + 1
    /\ LoseMemory
    /\ mu' = Free
    /\ UNCHANGED batches

\* NewAgent, then runAgent's first processAvailable.
Start ==
    /\ pc = "down"
    /\ RecoverClaims
    /\ pc' = "stat"
    /\ scan' = 1
    /\ UNCHANGED <<content, tailerVars, cursor, stackVars, batchVars, resets,
                   ret, restarts>>

StartFails ==
    /\ pc = "down"
    /\ RecoverFails
    /\ UNCHANGED agentVars

-----------------------------------------------------------------------------
(***************************************************************************)
(* The applications that write the watched files, and log rotation.        *)
(* Unless "regrow_unseen" is in Env, a rotated file stays empty until a    *)
(* poll has noticed; unless "regrow" is, it then stays shorter than the    *)
(* saved offset until a new one is saved.                                  *)
(***************************************************************************)
MayGrow(f) ==
    \/ "regrow_unseen" \in Env
    \/ /\ readGen[f] = Gen(f)
       /\ \/ "regrow" \in Env
          \/ savedGen[f] = Gen(f) \/ Size(f) + 1 < offsets[f] \/ offsets[f] = 0

AppendLine(f) ==
    /\ Size(f) < MaxLines
    /\ MayGrow(f)
    /\ \E k \in Kind :
         content' = [content EXCEPT ![f][Gen(f)] = Append(@, k)]
    /\ UNCHANGED <<storeVars, tailerVars, cursor, stackVars, batchVars, resets,
                   ctlVars, restarts>>

Rotate(f) ==
    /\ "rotate" \in Env
    /\ Gen(f) < MaxGens
    /\ Size(f) > 0
    /\ content' = [content EXCEPT ![f] = Append(@, <<>>)]
    /\ UNCHANGED <<storeVars, tailerVars, cursor, stackVars, batchVars, resets,
                   ctlVars, restarts>>

-----------------------------------------------------------------------------
(***************************************************************************)
(* ReadNewLines: for each file open and stat it, compare its size with the *)
(* position read so far, then read to the end.                             *)
(***************************************************************************)

\* Mutant: a poll refreshes updatedAt of the records that are open.
TickTouches ==
    /\ pc = "wait"
    /\ pc' = "stat"
    /\ scan' = 1
    /\ fresh' = {f \in File : stack[f] # NoStack}
    /\ UNCHANGED <<storeVars, content, tailerVars, cursor, stack, batchVars,
                   resets, ret, restarts>>

Tick ==
    /\ pc = "wait"
    /\ pc' = "stat"
    /\ scan' = 1
    /\ fresh' = {}
    /\ UNCHANGED <<storeVars, content, tailerVars, cursor, stack, batchVars,
                   resets, ret, restarts>>

\* Mutant: the loop over tailer.files runs once too often.
NextFilePastEnd ==
    IF scan <= NumFiles
    THEN pc' = "stat" /\ scan' = scan + 1
    ELSE pc' = "resets" /\ UNCHANGED scan

NextFile ==
    IF scan < NumFiles
    THEN pc' = "stat" /\ scan' = scan + 1
    ELSE pc' = "resets" /\ UNCHANGED scan

Stat ==
    /\ pc = "stat"
    /\ LET f == scan
       IN  IF Size(f) < readOffsets[f]
           THEN /\ readOffsets' = [readOffsets EXCEPT ![f] = 0]
                /\ cursor' = [cursor EXCEPT ![f] = 0]
                /\ readGen' = [readGen EXCEPT ![f] = Gen(f)]
                /\ resets' = resets \cup {f}
           ELSE UNCHANGED <<readOffsets, cursor, readGen, resets>>
    /\ pc' = "read"
    /\ UNCHANGED <<storeVars, content, offsets, savedGen, stackVars, batchVars,
                   ret, scan, restarts>>

\* The file is missing, or cannot be opened or inspected.
SkipFile ==
    /\ pc = "stat"
    /\ "read_fault" \in Env
    /\ NextFile
    /\ UNCHANGED <<storeVars, content, tailerVars, cursor, stackVars, batchVars,
                   resets, ret, restarts>>

\* Reads the lines up to p, all there are unless the read fails; a seek
\* beyond the end reads nothing.
ReadTo(f, p) ==
    /\ readOffsets' = [readOffsets EXCEPT ![f] = p]
    /\ readGen' = [readGen EXCEPT ![f] = IF Size(f) < readOffsets[f] THEN @ ELSE Gen(f)]
    /\ NextFile
    /\ UNCHANGED <<storeVars, content, offsets, savedGen, cursor, stackVars,
                   batchVars, resets, ret, restarts>>

Read ==
    /\ pc = "read"
    /\ LET f == scan
       IN  ReadTo(f, IF Size(f) < readOffsets[f] THEN readOffsets[f] ELSE Size(f))

ReadFails ==
    /\ pc = "read"
    /\ "read_fault" \in Env
    /\ \E p \in readOffsets[scan] .. Size(scan) - 1 : ReadTo(scan, p)

-----------------------------------------------------------------------------
(***************************************************************************)
(* processLine: the offset of the record becomes the batch's offset for    *)
(* the file whether the record is kept or filtered; a full batch is        *)
(* flushed before the caller's loop, at next, goes on.                     *)
(***************************************************************************)
ProcessLine(f, lines, end, next) ==
    /\ batchOffsets' = [batchOffsets EXCEPT ![f] = end]
    /\ UNCHANGED pendingBatch
    /\ \/ /\ "filter" \in Env
          /\ filtered' = filtered \cup lines
          /\ pc' = next
          /\ UNCHANGED <<batch, ret>>
       \/ /\ batch' = Append(batch, lines)
          /\ UNCHANGED filtered
          /\ IF Len(batch) + 1 < BatchSize
             THEN pc' = next /\ UNCHANGED ret
             ELSE pc' = "write" /\ ret' = next

\* Mutant: the batch keeps the offset it had for the old content.
DoResetKeepsOffset ==
    /\ pc = "resets"
    /\ \E f \in resets : resets' = resets \ {f}
    /\ UNCHANGED <<storeVars, content, tailerVars, cursor, stackVars, batchVars,
                   pc, ret, scan, restarts>>

\* Mutant: the open record is thrown away.
DoResetDropsRecord ==
    /\ pc = "resets"
    /\ \E f \in resets :
         /\ resets' = resets \ {f}
         /\ batchOffsets' = [batchOffsets EXCEPT ![f] = 0]
         /\ stack' = [stack EXCEPT ![f] = NoStack]
         /\ fresh' = fresh \ {f}
    /\ UNCHANGED <<storeVars, content, tailerVars, cursor, batch, pendingBatch,
                   filtered, pc, ret, scan, restarts>>

\* A file that shrank: its open record is complete, and is committed at
\* offset 0 of the new content.
DoReset ==
    /\ pc = "resets"
    /\ \E f \in resets :
         /\ \A g \in resets : f <= g
         /\ resets' = resets \ {f}
         /\ IF stack[f] = NoStack
            THEN /\ batchOffsets' = [batchOffsets EXCEPT ![f] = 0]
                 /\ UNCHANGED <<stackVars, batch, pendingBatch, filtered, pc, ret>>
            ELSE /\ ProcessLine(f, stack[f].lines, 0, "resets")
                 /\ stack' = [stack EXCEPT ![f] = NoStack]
                 /\ fresh' = fresh \ {f}
    /\ UNCHANGED <<storeVars, content, tailerVars, cursor, scan, restarts>>

ResetsDone ==
    /\ pc = "resets"
    /\ resets = {}
    /\ pc' = "lines"
    /\ UNCHANGED <<storeVars, content, tailerVars, cursor, stackVars, batchVars,
                   resets, ret, scan, restarts>>

Staged(f) == cursor[f] < readOffsets[f]

\* StackAssembler.Add on the next line of the poll: a continuation joins the
\* open record of its file, a first line completes it and opens another.
AddLine(f) ==
    LET i    == cursor[f] + 1
        line == <<f, readGen[f], i>>
        kind == content[f][readGen[f]][i]
        Open(lines) == /\ stack' = [stack EXCEPT ![f] = [lines |-> lines, end |-> i]]
                       /\ fresh' = fresh \cup {f}
    IN  /\ pc = "lines"
        /\ Staged(f)
        /\ \A g \in File : Staged(g) => f <= g
        /\ cursor' = [cursor EXCEPT ![f] = i]
        /\ \/ /\ kind = "cont"
              /\ stack[f] # NoStack
              /\ Open(stack[f].lines \cup {line})
              /\ UNCHANGED <<batchVars, pc, ret>>
           \/ /\ kind = "cont"
              /\ stack[f] = NoStack
              /\ ProcessLine(f, {line}, i, "lines")
              /\ UNCHANGED stackVars
           \/ /\ kind = "head"
              /\ stack[f] = NoStack
              /\ Open({line})
              /\ UNCHANGED <<batchVars, pc, ret>>
           \/ /\ kind = "head"
              /\ stack[f] # NoStack
              /\ ProcessLine(f, stack[f].lines, stack[f].end, "lines")
              /\ Open({line})
        /\ UNCHANGED <<storeVars, content, tailerVars, resets, scan, restarts>>

LinesDone ==
    /\ pc = "lines"
    /\ \A f \in File : ~Staged(f)
    /\ pc' = "idle"
    /\ scan' = 1
    /\ UNCHANGED <<storeVars, content, tailerVars, cursor, stackVars, batchVars,
                   resets, ret, restarts>>

\* FlushIdle: an open record that no line has joined for a flush interval,
\* hence not one updated by this poll, is complete.
IdleRecord ==
    /\ pc = "idle"
    /\ scan \in File
    /\ stack[scan] # NoStack
    /\ scan \notin fresh
    /\ stack' = [stack EXCEPT ![scan] = NoStack]
    /\ ProcessLine(scan, stack[scan].lines, stack[scan].end, "idle")
    /\ scan' = scan + 1
    /\ UNCHANGED <<storeVars, content, tailerVars, cursor, fresh, resets, restarts>>

NotIdle ==
    /\ pc = "idle"
    /\ scan \in File
    /\ scan' = scan + 1
    /\ UNCHANGED <<storeVars, content, tailerVars, cursor, stackVars, batchVars,
                   resets, pc, ret, restarts>>

\* The end of Poll, which commits the offsets of filtered records when there
\* is nothing to write, and then processAvailable's FlushBatch.
IdleDone ==
    /\ pc = "idle"
    /\ scan \notin File
    /\ IF batch = <<>>
       THEN pc' = "commit" /\ ret' = "flush"
       ELSE pc' = "flush" /\ UNCHANGED ret
    /\ UNCHANGED <<storeVars, content, tailerVars, cursor, stackVars, batchVars,
                   resets, scan, restarts>>

FlushBatch ==
    /\ pc = "flush"
    /\ pc' = "write"
    /\ ret' = "wait"
    /\ UNCHANGED <<storeVars, content, tailerVars, cursor, stackVars, batchVars,
                   resets, scan, restarts>>

-----------------------------------------------------------------------------
(***************************************************************************)
(* flushBatch: write the batch unless it is empty or already written, then *)
(* commit the offsets, then forget the batch.  An error makes Poll go on   *)
(* and Flush, the shutdown, give up.                                       *)
(***************************************************************************)
GiveUp == pc' = IF ret = "drain" THEN "exit" ELSE ret

NothingToWrite ==
    /\ pc = "write"
    /\ batch = <<>> \/ pendingBatch # NoBatch
    /\ pc' = "commit"
    /\ UNCHANGED <<storeVars, content, tailerVars, cursor, stackVars, batchVars,
                   resets, ret, scan, restarts>>

WriteBatch ==
    /\ pc = "write"
    /\ batch # <<>> /\ pendingBatch = NoBatch
    /\ Publish(BatchLines, Len(batch))
    /\ pc' = "enforce"
    /\ UNCHANGED <<content, tailerVars, cursor, stackVars, batchVars, resets,
                   ret, scan, restarts>>

WriteFails ==
    /\ pc = "write"
    /\ "write_fault" \in Env
    /\ batch # <<>> /\ pendingBatch = NoBatch
    /\ mu = Free
    /\ GiveUp
    /\ UNCHANGED <<storeVars, content, tailerVars, cursor, stackVars, batchVars,
                   resets, ret, scan, restarts>>

Enforce ==
    /\ pc = "enforce"
    /\ EnforceLimit("agent")
    /\ pendingBatch' = Len(batches)
    /\ pc' = "commit"
    /\ UNCHANGED <<content, tailerVars, cursor, stackVars, batch, batchOffsets,
                   filtered, resets, ret, scan, restarts>>

\* Tailer.CommitOffsets refuses an offset beyond what was read, and lowers a
\* saved offset only while the file has been read less far than that.
ValidOffsets == \A f \in File : batchOffsets[f] <= readOffsets[f]

\* Mutant: a saved offset is never lowered.
CandidateNeverLower(f) ==
    IF batchOffsets[f] <= offsets[f] THEN offsets[f] ELSE batchOffsets[f]

Candidate(f) ==
    IF \/ batchOffsets[f] = NoOffset
       \/ readOffsets[f] >= offsets[f] /\ batchOffsets[f] <= offsets[f]
    THEN offsets[f]
    ELSE batchOffsets[f]

Commit ==
    /\ pc = "commit"
    /\ ValidOffsets
    /\ offsets' = [f \in File |-> Candidate(f)]
    /\ savedGen' = [f \in File |-> IF batchOffsets[f] = NoOffset
                                   THEN savedGen[f] ELSE readGen[f]]
    /\ batchOffsets' = [f \in File |-> NoOffset]
    /\ batch' = <<>>
    /\ pendingBatch' = NoBatch
    /\ pc' = ret
    /\ UNCHANGED <<storeVars, content, readOffsets, readGen, cursor, stackVars,
                   filtered, resets, ret, scan, restarts>>

\* Mutant: a batch whose offsets could not be saved counts as unwritten.
CommitFailsForgets ==
    /\ pc = "commit"
    /\ \/ ~ValidOffsets
       \/ /\ "save_fault" \in Env
          /\ \E f \in File : batchOffsets[f] # NoOffset
    /\ GiveUp
    /\ pendingBatch' = NoBatch
    /\ UNCHANGED <<storeVars, content, tailerVars, cursor, stackVars, batch,
                   batchOffsets, filtered, resets, ret, scan, restarts>>

CommitFails ==
    /\ pc = "commit"
    /\ \/ ~ValidOffsets
       \/ /\ "save_fault" \in Env
          /\ \E f \in File : batchOffsets[f] # NoOffset
    /\ GiveUp
    /\ UNCHANGED <<storeVars, content, tailerVars, cursor, stackVars, batchVars,
                   resets, ret, scan, restarts>>

-----------------------------------------------------------------------------
(***************************************************************************)
(* Shutdown: runAgent sees ctx.Done between polls, Flush completes every   *)
(* open record and writes the batch, and the process ends.                 *)
(***************************************************************************)
Shutdown ==
    /\ "stop" \in Env
    /\ pc = "wait"
    /\ restarts < MaxRestarts
    /\ restarts' = restarts + 1
    /\ pc' = "drain"
    /\ scan' = 1
    /\ UNCHANGED <<storeVars, content, tailerVars, cursor, stackVars, batchVars,
                   resets, ret>>

Drain ==
    /\ pc = "drain"
    /\ scan \in File
    /\ scan' = scan + 1
    /\ IF stack[scan] = NoStack
       THEN UNCHANGED <<stackVars, batchVars, pc, ret>>
       ELSE /\ ProcessLine(scan, stack[scan].lines, stack[scan].end, "drain")
            /\ stack' = [stack EXCEPT ![scan] = NoStack]
            /\ fresh' = fresh \ {scan}
    /\ UNCHANGED <<storeVars, content, tailerVars, cursor, resets, restarts>>

DrainDone ==
    /\ pc = "drain"
    /\ scan \notin File
    /\ pc' = "write"
    /\ ret' = "exit"
    /\ UNCHANGED <<storeVars, content, tailerVars, cursor, stackVars, batchVars,
                   resets, scan, restarts>>

Exit ==
    /\ pc = "exit"
    /\ mu = Free
    /\ LoseMemory
    /\ UNCHANGED <<storeVars, restarts>>

-----------------------------------------------------------------------------
Writer == \E f \in File : AppendLine(f) \/ Rotate(f)

Poll ==
    \/ Tick \/ Stat \/ SkipFile \/ Read \/ ReadFails
    \/ DoReset \/ ResetsDone \/ LinesDone
    \/ \E f \in File : AddLine(f)
    \/ IdleRecord \/ NotIdle \/ IdleDone

Flush ==
    \/ FlushBatch \/ NothingToWrite \/ WriteBatch \/ WriteFails \/ Enforce
    \/ Commit \/ CommitFails

Stop == Shutdown \/ Drain \/ DrainDone \/ Exit

AgentStep == Start \/ StartFails \/ Poll \/ Flush \/ Stop

Taken == InState("sending") \cup InState("deleted") \cup InState("failed")

\* The sender goroutine, as far as the buffer is concerned; "send_one" bounds
\* it to one batch.
SenderStep ==
    /\ pc # "down"
    /\ SenderStoreStep
    /\ \/ "send" \in Env
       \/ "send_one" \in Env /\ Cardinality(Taken') <= 1
    /\ UNCHANGED agentVars

AgentNext == Writer \/ AgentStep \/ Crash \/ SenderStep

AgentSpec == AgentInit /\ [][AgentNext]_vars

-----------------------------------------------------------------------------
(***************************************************************************)
(* Properties.                                                             *)
(***************************************************************************)

\* "Gzip batches are written to the agent's disk buffer before offsets are
\* committed": a restart now would resume after lines that are all in a
\* batch (delivered, buffered, quarantined or evicted) or were filtered.
\* A file shorter than its saved offset is read again from its start.
SkipsOnlyStored ==
    \A f \in File :
        Size(f) >= offsets[f] =>
            \A i \in 1 .. offsets[f] :
                <<f, Gen(f), i>> \in Stored \cup filtered

\* "restarts from the beginning if a file shrinks": once the agent has saved
\* an offset for the new content of a file, that offset too lies behind only
\* lines that are stored or filtered.
RestartsAfterShrink ==
    \A f \in File :
        savedGen[f] = Gen(f) /\ Size(f) >= offsets[f] =>
            \A i \in 1 .. offsets[f] :
                <<f, Gen(f), i>> \in Stored \cup filtered

StagedLines(f) == {<<f, readGen[f], i>> : i \in cursor[f] + 1 .. readOffsets[f]}

\* Lines the process holds: staged by ReadNewLines, in an open record, or in
\* the batch.
InMemory ==
    BatchLines \cup UNION {stack[f].lines \cup StagedLines(f) : f \in File}

\* No step of a running process forgets a line it holds unless the line is
\* filtered or in a batch on disk: not a full batch, a failed write, a
\* failed commit, a rotation, or a shutdown whose flush goes wrong (which
\* exits with the lines unread as far as the saved offsets are concerned).
NoLineForgotten ==
    [][pc' # "down" => InMemory \subseteq InMemory' \cup Stored' \cup filtered']_vars

\* flushBatch never asks CommitOffsets for an offset it refuses.
CommitAccepted == pc = "commit" => ValidOffsets

\* A process writes no line to the buffer twice: what was written stays
\* written when the commit that follows it fails and is tried again, when
\* a write fails, and when files shrink.
WrittenOnce ==
    \A m, n \in Names : m # n => batches[m].lines \cap batches[n].lines = {}

-----------------------------------------------------------------------------
(***************************************************************************)
(* Why offsets are safe: the inductive invariant of the proofs.            *)
(***************************************************************************)

\* The offset a commit would save for f.
Safe(f) == IF batchOffsets[f] = NoOffset THEN offsets[f] ELSE batchOffsets[f]

\* Positions without rotation: what is saved, what is safe to save, what the
\* assembler has been given, what was read and what was written are in this
\* order, and the lines between the second and the third are the open record.
PositionOf(f) ==
    /\ Gen(f) = 1 /\ readGen[f] = 1 /\ savedGen[f] = 1
    /\ offsets[f] <= Safe(f) /\ Safe(f) <= cursor[f]
    /\ cursor[f] <= readOffsets[f] /\ readOffsets[f] <= Size(f)
    /\ stack[f] # NoStack => stack[f].end = cursor[f]
    /\ \A i \in Safe(f) + 1 .. cursor[f] : <<f, 1, i>> \in stack[f].lines

PositionInv == resets = {} /\ \A f \in File : PositionOf(f)

\* Durability when offsets can always be saved: the lines before the safe
\* offset are on disk, filtered or in the batch; the batch is on disk when
\* the offsets are about to be committed; and a batch that has been written
\* is never added to.
DurabilityInv ==
    /\ \A f \in File :
         /\ \A i \in 1 .. Safe(f) : <<f, 1, i>> \in Stored \cup filtered \cup BatchLines
         /\ \A i \in 1 .. offsets[f] : <<f, 1, i>> \in Stored \cup filtered
    /\ pc \in {"enforce", "commit"} => BatchLines \subseteq Stored
    /\ pendingBatch # NoBatch => pc = "commit"

WriteAheadInv == PositionInv /\ DurabilityInv
=============================================================================
