---------------------------- MODULE OffsetsProofs ---------------------------
(***************************************************************************)
(* For every number of lines and of crashes: what is in offsets.json after *)
(* a crash or a loss of power never runs ahead of the durable batches, and *)
(* the steps of saveOffsets implement the atomic register the agent takes  *)
(* offsets.json for.                                                       *)
(***************************************************************************)
EXTENDS OffsetsFile, TLAPS

-----------------------------------------------------------------------------
(***************************************************************************)
(* Type correctness.  A commit that is under way is one of a line that     *)
(* exists, and only Windows keeps backups.                                 *)
(***************************************************************************)
Saving == pc \notin {"down", "poll"}

PlaceInv ==
    /\ power => goos = "posix"
    /\ Saving => Candidate \in stored
    /\ pc \in {"discard", "backup", "rollback", "cleanup"} => goos = "windows"

LEMMA OffsetsTypeInit == Init => OffsetsTypeOK /\ PlaceInv
<1> SUFFICES ASSUME Init
             PROVE  OffsetsTypeOK /\ PlaceInv
  OBVIOUS
<1>1. power \in BOOLEAN /\ (power => goos = "posix")
  <2>1. CASE goos = "posix"
    BY <2>1 DEF Init
  <2>2. CASE goos = "windows"
    BY <2>2 DEF Init
  <2> QED
    BY <2>1, <2>2 DEF Init
<1>2. file \in Content /\ bak \in Content
  BY DEF Init, Content
<1> QED
  BY <1>1, <1>2, OffsetsAssumption DEF Init, OffsetsTypeOK, PlaceInv, Saving, PC

LEMMA OffsetsTypeStep ==
    ASSUME OffsetsTypeOK, PlaceInv, [Next]_vars
    PROVE  OffsetsTypeOK' /\ PlaceInv'
<1> USE OffsetsAssumption
    DEF OffsetsTypeOK, PlaceInv, Saving, Candidate, Lines, Content, Absent, PC, Goto,
        SetFile, platform, batchFiles, offsetFiles
<1>1. CASE NewTailer
  BY <1>1 DEF NewTailer
<1>2. CASE WriteBatch
  BY <1>2 DEF WriteBatch
<1>3. CASE SyncDirectory
  BY <1>3 DEF SyncDirectory
<1>4. CASE WriteTemporary
  BY <1>4 DEF WriteTemporary
<1>5. CASE RemoveBackup
  BY <1>5 DEF RemoveBackup
<1>6. CASE Backup
  <2>1. /\ pc = "backup" /\ pc' = "replace"
        /\ UNCHANGED <<goos, power, offsets, stored, unsynced, crashes>>
    BY <1>6 DEF Backup
  <2>2. \/ UNCHANGED <<file, bak, past, ever>>
        \/ bak' = file /\ file' = Absent /\ past' = past \cup {Absent} /\ ever' = ever
    BY <1>6 DEF Backup
  <2>3. /\ file' \in Content /\ bak' \in Content
        /\ past' \subseteq Content /\ file' \in past'
        /\ ever' \subseteq Content
    BY <2>2
  <2> QED
    BY <2>1, <2>3
<1>7. CASE BackupFails
  BY <1>7 DEF BackupFails
<1>8. CASE Replace
  BY <1>8 DEF Replace
<1>9. CASE ReplaceFails
  BY <1>9 DEF ReplaceFails
<1>10. CASE Rollback
  BY <1>10 DEF Rollback
<1>11. CASE Cleanup
  BY <1>11 DEF Cleanup
<1>12. CASE Crash
  BY <1>12 DEF Crash
<1>13. CASE PowerLoss
  BY <1>13 DEF PowerLoss
<1>14. CASE UNCHANGED vars
  BY <1>14 DEF vars
<1> QED
  BY <1>1, <1>2, <1>3, <1>4, <1>5, <1>6, <1>7, <1>8, <1>9, <1>10, <1>11, <1>12, <1>13,
     <1>14 DEF Next, Step, Idle

\* The files and what the process knows of them are well typed, and the
\* program is where its platform lets it be.
LEMMA OffsetsPlaced == Spec => [](OffsetsTypeOK /\ PlaceInv)
<1>1. Init => OffsetsTypeOK /\ PlaceInv
  BY OffsetsTypeInit
<1>2. OffsetsTypeOK /\ PlaceInv /\ [Next]_vars => OffsetsTypeOK' /\ PlaceInv'
  BY OffsetsTypeStep
<1> QED
  BY <1>1, <1>2, PTL DEF Spec

\* NewTailer, WriteBatch, saveOffsets, crashes and losses of power keep every
\* variable within its type.
THEOREM OffsetsTypeCorrect == Spec => []OffsetsTypeOK
BY OffsetsPlaced, PTL

-----------------------------------------------------------------------------
(***************************************************************************)
(* Durability.  Whatever a start may load, now or after a failed save is   *)
(* rolled back, lies behind batches that no loss of power takes away; and  *)
(* so does what is about to be saved, once the directory was synced.       *)
(***************************************************************************)
Durable == IF power THEN stored \ unsynced ELSE stored

DurableInv ==
    /\ \A v \in past \cup {bak, offsets} : 1 .. v \subseteq Durable
    /\ Saving /\ pc # "sync" => Candidate \in Durable

LEMMA DurableInit == Init => DurableInv
BY DEF Init, DurableInv, Saving, Absent

LEMMA DurableStep ==
    ASSUME SyncWorks, OffsetsTypeOK, PlaceInv, DurableInv, [Next]_vars
    PROVE  DurableInv'
<1> USE DEF OffsetsTypeOK, PlaceInv, DurableInv, Saving, Durable, Candidate, Lines, Content,
            Absent, Goto, SetFile, platform, batchFiles, offsetFiles
<1>1. CASE NewTailer
  BY <1>1 DEF NewTailer
<1>2. CASE WriteBatch
  BY <1>2 DEF WriteBatch
<1>3. CASE SyncDirectory
  <2>1. /\ UNCHANGED <<power, stored, bak, offsets>>
        /\ past' \subseteq past /\ unsynced' \subseteq unsynced
    BY <1>3 DEF SyncDirectory
  <2>2. pc = "sync" /\ (power => unsynced' = {})
    BY <1>3 DEF SyncDirectory
  <2>3. Durable \subseteq Durable' /\ Candidate \in Durable'
    BY <2>1, <2>2
  <2> QED
    BY <2>1, <2>3
<1>4. CASE WriteTemporary
  BY <1>4 DEF WriteTemporary
<1>5. CASE RemoveBackup
  BY <1>5 DEF RemoveBackup
<1>6. CASE Backup
  <2>1. past' \cup {bak', offsets'} \subseteq past \cup {bak, offsets, Absent}
    BY <1>6 DEF Backup
  <2>2. UNCHANGED <<power, stored, unsynced, offsets>> /\ pc = "backup"
    BY <1>6 DEF Backup
  <2>3. 1 .. Absent = {}
    OBVIOUS
  <2> QED
    BY <2>1, <2>2, <2>3
<1>7. CASE BackupFails
  BY <1>7 DEF BackupFails
<1>8. CASE Replace
  <2>1. 1 .. Candidate \subseteq Durable
    BY <1>8 DEF Replace
  <2> QED
    BY <1>8, <2>1 DEF Replace
<1>9. CASE ReplaceFails
  BY <1>9 DEF ReplaceFails
<1>10. CASE Rollback
  <2>1. past' \cup {bak', offsets'} \subseteq past \cup {bak, offsets, Absent}
    BY <1>10 DEF Rollback
  <2>2. UNCHANGED <<power, stored, unsynced, offsets>> /\ pc = "rollback"
    BY <1>10 DEF Rollback
  <2>3. 1 .. Absent = {}
    OBVIOUS
  <2> QED
    BY <2>1, <2>2, <2>3
<1>11. CASE Cleanup
  <2>1. 1 .. Candidate \subseteq Durable
    BY <1>11 DEF Cleanup
  <2> QED
    BY <1>11, <2>1 DEF Cleanup
<1>12. CASE Crash
  BY <1>12 DEF Crash
<1>13. CASE PowerLoss
  <2>1. Durable \subseteq Durable'
    BY <1>13 DEF PowerLoss
  <2> QED
    BY <1>13, <2>1 DEF PowerLoss
<1>14. CASE UNCHANGED vars
  BY <1>14 DEF vars
<1> QED
  BY <1>1, <1>2, <1>3, <1>4, <1>5, <1>6, <1>7, <1>8, <1>9, <1>10, <1>11, <1>12, <1>13,
     <1>14 DEF Next, Step, Idle

\* While the sync of the directory in WriteBatch works, the offsets a start
\* loads, after a crash or a loss of power, never skip a line whose batch the
\* same event can take away.
THEOREM RestartSkipsOnlyDurable ==
    ASSUME SyncWorks
    PROVE  Spec => []SkipsOnlyDurable
<1>1. OffsetsTypeOK /\ PlaceInv /\ DurableInv /\ [Next]_vars => DurableInv'
  BY DurableStep
<1>2. OffsetsTypeOK /\ DurableInv => SkipsOnlyDurable
  BY DEF OffsetsTypeOK, DurableInv, Durable, SkipsOnlyDurable
<1> QED
  BY <1>1, <1>2, DurableInit, OffsetsPlaced, PTL DEF Spec

-----------------------------------------------------------------------------
(***************************************************************************)
(* Refinement.  What offsets.json may fall back to was saved once.         *)
(***************************************************************************)
SavedInv == past \cup {bak} \subseteq ever \cup {Absent}

LEMMA SavedStep ==
    ASSUME OffsetsTypeOK, SavedInv, [Next]_vars
    PROVE  SavedInv'
<1> USE DEF OffsetsTypeOK, SavedInv, Goto, SetFile, platform, batchFiles, offsetFiles
<1>1. CASE UNCHANGED offsetFiles
  BY <1>1
<1>2. CASE SyncDirectory \/ RemoveBackup \/ Cleanup
  BY <1>2 DEF SyncDirectory, RemoveBackup, Cleanup
<1>3. CASE Backup \/ Replace \/ Rollback
  BY <1>3 DEF Backup, Replace, Rollback
<1>4. CASE PowerLoss
  BY <1>4 DEF PowerLoss
<1> QED
  BY <1>1, <1>2, <1>3, <1>4
     DEF Next, Step, vars, NewTailer, WriteBatch, WriteTemporary, BackupFails, ReplaceFails,
         Crash, Idle

LEMMA RegisterInit == Init => Register!Init
BY DEF Init, Register!Init, Absent

\* Every step of the process or of its platform is one of the register, or
\* does not show.
LEMMA RegisterStep ==
    ASSUME OffsetsTypeOK, PlaceInv, SavedInv, [Next]_vars
    PROVE  [Register!Next]_(Register!atomicVars)
<1> USE DEF OffsetsTypeOK, PlaceInv, SavedInv, Candidate, Lines, Content, Absent, Goto, SetFile,
            platform, batchFiles, offsetFiles
<1>1. CASE NewTailer
  <2>1. Register!Start
    BY <1>1 DEF NewTailer, Register!Start, Register!Loaded
  <2> QED
    BY <2>1 DEF Register!Next
<1>2. CASE Replace
  <2>1. Candidate \in 0 .. MaxLines /\ Candidate # Absent
    BY <1>2, OffsetsAssumption DEF Replace, Saving
  <2>2. Register!Save(Candidate)
    BY <1>2, <2>1 DEF Replace, Register!Save
  <2> QED
    BY <2>1, <2>2 DEF Register!Next
<1>3. CASE Backup \/ Rollback
  <2>1. Register!Revert \/ UNCHANGED Register!atomicVars
    BY <1>3 DEF Backup, Rollback, Register!Revert, Register!atomicVars
  <2> QED
    BY <2>1 DEF Register!Next
<1>4. CASE Crash
  <2>1. Register!Stop
    BY <1>4 DEF Crash, Register!Stop
  <2> QED
    BY <2>1 DEF Register!Next
<1>5. CASE PowerLoss
  <2>1. Register!Revert
    BY <1>5 DEF PowerLoss, Register!Revert
  <2> QED
    BY <2>1 DEF Register!Next
<1>6. CASE \/ WriteBatch \/ SyncDirectory \/ WriteTemporary \/ RemoveBackup
           \/ BackupFails \/ ReplaceFails \/ Cleanup \/ Idle \/ UNCHANGED vars
  <2>1. UNCHANGED Register!atomicVars
    BY <1>6 DEF WriteBatch, SyncDirectory, WriteTemporary, RemoveBackup, BackupFails,
                ReplaceFails, Cleanup, Idle, vars, Register!atomicVars
  <2> QED
    BY <2>1
<1> QED
  BY <1>1, <1>2, <1>3, <1>4, <1>5, <1>6 DEF Next, Step

\* offsets.json, written through temporary files, backups and rollbacks,
\* implements AtomicOffsets: a save happens at once or not at all, and a value
\* that shows was saved.
THEOREM OffsetsRefineRegister == Spec => SavesAtomically
<1>1. Init => SavedInv
  BY DEF Init, SavedInv
<1>2. OffsetsTypeOK /\ SavedInv /\ [Next]_vars => SavedInv'
  BY SavedStep
<1>3. OffsetsTypeOK /\ PlaceInv /\ SavedInv /\ [Next]_vars
        => [Register!Next]_(Register!atomicVars)
  BY RegisterStep
<1> QED
  BY <1>1, <1>2, <1>3, RegisterInit, OffsetsPlaced, PTL
     DEF Spec, SavesAtomically, Register!Spec
=============================================================================
