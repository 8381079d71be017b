---------------------------- MODULE OffsetsFile -----------------------------
(***************************************************************************)
(* The files behind a commit of the agent: the rename of a batch and the   *)
(* sync of the directory in WriteBatch (cmd/agent/buffer.go), then the     *)
(* steps of saveOffsets (cmd/agent/tailer.go) in the same directory, on    *)
(* POSIX and on Windows.  Agent takes a commit for one step; this module   *)
(* shows what a crash of the process, or a loss of power, leaves behind.   *)
(*                                                                         *)
(* Lines are numbered; a batch holds the line after the saved offset.      *)
(***************************************************************************)
EXTENDS Integers, Sequences, FiniteSets

CONSTANTS
    MaxLines,       \* bound: lines of the watched file
    MaxCrashes,     \* bound: crashes and losses of power
    SyncWorks       \* directory.Sync, whose error is ignored, succeeds

ASSUME OffsetsAssumption ==
    /\ MaxLines \in Nat \ {0}
    /\ MaxCrashes \in Nat
    /\ SyncWorks \in BOOLEAN

VARIABLES
    goos,       \* runtime.GOOS, as far as saveOffsets looks at it
    power,      \* the machine may lose power
    pc,         \* where the polling loop is
    offsets,    \* tailer.offsets
    stored,     \* lines in a published batch
    unsynced,   \* of these, lines whose batch's rename may still be lost
    file,       \* the content of offsets.json, or Absent
    bak,        \* the content of offsets.json.bak, or Absent
    past,       \* contents of offsets.json since the last sync of the directory
    ever,       \* history: the offsets that were saved
    crashes

platform == <<goos, power>>
batchFiles == <<stored, unsynced>>
offsetFiles == <<file, bak, past, ever>>
vars == <<platform, pc, offsets, batchFiles, offsetFiles, crashes>>

Absent == -1
Lines == 1 .. MaxLines
Content == 0 .. MaxLines \cup {Absent}
PC == {"down", "poll", "sync", "save", "discard", "backup", "replace",
       "rollback", "cleanup"}

OffsetsTypeOK ==
    /\ goos \in {"posix", "windows"}
    /\ power \in BOOLEAN
    /\ pc \in PC
    /\ offsets \in 0 .. MaxLines
    /\ stored \subseteq Lines /\ unsynced \subseteq stored
    /\ file \in Content /\ bak \in Content
    /\ past \subseteq Content /\ file \in past
    /\ ever \subseteq Content
    /\ crashes \in 0 .. MaxCrashes

Init ==
    /\ goos \in {"posix", "windows"}
    /\ power \in IF goos = "posix" THEN BOOLEAN ELSE {FALSE}
    /\ pc = "down"
    /\ offsets = 0
    /\ stored = {} /\ unsynced = {}
    /\ file = Absent /\ bak = Absent
    /\ past = {Absent} /\ ever = {}
    /\ crashes = 0

Goto(from, to) == pc = from /\ pc' = to

\* offsets.json gets new content, or none.
SetFile(content) ==
    /\ file' = content
    /\ past' = past \cup {content}
    /\ ever' = ever \cup ({content} \ {Absent})

\* The offset a commit is about to save.
Candidate == offsets + 1

\* NewTailer: no file means no offsets; the backup is not looked at.
NewTailer ==
    /\ Goto("down", "poll")
    /\ offsets' = IF file = Absent THEN 0 ELSE file
    /\ UNCHANGED <<platform, batchFiles, offsetFiles, crashes>>

-----------------------------------------------------------------------------
(***************************************************************************)
(* WriteBatch: rename, then sync of the directory, which also makes every  *)
(* earlier rename of offsets.json last.  A directory cannot be synced on   *)
(* Windows.                                                                *)
(***************************************************************************)
WriteBatch ==
    /\ Goto("poll", "sync")
    /\ offsets < MaxLines
    /\ stored' = stored \cup {Candidate}
    /\ unsynced' = unsynced \cup ({Candidate} \ stored)
    /\ UNCHANGED <<platform, offsets, offsetFiles, crashes>>

\* Mutant: the directory is not synced.
SyncDirectoryNever ==
    /\ Goto("sync", "save")
    /\ UNCHANGED <<platform, offsets, batchFiles, offsetFiles, crashes>>

SyncDirectory ==
    /\ Goto("sync", "save")
    /\ IF goos = "posix" /\ SyncWorks
       THEN unsynced' = {} /\ past' = {file}
       ELSE UNCHANGED <<unsynced, past>>
    /\ UNCHANGED <<platform, offsets, stored, file, bak, ever, crashes>>

-----------------------------------------------------------------------------
(***************************************************************************)
(* saveOffsets.  An error returns to commitOffsets, and the next flush     *)
(* saves again without writing the batch again.                            *)
(***************************************************************************)

\* Mutant: offsets.json is truncated and written in place.
WriteTemporaryInPlace ==
    /\ Goto("save", IF goos = "windows" THEN "discard" ELSE "replace")
    /\ SetFile(Absent)
    /\ UNCHANGED <<platform, offsets, batchFiles, bak, crashes>>

\* The temporary file is written and synced; an earlier failure changes
\* nothing but the temporary file.
WriteTemporary ==
    /\ Goto("save", IF goos = "windows" THEN "discard" ELSE "replace")
    /\ UNCHANGED <<platform, offsets, batchFiles, offsetFiles, crashes>>

\* Windows: os.Remove of the old backup, its error ignored.
RemoveBackup ==
    /\ Goto("discard", "backup")
    /\ bak' \in {Absent, bak}
    /\ UNCHANGED <<platform, offsets, batchFiles, file, past, ever, crashes>>

\* Windows: offsets.json becomes the backup, if there is one.
Backup ==
    /\ Goto("backup", "replace")
    /\ IF file = Absent THEN UNCHANGED offsetFiles
                        ELSE bak' = file /\ SetFile(Absent)
    /\ UNCHANGED <<platform, offsets, batchFiles, crashes>>

BackupFails ==
    /\ Goto("backup", "save")
    /\ UNCHANGED <<platform, offsets, batchFiles, offsetFiles, crashes>>

\* The rename of the temporary file.  On POSIX saveOffsets is done.
Replace ==
    /\ Goto("replace", IF goos = "windows" THEN "cleanup" ELSE "poll")
    /\ SetFile(Candidate)
    /\ offsets' = IF goos = "windows" THEN offsets ELSE Candidate
    /\ UNCHANGED <<platform, batchFiles, bak, crashes>>

\* Mutant: an error of the rename is ignored.
ReplaceFailsIgnored ==
    /\ Goto("replace", "poll")
    /\ offsets' = Candidate
    /\ UNCHANGED <<platform, batchFiles, offsetFiles, crashes>>

ReplaceFails ==
    /\ Goto("replace", IF goos = "windows" THEN "rollback" ELSE "save")
    /\ UNCHANGED <<platform, offsets, batchFiles, offsetFiles, crashes>>

\* Windows: the backup is renamed back, its error ignored.
Rollback ==
    /\ Goto("rollback", "save")
    /\ \/ UNCHANGED offsetFiles
       \/ /\ bak # Absent
          /\ SetFile(bak)
          /\ bak' = Absent
    /\ UNCHANGED <<platform, offsets, batchFiles, crashes>>

\* Windows: the backup is removed, its error ignored, and the save is done.
Cleanup ==
    /\ Goto("cleanup", "poll")
    /\ bak' \in {Absent, bak}
    /\ offsets' = Candidate
    /\ UNCHANGED <<platform, batchFiles, file, past, ever, crashes>>

Step ==
    \/ NewTailer \/ WriteBatch \/ SyncDirectory \/ WriteTemporary
    \/ RemoveBackup \/ Backup \/ BackupFails
    \/ Replace \/ ReplaceFails \/ Rollback \/ Cleanup

-----------------------------------------------------------------------------
\* The process dies; the temporary file it may leave is never read.
Crash ==
    /\ pc # "down"
    /\ crashes < MaxCrashes
    /\ crashes' = crashes + 1
    /\ pc' = "down"
    /\ offsets' = 0
    /\ UNCHANGED <<platform, batchFiles, offsetFiles>>

\* The renames since the last sync of the directory are lost or not, each
\* file for itself.
PowerLoss ==
    /\ power
    /\ crashes < MaxCrashes
    /\ crashes' = crashes + 1
    /\ pc' = "down"
    /\ offsets' = 0
    /\ \E lost \in SUBSET unsynced : stored' = stored \ lost
    /\ unsynced' = {}
    /\ file' \in past
    /\ past' = {file'}
    /\ UNCHANGED <<platform, bak, ever>>

\* All lines are saved: the loop goes on without anything to do.
Idle ==
    /\ pc = "poll"
    /\ offsets = MaxLines
    /\ UNCHANGED vars

Next == Step \/ Crash \/ PowerLoss \/ Idle

\* The loop retries with every flush; a file system that refuses a rename
\* does not do so for ever.
Spec == Init /\ [][Next]_vars /\ WF_vars(Step) /\ SF_vars(Backup) /\ SF_vars(Replace)

-----------------------------------------------------------------------------
(***************************************************************************)
(* Properties.                                                             *)
(***************************************************************************)

\* What a restart loads, after a loss of power too, never skips a line
\* whose batch could be missing then: the batch's directory entry is made
\* durable before the offsets are, although that of the offsets is not.
SkipsOnlyDurable ==
    LET loads == IF power THEN past ELSE {file}
        kept  == IF power THEN stored \ unsynced ELSE stored
    IN  \A v \in loads : 1 .. v \subseteq kept

\* "persists per-file offsets": a save that fails is made up for, and the
\* offsets of the last line are saved in the end.
SavedInTheEnd == <>[](file = MaxLines)

\* offsets.json is the register AtomicOffsets describes.  It falls back only
\* on Windows, where the backup is never read, and with the power.
Register == INSTANCE AtomicOffsets WITH
    Offsets  <- 0 .. MaxLines,
    saved    <- file,
    known    <- IF pc = "cleanup" THEN Candidate ELSE offsets,
    up       <- pc # "down",
    fallible <- goos = "windows" \/ power

SavesAtomically == Register!Spec
=============================================================================
