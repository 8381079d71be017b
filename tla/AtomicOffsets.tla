--------------------------- MODULE AtomicOffsets ----------------------------
(***************************************************************************)
(* What the agent expects of offsets.json: a register that is written in   *)
(* one step and read at the start of a process.  A save that fails changes *)
(* nothing, a crash loses only what the process knew.                      *)
(*                                                                         *)
(* The register may fall back to an older value, or to none, where the     *)
(* platform cannot do better (fallible): then lines are read again.  It    *)
(* never shows a value that was not saved.                                 *)
(***************************************************************************)
EXTENDS Integers

CONSTANTS
    Offsets,    \* the values that are saved, 0 among them
    Absent      \* no value was ever saved, or it was lost

VARIABLES
    saved,      \* what a process that starts now loads
    ever,       \* every value that was saved
    known,      \* what the running process believes to be saved
    up,         \* a process is running
    fallible    \* the register may fall back

atomicVars == <<saved, ever, known, up, fallible>>

Loaded(value) == IF value = Absent THEN 0 ELSE value

Init ==
    /\ saved = Absent
    /\ ever = {}
    /\ known = 0
    /\ up = FALSE
    /\ fallible \in BOOLEAN

Start ==
    /\ ~up
    /\ up' = TRUE
    /\ known' = Loaded(saved)
    /\ UNCHANGED <<saved, ever, fallible>>

Save(value) ==
    /\ up
    /\ saved' = value
    /\ ever' = ever \cup {value}
    /\ known' = value
    /\ UNCHANGED <<up, fallible>>

Stop ==
    /\ up
    /\ up' = FALSE
    /\ known' = 0
    /\ UNCHANGED <<saved, ever, fallible>>

\* The loss of a value shows an older one, or none; a backup that is renamed
\* back shows it again.  The process may end with it.
Revert ==
    /\ fallible
    /\ saved' \in ever \cup {Absent}
    /\ \/ UNCHANGED <<up, known>>
       \/ up' = FALSE /\ known' = 0
    /\ UNCHANGED <<ever, fallible>>

Next ==
    \/ Start \/ Stop \/ Revert
    \/ \E value \in Offsets : Save(value)

Spec == Init /\ [][Next]_atomicVars
=============================================================================
