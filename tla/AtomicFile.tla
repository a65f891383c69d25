----------------------------- MODULE AtomicFile -----------------------------
(***************************************************************************)
(* What roam/atomic_io.py promises to every reader of a destination path:  *)
(* the path names nothing or one complete payload, each payload becomes    *)
(* visible at most once, and nothing that has left the path ever comes     *)
(* back (no rollback to an earlier generation).                            *)
(***************************************************************************)
CONSTANTS Payloads,   \* every complete payload a writer may publish
          Absent      \* the path names no file

VARIABLES file,       \* what a reader of the path finds
          spent       \* payloads that have been visible at some time

TypeOK ==
    /\ file \in Payloads \cup {Absent}
    /\ spent \subseteq Payloads

Init ==
    /\ file \in Payloads \cup {Absent}
    /\ spent = {file} \ {Absent}

\* One rename makes a payload that was never visible before the current one.
Install(v) ==
    /\ v \notin spent
    /\ file' = v
    /\ spent' = spent \cup {v}

\* The path is unlinked, by its owner or by moving a suspect file aside.
Vacate ==
    /\ file' = Absent
    /\ UNCHANGED spent

Next == (\E v \in Payloads : Install(v)) \/ Vacate

Spec == Init /\ [][Next]_<<file, spent>>
=============================================================================
