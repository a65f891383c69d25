------------------------------ MODULE IndexLock ------------------------------
(***************************************************************************)
(* .roam/index.lock and the runs of roam index it keeps apart: the command *)
(* line in other processes, and timer threads of the file watcher inside   *)
(* the MCP server.  The lock is a file with a process id that is tested    *)
(* and written in separate steps.  What a run does to the index is one     *)
(* reading of the tree and one commit here; IndexRun has the details.      *)
(*                                                                         *)
(* The index is in SQLite's WAL mode: a commit goes to the log, and the    *)
(* database file, whose modification time others look at, is written when  *)
(* a run closes the last connection.                                       *)
(***************************************************************************)
EXTENDS Naturals, FiniteSets

CONSTANTS Indexers,   \* threads that run roam index
          Mortal,     \* those in a process of their own, which may be killed
          PidOf,      \* the process of each
          Unwritten,  \* content that names no process: just created, or "released"
          Nobody,     \* no lock file
          MaxEdits    \* bound: edits of the tree

Pids == {PidOf[i] : i \in Indexers}
Files == 1..Cardinality(Indexers) + 1

Lock == [file : Files, pid : Pids \cup {Unwritten}]

ASSUME LockAssumption ==
    /\ IsFiniteSet(Indexers)
    /\ Mortal \subseteq Indexers
    /\ \A i \in Mortal, j \in Indexers : PidOf[i] = PidOf[j] => i = j
    /\ Unwritten \notin Pids
    /\ Nobody \notin Lock
    /\ MaxEdits \in Nat

VARIABLES
    source,   \* edits of the tree so far
    index,    \* the edits the committed index shows
    wal,      \* commits that are not in the database file yet
    stamp,    \* modification time of the database file
    lock,     \* the lock file
    run,      \* what each indexer is doing
    dead,     \* indexers whose process was killed
    refused,  \* auxiliary: indexers that gave up or failed
    clash,    \* auxiliary: two claims of the lock overlapped
    stuck     \* auxiliary: the lock file could be neither removed nor overwritten
              \* by the run that ended

lockVars == <<source, index, wal, stamp, lock, run, dead, refused, clash, stuck>>

Pcs == {"idle", "start", "read", "unlink", "create", "fill", "detect", "commit", "close",
        "release"}
Claiming == {"read", "unlink", "create", "fill"}
Inside == {"detect", "commit", "close", "release"}

\* "seen" is the state of the tree a run has read, "file" the lock file it has open.
Activity == [pc : Pcs, seen : Nat, file : Files \cup {0}]
Idle == [pc |-> "idle", seen |-> 0, file |-> 0]

LockTypeOK ==
    /\ source \in Nat /\ index \in Nat /\ stamp \in Nat
    /\ wal \in BOOLEAN /\ clash \in BOOLEAN /\ stuck \in BOOLEAN
    /\ lock \in Lock \cup {Nobody}
    /\ run \in [Indexers -> Activity]
    /\ dead \subseteq Mortal
    /\ refused \subseteq Indexers

LockInit ==
    /\ source = 0 /\ index = 0 /\ wal = FALSE /\ stamp = 0
    /\ lock = Nobody
    /\ run = [i \in Indexers |-> Idle]
    /\ dead = {} /\ refused = {} /\ clash = FALSE /\ stuck = FALSE

At(i, pc) == run[i].pc = pc /\ i \notin dead

Go(i, pc) == run' = [run EXCEPT ![i].pc = pc]

Edit ==
    /\ source < MaxEdits
    /\ source' = source + 1
    /\ UNCHANGED <<index, wal, stamp, lock, run, dead, refused, clash, stuck>>

-----------------------------------------------------------------------------
(* _claim_index_lock                                                        *)
(* A definition named Bug... is the one that follows it with a plausible    *)
(* mistake; the runs use it to show that a property notices the mistake.    *)

Begin(i) ==
    /\ At(i, "idle")
    /\ Go(i, "start")
    /\ UNCHANGED <<source, index, wal, stamp, lock, dead, refused, clash, stuck>>

Exists(i) ==
    /\ At(i, "start")
    /\ Go(i, IF lock = Nobody THEN "create" ELSE "read")
    /\ clash' = (clash \/ \E j \in Indexers \ {i} : run[j].pc \in Claiming)
    /\ UNCHANGED <<source, index, wal, stamp, lock, dead, refused, stuck>>

BugRunning(pid, i) == \E j \in Indexers \ dead : PidOf[j] = pid /\ PidOf[i] # pid

\* _pid_is_running; a process that died is not replaced by one with its number.
Running(pid, i) == \E j \in Indexers \ dead : PidOf[j] = pid

BugRead(i) ==
    /\ At(i, "read")
    /\ IF lock # Nobody /\ Running(lock.pid, i)
       THEN Go(i, "release") /\ refused' = refused \cup {i}
       ELSE Go(i, "unlink") /\ UNCHANGED refused
    /\ UNCHANGED <<source, index, wal, stamp, lock, dead, clash, stuck>>

\* A file that cannot be read (it is empty, or gone again) counts as stale.
Read(i) ==
    /\ At(i, "read")
    /\ IF lock # Nobody /\ Running(lock.pid, i)
       THEN Go(i, "idle") /\ refused' = refused \cup {i}
       ELSE Go(i, "unlink") /\ UNCHANGED refused
    /\ UNCHANGED <<source, index, wal, stamp, lock, dead, clash, stuck>>

\* Whatever lock file there is by now; one that cannot be removed is used again.
Unlink(i) ==
    /\ At(i, "unlink")
    /\ \/ lock' = Nobody /\ stuck' = FALSE
       \/ UNCHANGED <<lock, stuck>>
    /\ Go(i, "create")
    /\ UNCHANGED <<source, index, wal, stamp, dead, refused, clash>>

Unused(f) == \A j \in Indexers : run[j].file # f

\* write_text creates the file f or empties the one there is, ...
Truncate(f) ==
    /\ IF lock = Nobody THEN Unused(f) ELSE f = lock.file
    /\ lock' = [file |-> f, pid |-> Unwritten]
    /\ stuck' = FALSE

Create(i) ==
    /\ At(i, "create")
    /\ \E f \in Files :
         /\ Truncate(f)
         /\ run' = [run EXCEPT ![i].pc = "fill", ![i].file = f]
    /\ UNCHANGED <<source, index, wal, stamp, dead, refused, clash>>

\* ... then writes into it, be it still the lock file or not.
Fill(i) ==
    /\ At(i, "fill")
    /\ lock' = IF lock # Nobody /\ lock.file = run[i].file
               THEN [lock EXCEPT !.pid = PidOf[i]] ELSE lock
    /\ run' = [run EXCEPT ![i].pc = "detect", ![i].file = 0]
    /\ UNCHANGED <<source, index, wal, stamp, dead, refused, clash, stuck>>

\* The lock file cannot be created, emptied or written: the run gives up.
ClaimFails(i) ==
    /\ At(i, "create") \/ At(i, "fill")
    /\ run' = [run EXCEPT ![i] = Idle]
    /\ refused' = refused \cup {i}
    /\ UNCHANGED <<source, index, wal, stamp, lock, dead, clash, stuck>>

-----------------------------------------------------------------------------
(* Indexer.run *)

Connected(i) == run[i].pc \in {"commit", "close"}

Detect(i) ==
    /\ At(i, "detect")
    /\ run' = [run EXCEPT ![i].pc = "commit", ![i].seen = source]
    /\ UNCHANGED <<source, index, wal, stamp, lock, dead, refused, clash, stuck>>

Commit(i) ==
    /\ At(i, "commit")
    /\ index' = run[i].seen
    /\ wal' = (wal \/ run[i].seen # index)
    /\ Go(i, "close")
    /\ UNCHANGED <<source, stamp, lock, dead, refused, clash, stuck>>

\* The exception passes by the release.
BugFail(i) ==
    /\ At(i, "commit")
    /\ run' = [run EXCEPT ![i] = Idle]
    /\ refused' = refused \cup {i}
    /\ UNCHANGED <<source, index, wal, stamp, lock, dead, clash, stuck>>

\* An exception; the transaction is rolled back.
Fail(i) ==
    /\ At(i, "commit")
    /\ Go(i, "close")
    /\ refused' = refused \cup {i}
    /\ UNCHANGED <<source, index, wal, stamp, lock, dead, clash, stuck>>

\* "readers": somebody else has the database open.
Close(i, readers) ==
    /\ At(i, "close")
    /\ IF wal /\ ~readers /\ \A j \in Indexers \ {i} : ~Connected(j)
       THEN wal' = FALSE /\ stamp' = stamp + 1
       ELSE UNCHANGED <<wal, stamp>>
    /\ Go(i, "release")
    /\ UNCHANGED <<source, index, lock, dead, refused, clash, stuck>>

\* _release_index_lock removes the lock file, whoever wrote it; where that is
\* denied, or the file is gone, it writes "released", which counts as stale; and
\* where that is denied too the file stays and passes for held as long as the
\* process it names lives.
Release(i) ==
    /\ At(i, "release")
    /\ \/ lock # Nobody /\ lock' = Nobody /\ stuck' = FALSE
       \/ \E f \in Files : Truncate(f)
       \/ UNCHANGED lock /\ stuck' = (lock # Nobody)
    /\ run' = [run EXCEPT ![i] = Idle]
    /\ UNCHANGED <<source, index, wal, stamp, dead, refused, clash>>

\* The process is killed; its lock file stays.
Die(i) ==
    /\ i \in Mortal \ dead
    /\ run[i].pc # "idle"
    /\ dead' = dead \cup {i}
    /\ run' = [run EXCEPT ![i] = Idle]
    /\ UNCHANGED <<source, index, wal, stamp, lock, refused, clash, stuck>>

\* What a run does once begun, when nothing goes wrong.
RunOn(i, readers) ==
    \/ Exists(i) \/ Read(i) \/ Unlink(i) \/ Create(i) \/ Fill(i)
    \/ Detect(i) \/ Commit(i) \/ Close(i, readers) \/ Release(i)
=============================================================================
