----------------------------- MODULE ServedIndex -----------------------------
(***************************************************************************)
(* What the MCP server answers from, put together: the tree is edited, the *)
(* watcher and other processes index it under the index lock, and tool     *)
(* calls keep their results in _ROAM_RESULT_CACHE, valid as long as the    *)
(* modification time of the index is what it was.                          *)
(***************************************************************************)
EXTENDS Watcher

CONSTANTS Callers,  \* worker threads of read-only tool calls
          NoEntry,  \* nothing cached
          MaxRuns   \* bound: runs in other processes

\* One line of the cache: which state of the tree the result is about.  "late"
\* is auxiliary: the index had changed between reading it and storing.
Entry == [version : Nat, stamp : Nat, late : BOOLEAN]

ASSUME CacheAssumption == NoEntry \notin Entry /\ MaxRuns \in Nat

VARIABLES
    begun,  \* runs begun in other processes so far
    cache,  \* the entry of one command line; they do not affect each other
    call    \* what each caller is doing

cacheVars == <<cache, call>>
vars == <<begun, lockVars, watcherVars, cacheVars>>

Calls == [pc : {"idle", "open", "reading", "store"}, got : Nat]

TypeOK ==
    /\ LockTypeOK
    /\ WatcherTypeOK
    /\ begun \in Nat
    /\ cache \in Entry \cup {NoEntry}
    /\ call \in [Callers -> Calls]

Init ==
    /\ LockInit
    /\ WatcherInit
    /\ begun = 0
    /\ cache = NoEntry
    /\ call = [c \in Callers |-> [pc |-> "idle", got |-> 0]]

-----------------------------------------------------------------------------
(* _run_roam *)

BugFresh == cache # NoEntry

\* What a call takes for valid until the time to live is over.
Fresh == cache # NoEntry /\ cache.stamp = stamp

\* A hit answers at once.
Lookup(c) ==
    /\ call[c].pc = "idle"
    /\ call' = IF Fresh THEN call ELSE [call EXCEPT ![c].pc = "open"]
    /\ UNCHANGED <<cache, begun, lockVars, watcherVars>>

\* The command opens the database and reads a snapshot of it, ...
ReadIndex(c) ==
    /\ call[c].pc = "open"
    /\ call' = [call EXCEPT ![c] = [pc |-> "reading", got |-> index]]
    /\ UNCHANGED <<cache, begun, lockVars, watcherVars>>

\* ... and closes it; a read-only connection writes no log back.
EndRead(c) ==
    /\ call[c].pc = "reading"
    /\ call' = [call EXCEPT ![c].pc = "store"]
    /\ UNCHANGED <<cache, begun, lockVars, watcherVars>>

\* The entry gets the modification time the file has by now; an error is not
\* stored.
Store(c) ==
    /\ call[c].pc = "store"
    /\ \/ cache' = [version |-> call[c].got, stamp |-> stamp, late |-> call[c].got # index]
       \/ UNCHANGED cache
    /\ call' = [call EXCEPT ![c] = [pc |-> "idle", got |-> 0]]
    /\ UNCHANGED <<begun, lockVars, watcherVars>>

BugExpire ==
    /\ cache # NoEntry
    /\ ~Fresh
    /\ cache' = NoEntry
    /\ UNCHANGED <<call, begun, lockVars, watcherVars>>

\* The entry reaches _ROAM_CACHE_TTL_S and is no longer used.
Expire ==
    /\ cache # NoEntry
    /\ cache' = NoEntry
    /\ UNCHANGED <<call, begun, lockVars, watcherVars>>

-----------------------------------------------------------------------------

Readers == \E c \in Callers : call[c].pc = "reading"

\* A run once begun; threads of the watcher are begun by Fire.  "other": a
\* command in another process has the database open.
Proceed(i) ==
    /\ \E other \in BOOLEAN : RunOn(i, Readers \/ other)
    /\ UNCHANGED <<begun, watcherVars, cacheVars>>

Outside(i) ==
    /\ \/ i \notin Timers /\ begun < MaxRuns /\ Begin(i) /\ begun' = begun + 1
       \/ (ClaimFails(i) \/ Fail(i) \/ Die(i)) /\ UNCHANGED begun
    /\ UNCHANGED <<watcherVars, cacheVars>>

Watch(t) ==
    /\ Push(t) \/ Elapse(t) \/ Fire(t) \/ Finish(t)
    /\ UNCHANGED <<begun, cacheVars>>

Answer(c) == ReadIndex(c) \/ EndRead(c) \/ Store(c)

Next ==
    \/ Edit /\ UNCHANGED <<begun, watcherVars, cacheVars>>
    \/ \E i \in Indexers : Proceed(i) \/ Outside(i)
    \/ \E t \in Timers : Watch(t)
    \/ (Ignore \/ Stop) /\ UNCHANGED <<begun, cacheVars>>
    \/ \E c \in Callers : Lookup(c) \/ Answer(c)
    \/ Expire

\* Threads the operating system lets run, events the observer delivers, time
\* that passes.  Nobody has to edit, index, call, fail or stop.
Fairness ==
    /\ \A i \in Indexers : WF_vars(Proceed(i))
    /\ \A t \in Timers : WF_vars((Elapse(t) \/ Fire(t) \/ Finish(t)) /\ UNCHANGED <<begun, cacheVars>>)
    /\ WF_vars((Ignore \/ \E t \in Timers : Push(t)) /\ UNCHANGED <<begun, cacheVars>>)
    /\ \A c \in Callers : WF_vars(Answer(c))
    /\ WF_vars(Expire)

Spec == Init /\ [][Next]_vars /\ Fairness

-----------------------------------------------------------------------------
(* Safety *)

\* The index lock keeps runs apart unless two claims overlapped, between the
\* test of the file and the process id written into it.  A killed holder, its
\* lock removed as stale, and a lock that vanishes while it is read do no harm.
ClaimsExclude ==
    ~clash => \A i, j \in Indexers :
                 run[i].pc \in Inside /\ run[j].pc \in Inside => i = j

\* What the lock is for: no run puts an older state of the tree back over a
\* newer one, as long as claims did not overlap.
IndexNeverOlder == [][~clash => index' >= index]_vars

\* However pushes, cancelled timers and timers that have gone off cross, edits
\* that wait always have a timer that will take them.
PendingHasTimer ==
    pending # {} /\ ~stopped => \E t \in Timers : thread[t] \in {"armed", "fired"}

\* A lock file that passes for held is held: no claim gives up because of a lock
\* that a killed, failed or finished run left, so a refusal means that a run is
\* inside at that moment.  One lock is excepted by name: that of a run of a
\* process still alive which could neither remove it nor mark it released.
HeldHasHolder ==
    ~clash /\ ~stuck /\ lock # Nobody /\ (\E i \in Indexers : Running(lock.pid, i)) =>
        \E i \in Indexers : run[i].pc \in Inside /\ PidOf[i] = lock.pid

\* A state of the tree lacks one of the edits up to "last" that the watcher is to
\* follow.
Lacks(version, last) == \E e \in version + 1..last : e \notin filtered

\* The edits that timer t took are still to be read, or read and not committed.
Carries(t) ==
    \/ run[t].pc \in {"start", "detect"} \cup Claiming
    \/ run[t].pc = "commit" /\ ~Lacks(run[t].seen, told)

\* A timer is to take what is pending, or the run of a timer that took it has it
\* before it.
OnItsWay ==
    \/ pending # {} /\ \E t \in Timers : thread[t] \in {"armed", "fired"}
    \/ \E t \in Timers : Carries(t)

\* No edit is lost on its way: while the index lacks one the watcher had the event
\* of, a timer is to take it or a run is to index it.  Edits of paths that push
\* drops are excepted, and windows whose run was refused or failed.
EditsUnderWay ==
    Lacks(index, told) /\ ~stopped /\ ~clash /\ refused \cap Timers = {} => OnItsWay

\* A cached result that passes for valid is out of date only when the index
\* changed while the result was on its way, or when commits have not reached
\* the database file because somebody had it open.
StaleEntryHasCause ==
    Fresh /\ cache.version # index => cache.late \/ wal

-----------------------------------------------------------------------------
(* The inductive invariant behind the safety properties *)

\* One claims at a time, and from the moment it goes past the test of the lock
\* nobody is inside.
ClaimsAlone ==
    ~clash => \A i, j \in Indexers :
                 /\ run[i].pc \in Claiming /\ run[j].pc \in Claiming => i = j
                 /\ run[i].pc \in {"unlink", "create", "fill"} => run[j].pc \notin Inside

\* The lock file is that of the run inside, or the one being written.
LockIsMine ==
    ~clash => \A i \in Indexers :
                 /\ run[i].pc \in Inside => lock # Nobody /\ lock.pid = PidOf[i]
                 /\ run[i].pc = "fill" => lock # Nobody /\ lock.file = run[i].file

DeadRest == \A i \in dead : run[i].pc = "idle"

\* Nothing shows edits still to come, and what a run will commit is no older
\* than the index.
SeenBetween ==
    /\ index <= source
    /\ \A i \in Indexers :
         /\ run[i].seen <= source
         /\ ~clash /\ run[i].pc = "commit" => index <= run[i].seen

EventsFollowEdits == told <= source

StampsPast == cache # NoEntry => cache.stamp <= stamp

ServedInv ==
    /\ TypeOK
    /\ ClaimsExclude
    /\ ClaimsAlone
    /\ LockIsMine
    /\ DeadRest
    /\ SeenBetween
    /\ PendingHasTimer
    /\ StampsPast
    /\ StaleEntryHasCause
    /\ HeldHasHolder
    /\ EventsFollowEdits
    /\ EditsUnderWay

-----------------------------------------------------------------------------
(* Liveness *)

\* Once edits cease the watcher brings the index up to date, but for a window
\* whose run found the index lock taken or failed, claims that overlapped, a
\* watcher that was stopped, and edits of paths the watcher drops.
EditsReachIndex ==
    <>[](~Lacks(index, source) \/ stopped \/ clash \/ refused \cap Timers # {})

\* Whatever went wrong with the modification time, the time to live ends it:
\* results out of date are not answered for ever.
CacheCatchesUp == <>[](Fresh => cache.version = index)

-----------------------------------------------------------------------------
\* What the documentation of _run_roam says: "any reindex invalidates the cache
\* automatically".
ReindexInvalidates ==
    Fresh /\ (\A i \in Indexers : run[i].pc = "idle") => cache.version = index
=============================================================================
