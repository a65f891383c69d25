------------------------------- MODULE Watcher -------------------------------
(***************************************************************************)
(* The file watcher of the MCP server (roam/mcp_extras/watcher.py): events *)
(* are collected until none has come for a while, then a timer thread runs *)
(* roam index.  Each push cancels the timer before it, but a timer that    *)
(* has gone off cannot be cancelled and waits for the same mutex.          *)
(***************************************************************************)
EXTENDS IndexLock

CONSTANTS Timers,   \* timer threads of the server, used again when done
          NoTimer   \* None

ASSUME WatcherAssumption ==
    /\ Timers \subseteq Indexers
    /\ Timers \cap Mortal = {}
    /\ NoTimer \notin Timers

VARIABLES
    told,     \* edits the watcher has had an event for
    pending,  \* _pending: the edits of this window
    timer,    \* _timer
    thread,   \* what each timer does
    stopped,  \* _stopped
    filtered  \* auxiliary: edits whose event push dropped

watcherVars == <<told, pending, timer, thread, stopped, filtered>>

WatcherTypeOK ==
    /\ told \in Nat
    /\ pending \subseteq Nat
    /\ timer \in Timers \cup {NoTimer}
    /\ thread \in [Timers -> {"free", "armed", "fired", "busy"}]
    /\ stopped \in BOOLEAN
    /\ filtered \subseteq Nat

WatcherInit ==
    /\ told = 0
    /\ pending = {}
    /\ timer = NoTimer
    /\ thread = [t \in Timers |-> "free"]
    /\ stopped = FALSE
    /\ filtered = {}

\* The timer threads after _timer, if any, was cancelled: one that has gone off
\* already goes on.
Cancelled == [t \in Timers |-> IF t = timer /\ thread[t] = "armed" THEN "free" ELSE thread[t]]

\* A run under way is expected to see the edit as well.
BugPush(t) ==
    /\ ~stopped
    /\ told < source
    /\ Cancelled[t] = "free"
    /\ told' = told + 1
    /\ pending' = pending \cup {told + 1}
    /\ IF \E u \in Timers : thread[u] = "busy"
       THEN UNCHANGED <<thread, timer>>
       ELSE thread' = [Cancelled EXCEPT ![t] = "armed"] /\ timer' = t
    /\ UNCHANGED <<stopped, filtered, lockVars>>

\* push returns at once for a path without one of its suffixes (.dart, .svelte,
\* .mdx and .jsonc files are indexed and not among them) or below a directory it
\* ignores; a move is judged by its destination only.
Ignore ==
    /\ ~stopped
    /\ told < source
    /\ told' = told + 1
    /\ filtered' = filtered \cup {told + 1}
    /\ UNCHANGED <<pending, timer, thread, stopped, lockVars>>

\* The event of the next edit, delivered by the one thread of the observer.
Push(t) ==
    /\ ~stopped
    /\ told < source
    /\ Cancelled[t] = "free"
    /\ told' = told + 1
    /\ pending' = pending \cup {told + 1}
    /\ thread' = [Cancelled EXCEPT ![t] = "armed"]
    /\ timer' = t
    /\ UNCHANGED <<stopped, filtered, lockVars>>

\* The debounce time is over; the thread waits for the mutex of _fire.
Elapse(t) ==
    /\ thread[t] = "armed"
    /\ thread' = [thread EXCEPT ![t] = "fired"]
    /\ UNCHANGED <<told, pending, timer, stopped, filtered, lockVars>>

BugFire(t) ==
    /\ thread[t] = "fired"
    /\ timer' = NoTimer
    /\ pending' = {}
    /\ IF pending = {} \/ timer # t
       THEN thread' = [thread EXCEPT ![t] = "free"] /\ UNCHANGED lockVars
       ELSE thread' = [thread EXCEPT ![t] = "busy"] /\ Begin(t)
    /\ UNCHANGED <<told, stopped, filtered>>

\* _fire takes what is pending and forgets the timer, even when that is a newer
\* one; without files it returns.
Fire(t) ==
    /\ thread[t] = "fired"
    /\ timer' = NoTimer
    /\ pending' = {}
    /\ IF pending = {}
       THEN thread' = [thread EXCEPT ![t] = "free"] /\ UNCHANGED lockVars
       ELSE thread' = [thread EXCEPT ![t] = "busy"] /\ Begin(t)
    /\ UNCHANGED <<told, stopped, filtered>>

\* The index command has returned, whatever came of it; clients are notified.
Finish(t) ==
    /\ thread[t] = "busy"
    /\ run[t].pc = "idle"
    /\ thread' = [thread EXCEPT ![t] = "free"]
    /\ UNCHANGED <<told, pending, timer, stopped, filtered, lockVars>>

\* stop knows of the timer in _timer only.
Stop ==
    /\ ~stopped
    /\ stopped' = TRUE
    /\ thread' = Cancelled
    /\ timer' = NoTimer
    /\ UNCHANGED <<told, pending, filtered, lockVars>>
=============================================================================
