---------------------------- MODULE MCServedIndex ----------------------------
(***************************************************************************)
(* Model checking of ServedIndex: the watcher's timers in the server's     *)
(* process and one other process that indexes.                             *)
(***************************************************************************)
EXTENDS ServedIndex

CONSTANTS server

\* A second edit matters to the watcher, whose windows then overlap, and not to
\* the cache, whose entry is valid or not, nor to the lock file: tool calls, killed
\* processes and lock files that stay stuck are explored with one edit.
OneEdit == source < 2
Undisturbed == cache = NoEntry /\ (\A c \in Callers : call[c].pc = "idle") /\ dead = {} /\ ~stuck
Scope == OneEdit \/ Undisturbed

Placed == [i \in Indexers |-> IF i \in Timers THEN server ELSE i]
=============================================================================
