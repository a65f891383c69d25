------------------------------ MODULE DrainLock ------------------------------
(***************************************************************************)
(* What roam/runtime/lockmgr.py promises to the threads of a process: many *)
(* share, one thread at a time owns, and an exclusive acquisition keeps    *)
(* newcomers out from its first moment and gets in when nobody shares.     *)
(* Counters, flags, sleeping and timeouts do not show.  Where the manager  *)
(* departs from its own documentation, the departure is an action by name. *)
(***************************************************************************)
CONSTANTS Threads,
          Ranks      \* the acquisitions a thread may have open

Calls == Threads \X Ranks

VARIABLES
    sharing,    \* acquisitions that share the lock
    owning,     \* acquisitions that own it
    exclusive,  \* exclusive acquisitions that are under way
    promised    \* those of them that nobody shares the lock with

Init ==
    /\ sharing = {}
    /\ owning = {}
    /\ exclusive = {}
    /\ promised = {}

BegunToShare(c) ==
    /\ promised = {}
    /\ sharing' = sharing \cup {c}
    /\ UNCHANGED <<owning, exclusive, promised>>

\* Some other thread owns the lock.
OwnedByAnother(c) == \E d \in owning : d[1] # c[1]

Share(c) ==
    /\ ~OwnedByAnother(c)
    /\ BegunToShare(c)

Unshare(c) ==
    /\ c \in sharing
    /\ sharing' = sharing \ {c}
    /\ UNCHANGED <<owning, exclusive, promised>>

\* A thread that owns the lock may own it again.
Own(c) ==
    /\ \A d \in owning : d[1] = c[1]
    /\ c \in promised => sharing = {}
    /\ owning' = owning \cup {c}
    /\ UNCHANGED <<sharing, exclusive, promised>>

Disown(c) ==
    /\ c \in owning
    /\ owning' = owning \ {c}
    /\ UNCHANGED <<sharing, exclusive, promised>>

Announce(c) ==
    /\ c \notin exclusive
    /\ exclusive' = exclusive \cup {c}
    /\ promised' = promised \cup {c}
    /\ UNCHANGED <<sharing, owning>>

Over(c) ==
    /\ c \in exclusive \ owning
    /\ exclusive' = exclusive \ {c}
    /\ UNCHANGED <<sharing, owning>>

\* An exclusive acquisition is over, or gave up.
Retract(c) ==
    /\ promised \subseteq {c}
    /\ Over(c)
    /\ promised' = {}

\* Departures from the documentation of lockmgr.py.  "write -- single writer,
\* blocks new readers from starting" (7-8): a thread begins to share while
\* another owns.
ShareBesideOwner(c) ==
    /\ OwnedByAnother(c)
    /\ BegunToShare(c)

\* "exclusive -- drains all readers + writers then blocks" (9): one that is over
\* takes the promises made to all others with it.
RetractAll(c) ==
    /\ \E d \in promised : d # c
    /\ Over(c)
    /\ promised' = {}

Next ==
    \E c \in Calls : \/ Share(c) \/ Unshare(c) \/ Own(c) \/ Disown(c)
                     \/ Announce(c) \/ Retract(c)
                     \/ ShareBesideOwner(c) \/ RetractAll(c)

Spec == Init /\ [][Next]_<<sharing, owning, exclusive, promised>>
=============================================================================
