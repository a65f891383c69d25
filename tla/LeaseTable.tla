------------------------------ MODULE LeaseTable ------------------------------
(***************************************************************************)
(* What roam/leases/store.py promises to agents that share a repository: a *)
(* table of leases, each granted once and in one step, to a claim that no  *)
(* lease it could know of stands against; a lease ends for good, and is    *)
(* called expired only when it is.  How a claim looks for conflicts, and   *)
(* that releases and sweeps write back copies, does not show, but for the  *)
(* one departure from the store's own documentation named below.           *)
(***************************************************************************)
EXTENDS Naturals

CONSTANTS Agents, Ids, Subjects,
          Ttls,     \* how long leases are asked for
          Absent    \* no lease was granted under this id

VARIABLES
    granted,  \* the lease of each id
    now,      \* the wall clock
    asked     \* the claim of each agent that is being decided, if any

Granted == {id \in Ids : granted[id] # Absent}

Init ==
    /\ granted = [id \in Ids |-> Absent]
    /\ now = 0
    /\ asked = [p \in Agents |-> {}]

\* A lease that is in force stands against a claim on any of its files.
StandsAgainst(id, subject) ==
    /\ granted[id].state = "active"
    /\ now < granted[id].expires
    /\ granted[id].subject \cap subject # {}

\* From here on the claim answers for every lease already granted.
Ask(p, subject, ttl) ==
    /\ asked[p] = {}
    /\ asked' = [asked EXCEPT ![p] = {[subject |-> subject, ttl |-> ttl,
                                       at |-> now, known |-> Granted]}]
    /\ UNCHANGED <<granted, now>>

\* The lease runs for its ttl, from some moment since the claim was made.
Grant(p, id) ==
    /\ granted[id] = Absent
    /\ \E claim \in asked[p] :
        /\ \A other \in claim.known : ~StandsAgainst(other, claim.subject)
        /\ \E from \in claim.at..now :
              granted' = [granted EXCEPT ![id] = [subject |-> claim.subject, state |-> "active",
                                                  expires |-> from + claim.ttl]]
    /\ asked' = [asked EXCEPT ![p] = {}]
    /\ UNCHANGED now

\* A claim is refused, or its agent is gone.
Withdraw(p) ==
    /\ asked[p] # {}
    /\ asked' = [asked EXCEPT ![p] = {}]
    /\ UNCHANGED <<granted, now>>

InState(id, state) ==
    /\ granted' = [granted EXCEPT ![id].state = state]
    /\ UNCHANGED <<now, asked>>

Over(id) == now >= granted[id].expires

\* A lease that is in force is given back.
Release(id) ==
    /\ id \in Granted /\ ~Over(id)
    /\ granted[id].state = "active"
    /\ InState(id, "released")

\* A lease that nobody gave back is over.
Expire(id) ==
    /\ id \in Granted /\ Over(id)
    /\ granted[id].state = "active"
    /\ InState(id, "expired")

Tick ==
    /\ now' = now + 1
    /\ UNCHANGED <<granted, asked>>

\* What the documentation promises.
Promised ==
    \/ \E p \in Agents : \/ \E subject \in Subjects, ttl \in Ttls : Ask(p, subject, ttl)
                         \/ \E id \in Ids : Grant(p, id)
                         \/ Withdraw(p)
    \/ \E id \in Ids : Release(id) \/ Expire(id)
    \/ Tick

\* What it denies and the store does: a lease that is over changes its label.
\* "Releasing an already-released or already-expired lease is a no-op"
\* (leases/store.py:640-642), yet one that is over becomes released; sweeps
\* skip "already-released" leases (815-816), yet a copy read before the release
\* makes one expired.
Relabelled(id) ==
    /\ id \in Granted /\ Over(id)
    /\ \/ InState(id, "released")
       \/ granted[id].state = "released" /\ InState(id, "expired")

Next == Promised \/ \E id \in Ids : Relabelled(id)

Spec == Init /\ [][Next]_<<granted, now, asked>>
=============================================================================
