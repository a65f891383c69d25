------------------------------ MODULE LeaseStore ------------------------------
(***************************************************************************)
(* The lease store of the multi-agent lease system: roam/leases/store.py.  *)
(* A lease is a JSON file, written atomically (see AtomicInstall); agents  *)
(* claim sets of files, release leases and sweep expired ones.  No lock is *)
(* taken: an operation reads the files one by one, and a read-modify-write *)
(* may overwrite what another agent wrote meanwhile.                       *)
(***************************************************************************)
EXTENDS Naturals, FiniteSets

CONSTANTS Agents,     \* processes that use the store
          Files,      \* what a subject is made of
          MaxClaims,  \* bound: claims written by one agent
          MaxTtl,     \* bound: ttl_seconds of a lease
          MaxTime     \* bound: the wall clock

ASSUME LeaseAssumption ==
    /\ MaxClaims \in Nat /\ MaxTtl \in Nat /\ MaxTime \in Nat

\* The id is a hash over time, agent and subject, and one in use is skipped:
\* an agent's n-th claim has an id of its own.
Ids == Agents \X (1..MaxClaims)

Subjects == (SUBSET Files) \ {{}}
States == {"active", "released", "expired"}
Lease == [subject : Subjects, expires : Nat, state : States]

\* No lease file has this id.
Absent == [subject |-> {}, expires |-> 0, state |-> "absent"]

VARIABLES
    disk,     \* the lease file of each id
    now,      \* the wall clock
    claims,   \* claims each agent has written
    agent,    \* what each agent is doing
    scanned   \* auxiliary: lease files a claim's conflict scan looked at

vars == <<disk, now, claims, agent, scanned>>

Pcs == {"idle", "gc", "gcwrite", "scan", "write", "relwrite"}

\* What an agent knows: whether its sweep belongs to a claim, the subject and
\* ttl it asks for, the time its scan runs at, the files still to read, the
\* files its conflict scan listed, and the lease it read and will write back.
Activity == [pc : Pcs, claim : BOOLEAN, subject : SUBSET Files, ttl : Nat, at : Nat,
             todo : SUBSET Ids, listed : SUBSET Ids,
             id : SUBSET Ids, copy : Lease \cup {Absent}]

Idle == [pc |-> "idle", claim |-> FALSE, subject |-> {}, ttl |-> 0, at |-> 0,
         todo |-> {}, listed |-> {}, id |-> {}, copy |-> Absent]

TypeOK ==
    /\ disk \in [Ids -> Lease \cup {Absent}]
    /\ now \in Nat
    /\ claims \in [Agents -> 0..MaxClaims]
    /\ agent \in [Agents -> Activity]
    /\ scanned \in [Ids -> SUBSET Ids]

OnDisk == {id \in Ids : disk[id] # Absent}

Init ==
    /\ disk = [id \in Ids |-> Absent]
    /\ now = 0
    /\ claims = [p \in Agents |-> 0]
    /\ agent = [p \in Agents |-> Idle]
    /\ scanned = [id \in Ids |-> {}]

Now(p, activity) == agent' = [agent EXCEPT ![p] = activity]

-----------------------------------------------------------------------------
(* A definition named Bug... is the one that follows it with a plausible    *)
(* mistake; the runs use it to show that a property notices the mistake.    *)

\* _is_wall_clock_expired_at.
ExpiredAt(lease, time) == time >= lease.expires

\* What the sweep rewrites.
Sweepable(lease, time) == lease.state = "active" /\ ExpiredAt(lease, time)

BugConflicts(lease, time, subject) ==
    lease.state = "active" /\ ~ExpiredAt(lease, time + 1) /\ lease.subject \cap subject # {}

\* The test of find_conflict on one lease.
Conflicts(lease, time, subject) ==
    /\ lease.state = "active"
    /\ ~ExpiredAt(lease, time)
    /\ lease.subject \cap subject # {}

\* Both claim_lease and gc_expired_leases begin with a sweep: the directory is
\* listed once, and one time holds for all of it.
BeginSweep(p, claim, subject, ttl) ==
    /\ agent[p].pc = "idle"
    /\ Now(p, [Idle EXCEPT !.pc = "gc", !.claim = claim, !.subject = subject,
                           !.ttl = ttl, !.at = now, !.todo = OnDisk])
    /\ UNCHANGED <<disk, now, claims, scanned>>

BeginClaim(p, subject, ttl) ==
    /\ claims[p] < MaxClaims
    /\ BeginSweep(p, TRUE, subject, ttl)

BeginGc(p) == BeginSweep(p, FALSE, {}, 0)

\* The sweep reads the next lease; an active one that has expired will be
\* written back.
GcRead(p, id) ==
    LET lease == disk[id] IN
    /\ agent[p].pc = "gc"
    /\ id \in agent[p].todo
    /\ Now(p, IF Sweepable(lease, agent[p].at)
              THEN [agent[p] EXCEPT !.pc = "gcwrite", !.todo = @ \ {id},
                                    !.id = {id}, !.copy = lease]
              ELSE [agent[p] EXCEPT !.todo = @ \ {id}])
    /\ UNCHANGED <<disk, now, claims, scanned>>

\* The copy is written as expired over whatever the file is now; or the write
\* fails, and the sweep goes on all the same.
GcWrite(p) ==
    /\ agent[p].pc = "gcwrite"
    /\ \/ \E id \in agent[p].id :
            disk' = [disk EXCEPT ![id] = [agent[p].copy EXCEPT !.state = "expired"]]
       \/ UNCHANGED disk
    /\ Now(p, [agent[p] EXCEPT !.pc = "gc", !.id = {}, !.copy = Absent])
    /\ UNCHANGED <<now, claims, scanned>>

GcEnd(p) ==
    /\ agent[p].pc = "gc"
    /\ agent[p].todo = {}
    /\ ~agent[p].claim
    /\ Now(p, Idle)
    /\ UNCHANGED <<disk, now, claims, scanned>>

\* find_conflict lists the directory and takes the time anew.  (A sweep that
\* could not list the directory is skipped.)
BeginScan(p) ==
    /\ agent[p].pc = "gc"
    /\ agent[p].claim
    /\ Now(p, [agent[p] EXCEPT !.pc = "scan", !.at = now, !.todo = OnDisk, !.listed = OnDisk])
    /\ UNCHANGED <<disk, now, claims, scanned>>

\* A conflicting lease blocks the claim, any other is passed over.
ScanRead(p, id) ==
    /\ agent[p].pc = "scan"
    /\ id \in agent[p].todo
    /\ Now(p, IF Conflicts(disk[id], agent[p].at, agent[p].subject) THEN Idle
              ELSE [agent[p] EXCEPT !.todo = @ \ {id}])
    /\ UNCHANGED <<disk, now, claims, scanned>>

\* No conflict: the lease is stamped, and then written.
Stamp(p) ==
    /\ agent[p].pc = "scan"
    /\ agent[p].todo = {}
    /\ Now(p, [agent[p] EXCEPT !.pc = "write",
                   !.copy = [subject |-> agent[p].subject, state |-> "active",
                             expires |-> now + agent[p].ttl]])
    /\ UNCHANGED <<disk, now, claims, scanned>>

\* A hash over too little: claims share an id.
BugNextId(p) == <<p, 1>>

\* An id in use is skipped.
NextId(p) == <<p, claims[p] + 1>>

WriteClaim(p) ==
    /\ agent[p].pc = "write"
    /\ claims[p] < MaxClaims
    /\ disk' = [disk EXCEPT ![NextId(p)] = agent[p].copy]
    /\ scanned' = [scanned EXCEPT ![NextId(p)] = agent[p].listed]
    /\ claims' = [claims EXCEPT ![p] = @ + 1]
    /\ Now(p, Idle)
    /\ UNCHANGED now

\* There is a lease to load, and it is not released already.
ReadForRelease(id) == id \in OnDisk /\ disk[id].state # "released"

\* Anyone who knows its id may release a lease; a released one stays as it is.
BeginRelease(p, id) ==
    /\ agent[p].pc = "idle"
    /\ ReadForRelease(id)
    /\ Now(p, [Idle EXCEPT !.pc = "relwrite", !.id = {id}, !.copy = disk[id]])
    /\ UNCHANGED <<disk, now, claims, scanned>>

WriteRelease(p) ==
    /\ agent[p].pc = "relwrite"
    /\ \E id \in agent[p].id :
          disk' = [disk EXCEPT ![id] = [agent[p].copy EXCEPT !.state = "released"]]
    /\ Now(p, Idle)
    /\ UNCHANGED <<now, claims, scanned>>

\* The process dies or its write fails.
Abandon(p) ==
    /\ agent[p].pc # "idle"
    /\ Now(p, Idle)
    /\ UNCHANGED <<disk, now, claims, scanned>>

Tick ==
    /\ now < MaxTime
    /\ now' = now + 1
    /\ UNCHANGED <<disk, claims, agent, scanned>>

Next ==
    \/ \E p \in Agents :
        \/ \E subject \in Subjects, ttl \in 1..MaxTtl : BeginClaim(p, subject, ttl)
        \/ \E id \in Ids : GcRead(p, id) \/ ScanRead(p, id) \/ BeginRelease(p, id)
        \/ BeginGc(p) \/ GcWrite(p) \/ GcEnd(p)
        \/ BeginScan(p) \/ Stamp(p) \/ WriteClaim(p)
        \/ WriteRelease(p) \/ Abandon(p)
    \/ Tick

Spec == Init /\ [][Next]_vars

-----------------------------------------------------------------------------
(* Safety *)

\* A lease that holds its subject now.
Live(id) == disk[id].state = "active" /\ ~ExpiredAt(disk[id], now)

Overlap(id, other) ==
    id # other /\ Live(id) /\ Live(other) /\ disk[id].subject \cap disk[other].subject # {}

\* Two agents hold the same file only when their claims raced: neither claim's
\* conflict scan had listed the other's lease.  Whatever sweeps, releases and
\* expiries happen in between, a claim that starts later is blocked.
OverlapOnlyByRace ==
    \A id, other \in Ids : Overlap(id, other) => other \notin scanned[id]

\* A sweep never takes a lease from an agent that may still use it.
SweepsOnlyExpired ==
    \A id \in Ids : disk[id].state = "expired" => ExpiredAt(disk[id], now)

\* No interleaving of sweeps and releases brings an ended lease back to life,
\* or changes what an existing lease is about.
EndedStaysEnded ==
    [][\A id \in Ids : disk[id] # Absent =>
         /\ disk'[id].subject = disk[id].subject
         /\ disk'[id].expires = disk[id].expires
         /\ disk'[id].state = "active" => disk[id].state = "active"]_vars

-----------------------------------------------------------------------------
(* The inductive invariant behind the safety properties *)

\* The lease can no longer stand in the way of a claim on subject.
OutOfTheWay(id, subject) ==
    /\ disk[id] # Absent
    /\ disk[id].state = "active" => ExpiredAt(disk[id], now) \/ disk[id].subject \cap subject = {}

\* Ids not handed out yet.
UnusedIds == \A p \in Agents, n \in 1..MaxClaims :
    n > claims[p] => disk[<<p, n>>] = Absent /\ scanned[<<p, n>>] = {}

\* A copy to be written back still has the subject and expiry of its file.
CopyFaithful(a) ==
    a.pc \in {"gcwrite", "relwrite"} =>
        /\ a.copy \in Lease
        /\ a.pc = "gcwrite" => ExpiredAt(a.copy, now)
        /\ \A id \in a.id : /\ disk[id] # Absent
                            /\ disk[id].subject = a.copy.subject
                            /\ disk[id].expires = a.copy.expires

\* What a conflict scan has passed over stays out of the way.
ScanFaithful(a) ==
    /\ a.at <= now
    /\ a.claim => a.subject # {} /\ a.ttl \in 1..MaxTtl
    /\ a.pc = "scan" => a.claim
    /\ a.pc = "write" =>
          /\ a.copy \in Lease /\ a.copy.state = "active"
          /\ a.copy.subject = a.subject /\ a.todo = {}
          /\ a.at + a.ttl <= a.copy.expires /\ a.copy.expires <= now + a.ttl
    /\ a.pc \in {"scan", "write"} =>
          /\ \A id \in a.listed : disk[id] # Absent
          /\ \A id \in a.listed \ a.todo : OutOfTheWay(id, a.subject)

ScannedOutOfTheWay ==
    \A id \in Ids : \A other \in scanned[id] : OutOfTheWay(other, disk[id].subject)

StoreInv ==
    /\ TypeOK
    /\ UnusedIds
    /\ \A p \in Agents : CopyFaithful(agent[p]) /\ ScanFaithful(agent[p])
    /\ ScannedOutOfTheWay
    /\ SweepsOnlyExpired

-----------------------------------------------------------------------------
(* What the store promises *)

\* The claim that an agent's conflict scan and its write decide.
Claim(a) ==
    IF a.pc \in {"scan", "write"}
    THEN {[subject |-> a.subject, ttl |-> a.ttl, at |-> a.at, known |-> a.listed]}
    ELSE {}

Asked == [p \in Agents |-> Claim(agent[p])]

Table == INSTANCE LeaseTable WITH Ttls <- 1..MaxTtl, granted <- disk, asked <- Asked

\* File by file scans, stale copies that are written back, failed writes and
\* deaths look to every agent like one table in which a claim is decided at
\* once: no lease a claim could know of is in force when it is granted, its ttl
\* is kept, and what has ended stays ended.  Only the label of a lease that is
\* over may change, against the documentation (LeaseTable!Relabelled): a lease
\* in force never looks expired, and one that is over never in force.
ImplementsLeaseTable == Table!Spec
=============================================================================
