--------------------------- MODULE LeaseStoreProofs ---------------------------
(***************************************************************************)
(* TLAPS proofs about the lease store, for any agents, files and bounds.   *)
(* The argument: whatever agents interleave, a lease file only ever moves  *)
(* on (Later), and what a conflict scan has passed over stays out of the   *)
(* way while leases move on.                                               *)
(***************************************************************************)
EXTENDS LeaseStore, TLAPS

\* Leases move on: never back to active, never about something else.
Later ==
    /\ now <= now'
    /\ \A id \in Ids : disk[id] # Absent =>
          /\ disk'[id] # Absent
          /\ disk'[id].subject = disk[id].subject
          /\ disk'[id].expires = disk[id].expires
          /\ disk'[id].state = "active" => disk[id].state = "active"

LEMMA Constants == Idle \in Activity /\ Absent \notin Lease
BY DEF Idle, Activity, Pcs, Absent, Lease, States

\* An ended lease or one about other files stays out of the way.
LEMMA OutStaysOut ==
    ASSUME TypeOK, now' \in Nat, Later, NEW id \in Ids, NEW subject, OutOfTheWay(id, subject)
    PROVE  OutOfTheWay(id, subject)'
<1>1. disk[id] # Absent /\ disk[id].expires \in Nat
  BY DEF OutOfTheWay, TypeOK, Lease, Absent
<1>2. ExpiredAt(disk[id], now) => ExpiredAt(disk'[id], now')
  BY <1>1 DEF Later, ExpiredAt, TypeOK
<1> QED BY <1>1, <1>2 DEF Later, OutOfTheWay

\* What an agent knows stays right while others move leases on.
LEMMA KnowledgeStays ==
    ASSUME TypeOK, now' \in Nat, Later, NEW a \in Activity, CopyFaithful(a), ScanFaithful(a)
    PROVE  CopyFaithful(a)' /\ ScanFaithful(a)'
<1>1. CopyFaithful(a)'
  <2> SUFFICES ASSUME a.pc \in {"gcwrite", "relwrite"}
               PROVE  /\ a.copy \in Lease
                      /\ a.pc = "gcwrite" => ExpiredAt(a.copy, now')
                      /\ \A id \in a.id : /\ disk'[id] # Absent
                                          /\ disk'[id].subject = a.copy.subject
                                          /\ disk'[id].expires = a.copy.expires
    BY DEF CopyFaithful
  <2>1. a.copy \in Lease /\ a.copy.expires \in Nat
    BY DEF CopyFaithful, Lease
  <2>2. a.pc = "gcwrite" => ExpiredAt(a.copy, now')
    BY <2>1 DEF CopyFaithful, ExpiredAt, Later, TypeOK
  <2>3. \A id \in a.id : id \in Ids
    BY DEF Activity
  <2>4. \A id \in a.id : /\ disk'[id] # Absent
                         /\ disk'[id].subject = a.copy.subject
                         /\ disk'[id].expires = a.copy.expires
    BY <2>3 DEF CopyFaithful, Later
  <2> QED BY <2>1, <2>2, <2>4
<1>2. ScanFaithful(a)'
  <2>1. a.at <= now'
    BY DEF ScanFaithful, Later, TypeOK, Activity
  <2>2. a.listed \subseteq Ids
    BY DEF Activity
  <2>3. a.pc \in {"scan", "write"} => \A id \in a.listed : disk'[id] # Absent
    BY <2>2 DEF ScanFaithful, Later
  <2>4. a.pc \in {"scan", "write"} =>
            \A id \in a.listed \ a.todo : OutOfTheWay(id, a.subject)'
    BY <2>2, OutStaysOut DEF ScanFaithful
  <2>5. a.pc = "write" => a.at + a.ttl <= a.copy.expires /\ a.copy.expires <= now' + a.ttl
    BY DEF ScanFaithful, Later, TypeOK, Activity, Lease
  <2> QED BY <2>1, <2>3, <2>4, <2>5 DEF ScanFaithful
<1> QED BY <1>1, <1>2

\* The agents' part of the invariant, when one agent does something.
LEMMA OthersKnow ==
    ASSUME StoreInv, now' \in Nat, Later, NEW p \in Agents, NEW a \in Activity, Now(p, a),
           CopyFaithful(a)', ScanFaithful(a)'
    PROVE  \A q \in Agents : CopyFaithful(agent[q])' /\ ScanFaithful(agent[q])'
<1> SUFFICES ASSUME NEW q \in Agents
             PROVE  CopyFaithful(agent[q])' /\ ScanFaithful(agent[q])'
  OBVIOUS
<1>1. CASE q = p
  <2>1. agent'[q] = a
    BY <1>1 DEF Now, StoreInv, TypeOK
  <2> QED BY <2>1 DEF CopyFaithful, ScanFaithful
<1>2. CASE q # p
  <2>1. agent'[q] = agent[q]
    BY <1>2 DEF Now, StoreInv, TypeOK
  <2>2. agent[q] \in Activity /\ TypeOK /\ CopyFaithful(agent[q]) /\ ScanFaithful(agent[q])
    BY DEF StoreInv, TypeOK
  <2> DEFINE b == agent[q]
  <2>3. \A c \in Activity : CopyFaithful(c) /\ ScanFaithful(c)
                              => CopyFaithful(c)' /\ ScanFaithful(c)'
    BY <2>2, KnowledgeStays
  <2>4. PICK c \in Activity : c = agent[q]
    BY <2>2
  <2>5. CopyFaithful(c)' /\ ScanFaithful(c)'
    BY <2>2, <2>3, <2>4
  <2> QED BY <2>1, <2>4, <2>5 DEF CopyFaithful, ScanFaithful
<1> QED BY <1>1, <1>2

\* A step that only changes what one agent knows.
LEMMA QuietStep ==
    ASSUME StoreInv, UNCHANGED <<disk, now, claims, scanned>>,
           NEW p \in Agents, NEW a \in Activity, Now(p, a), CopyFaithful(a), ScanFaithful(a)
    PROVE  StoreInv' /\ Later
<1>1. TypeOK /\ now' \in Nat
  BY DEF StoreInv, TypeOK
<1>2. Later
  BY <1>1 DEF Later, TypeOK
<1>3. TypeOK'
  BY <1>1 DEF TypeOK, Now
<1>4. UnusedIds' /\ SweepsOnlyExpired'
  BY DEF StoreInv, UnusedIds, SweepsOnlyExpired, ExpiredAt
<1>5. ScannedOutOfTheWay'
  BY DEF StoreInv, ScannedOutOfTheWay, OutOfTheWay, ExpiredAt
<1>6. CopyFaithful(a)' /\ ScanFaithful(a)'
  BY <1>1, <1>2, KnowledgeStays
<1> QED BY <1>1, <1>2, <1>3, <1>4, <1>5, <1>6, OthersKnow DEF StoreInv

\* A step that rewrites the state of one lease and leaves the agent idle.
LEMMA RewriteStep ==
    ASSUME StoreInv, UNCHANGED <<now, claims, scanned>>,
           NEW p \in Agents, NEW id \in Ids, NEW state \in {"expired", "released"},
           agent[p].pc \in {"gcwrite", "relwrite"}, id \in agent[p].id,
           state = "expired" => ExpiredAt(agent[p].copy, now),
           disk' = [disk EXCEPT ![id] = [agent[p].copy EXCEPT !.state = state]],
           NEW a \in Activity, Now(p, a), CopyFaithful(a), ScanFaithful(a)
    PROVE  StoreInv' /\ Later
<1> DEFINE lease == [agent[p].copy EXCEPT !.state = state]
<1>1. TypeOK /\ now' \in Nat /\ agent[p] \in Activity
  BY DEF StoreInv, TypeOK
<1>2. /\ agent[p].copy \in Lease
      /\ disk[id] # Absent
      /\ disk[id].subject = agent[p].copy.subject
      /\ disk[id].expires = agent[p].copy.expires
  BY DEF StoreInv, CopyFaithful
<1>3. /\ lease \in Lease
      /\ lease.state = state
      /\ lease.subject = agent[p].copy.subject
      /\ lease.expires = agent[p].copy.expires
  BY <1>2 DEF Lease, States
<1> HIDE DEF lease
<1>4. disk'[id] = lease /\ \A o \in Ids : o # id => disk'[o] = disk[o]
  BY <1>1 DEF lease, TypeOK
<1>5. Later
  BY <1>1, <1>2, <1>3, <1>4, Constants DEF Later, TypeOK
<1>6. TypeOK'
  BY <1>1, <1>3 DEF TypeOK, Now, lease
<1>7. UnusedIds'
  <2> SUFFICES ASSUME NEW q \in Agents, NEW n \in 1..MaxClaims, n > claims[q]
               PROVE  disk'[<<q, n>>] = Absent /\ scanned[<<q, n>>] = {}
    BY DEF UnusedIds
  <2>1. <<q, n>> \in Ids /\ disk[<<q, n>>] = Absent /\ scanned[<<q, n>>] = {}
    BY DEF StoreInv, UnusedIds, Ids
  <2> QED BY <2>1, <1>2, <1>4
<1>8. SweepsOnlyExpired'
  BY <1>2, <1>3, <1>4 DEF StoreInv, SweepsOnlyExpired, ExpiredAt
<1>9. ScannedOutOfTheWay'
  <2> SUFFICES ASSUME NEW i \in Ids, NEW other \in scanned[i]
               PROVE  OutOfTheWay(other, disk[i].subject)'
    BY DEF ScannedOutOfTheWay
  <2>1. other \in Ids /\ OutOfTheWay(other, disk[i].subject)
    BY <1>1 DEF StoreInv, ScannedOutOfTheWay, TypeOK
  <2>2. disk'[i].subject = disk[i].subject
    BY <1>2, <1>3, <1>4
  <2>3. PICK subject : subject = disk[i].subject
    OBVIOUS
  <2>4. OutOfTheWay(other, subject)'
    BY <1>1, <1>5, <2>1, <2>3, OutStaysOut
  <2> QED BY <2>2, <2>3, <2>4 DEF OutOfTheWay
<1>10. CopyFaithful(a)' /\ ScanFaithful(a)'
  BY <1>1, <1>5, KnowledgeStays
<1> QED BY <1>1, <1>5, <1>6, <1>7, <1>8, <1>9, <1>10, OthersKnow DEF StoreInv

\* A claim is written where no lease was, after a scan that nothing stood in.
LEMMA WriteClaimStep ==
    ASSUME StoreInv, NEW p \in Agents, WriteClaim(p) PROVE StoreInv' /\ Later
<1> DEFINE new == <<p, claims[p] + 1>>
           lease == agent[p].copy
<1>1. TypeOK /\ now' \in Nat /\ agent[p] \in Activity /\ claims[p] \in 0..MaxClaims
  BY DEF StoreInv, TypeOK, WriteClaim
<1>2. /\ lease \in Lease
      /\ lease.subject = agent[p].subject
      /\ \A id \in agent[p].listed : disk[id] # Absent /\ OutOfTheWay(id, agent[p].subject)
  BY DEF StoreInv, ScanFaithful, WriteClaim
<1>3. new \in Ids /\ claims[p] + 1 \in 1..MaxClaims
  BY <1>1, LeaseAssumption DEF WriteClaim, Ids
<1>4. disk[new] = Absent /\ scanned[new] = {}
  BY <1>1, <1>3 DEF StoreInv, UnusedIds
<1>5. UNCHANGED now /\ Now(p, Idle)
  BY DEF WriteClaim
<1>6. disk' = [disk EXCEPT ![new] = lease]
  BY DEF WriteClaim, NextId
<1>7. scanned' = [scanned EXCEPT ![new] = agent[p].listed]
  BY DEF WriteClaim, NextId
<1>8. claims' = [claims EXCEPT ![p] = @ + 1]
  BY DEF WriteClaim
<1>9. agent[p].listed \subseteq Ids
  BY <1>1 DEF Activity
<1> HIDE DEF new, lease
<1>10. /\ disk'[new] = lease
       /\ \A id \in Ids : id # new => disk'[id] = disk[id]
       /\ scanned'[new] = agent[p].listed
       /\ \A id \in Ids : id # new => scanned'[id] = scanned[id]
  BY <1>1, <1>3, <1>6, <1>7 DEF TypeOK
<1>11. Later
  BY <1>1, <1>4, <1>5, <1>10 DEF Later, TypeOK
<1>12. TypeOK'
  <2>1. disk' \in [Ids -> Lease \cup {Absent}]
    BY <1>1, <1>2, <1>6 DEF TypeOK
  <2>2. scanned' \in [Ids -> SUBSET Ids]
    BY <1>1, <1>7, <1>9 DEF TypeOK
  <2>3. claims' \in [Agents -> 0..MaxClaims]
    BY <1>1, <1>3, <1>8 DEF TypeOK
  <2>4. agent' \in [Agents -> Activity]
    BY <1>1, <1>5, Constants DEF TypeOK, Now
  <2> QED BY <1>1, <2>1, <2>2, <2>3, <2>4 DEF TypeOK
<1>13. UnusedIds'
  <2> SUFFICES ASSUME NEW q \in Agents, NEW n \in 1..MaxClaims, n > claims'[q]
               PROVE  disk'[<<q, n>>] = Absent /\ scanned'[<<q, n>>] = {}
    BY DEF UnusedIds
  <2>1. claims[q] \in Nat /\ claims[p] \in Nat
    BY <1>1 DEF TypeOK
  <2>2. n > claims[q] /\ (q = p => n # claims[p] + 1)
    BY <1>1, <1>8, <2>1 DEF TypeOK
  <2>3. <<q, n>> \in Ids /\ <<q, n>> # new
    BY <2>2 DEF Ids, new
  <2> QED BY <1>10, <2>2, <2>3 DEF StoreInv, UnusedIds
<1>14. SweepsOnlyExpired'
  <2> SUFFICES ASSUME NEW id \in Ids, disk'[id].state = "expired"
               PROVE  ExpiredAt(disk'[id], now')
    BY DEF SweepsOnlyExpired
  <2>1. CASE id = new
    <3>1. lease.state = "active"
      BY DEF StoreInv, ScanFaithful, WriteClaim, lease
    <3> QED BY <1>10, <2>1, <3>1
  <2>2. CASE id # new
    BY <1>5, <1>10, <2>2 DEF StoreInv, SweepsOnlyExpired
  <2> QED BY <2>1, <2>2
<1>15. ScannedOutOfTheWay'
  <2> SUFFICES ASSUME NEW id \in Ids, NEW other \in scanned'[id]
               PROVE  OutOfTheWay(other, disk[id].subject)'
    BY DEF ScannedOutOfTheWay
  <2>1. PICK subject : subject = disk'[id].subject
    OBVIOUS
  <2>2. other \in Ids /\ OutOfTheWay(other, subject)
    <3>1. CASE id = new
      BY <1>2, <1>9, <1>10, <2>1, <3>1
    <3>2. CASE id # new
      BY <1>1, <1>10, <2>1, <3>2 DEF StoreInv, ScannedOutOfTheWay, TypeOK
    <3> QED BY <3>1, <3>2
  <2>3. OutOfTheWay(other, subject)'
    BY <1>1, <1>11, <2>2, OutStaysOut
  <2> QED BY <2>1, <2>3 DEF OutOfTheWay
<1>16. CopyFaithful(Idle)' /\ ScanFaithful(Idle)'
  BY <1>1, <1>5 DEF CopyFaithful, ScanFaithful, Idle, TypeOK
<1> QED BY <1>1, <1>5, <1>11, <1>12, <1>13, <1>14, <1>15, <1>16, OthersKnow, Constants DEF StoreInv

\* The idle agent knows nothing that could be wrong.
LEMMA IdleFaithful == ASSUME TypeOK PROVE CopyFaithful(Idle) /\ ScanFaithful(Idle)
BY DEF CopyFaithful, ScanFaithful, Idle, TypeOK

\* The invariant is inductive, and leases move on, action by action.
LEMMA StepMovesOn == ASSUME StoreInv, [Next]_vars PROVE StoreInv' /\ Later
<1> USE DEF StoreInv
<1>1. TypeOK /\ now \in Nat /\ disk \in [Ids -> Lease \cup {Absent}]
      /\ OnDisk \subseteq Ids /\ \A id \in OnDisk : disk[id] \in Lease
  BY DEF TypeOK, OnDisk
<1>2. ASSUME NEW p \in Agents
      PROVE  agent[p] \in Activity /\ CopyFaithful(agent[p]) /\ ScanFaithful(agent[p])
  BY DEF TypeOK
<1>3. ASSUME NEW p \in Agents, NEW claim \in BOOLEAN, NEW subject \in SUBSET Files, NEW ttl \in Nat,
             claim => subject # {} /\ ttl \in 1..MaxTtl,
             BeginSweep(p, claim, subject, ttl)
      PROVE  StoreInv' /\ Later
  <2> DEFINE a == [Idle EXCEPT !.pc = "gc", !.claim = claim, !.subject = subject,
                               !.ttl = ttl, !.at = now, !.todo = OnDisk]
  <2>1. a \in Activity
    BY <1>1, <1>3 DEF Activity, Pcs, Idle
  <2>2. CopyFaithful(a) /\ ScanFaithful(a)
    BY <1>1, <1>3 DEF CopyFaithful, ScanFaithful, Idle
  <2> QED BY <1>3, <2>1, <2>2, QuietStep DEF BeginSweep
<1>4. ASSUME NEW p \in Agents, NEW subject \in Subjects, NEW ttl \in 1..MaxTtl,
             BeginClaim(p, subject, ttl)
      PROVE  StoreInv' /\ Later
  <2>1. subject \in SUBSET Files /\ subject # {} /\ ttl \in Nat
    BY LeaseAssumption DEF Subjects
  <2>2. BeginSweep(p, TRUE, subject, ttl)
    BY <1>4 DEF BeginClaim
  <2> HIDE DEF StoreInv
  <2> QED BY <1>3, <2>1, <2>2
<1>5. ASSUME NEW p \in Agents, BeginGc(p) PROVE StoreInv' /\ Later
  BY <1>3, <1>5 DEF BeginGc
<1>6. ASSUME NEW p \in Agents, NEW id \in Ids, GcRead(p, id) PROVE StoreInv' /\ Later
  <2>1. CASE Sweepable(disk[id], agent[p].at)
    <3> DEFINE a == [agent[p] EXCEPT !.pc = "gcwrite", !.todo = @ \ {id},
                                     !.id = {id}, !.copy = disk[id]]
    <3>1. disk[id] \in Lease /\ disk[id] # Absent /\ disk[id].expires \in Nat
      BY <1>1, <2>1 DEF Sweepable, Absent, Lease
    <3>2. a \in Activity
      BY <1>2, <3>1 DEF Activity, Pcs
    <3>3. ExpiredAt(disk[id], now)
      BY <1>1, <1>2, <2>1, <3>1 DEF Sweepable, ExpiredAt, ScanFaithful, Activity
    <3>4. CopyFaithful(a) /\ ScanFaithful(a)
      BY <1>2, <3>1, <3>3 DEF CopyFaithful, ScanFaithful, Activity
    <3> QED BY <1>6, <2>1, <3>2, <3>4, QuietStep DEF GcRead
  <2>2. CASE ~Sweepable(disk[id], agent[p].at)
    <3> DEFINE a == [agent[p] EXCEPT !.todo = @ \ {id}]
    <3>1. a \in Activity
      BY <1>2 DEF Activity
    <3>2. CopyFaithful(a) /\ ScanFaithful(a)
      BY <1>2, <1>6 DEF CopyFaithful, ScanFaithful, Activity, GcRead
    <3> QED BY <1>6, <2>2, <3>1, <3>2, QuietStep DEF GcRead
  <2> QED BY <2>1, <2>2
<1>7. ASSUME NEW p \in Agents, GcWrite(p) PROVE StoreInv' /\ Later
  <2> DEFINE a == [agent[p] EXCEPT !.pc = "gc", !.id = {}, !.copy = Absent]
  <2>1. a \in Activity
    BY <1>2 DEF Activity, Pcs
  <2>2. CopyFaithful(a) /\ ScanFaithful(a)
    BY <1>2, <1>7 DEF CopyFaithful, ScanFaithful, Activity, GcWrite
  <2>3. CASE UNCHANGED disk
    BY <1>7, <2>1, <2>2, <2>3, QuietStep DEF GcWrite
  <2>4. CASE \E id \in agent[p].id :
               disk' = [disk EXCEPT ![id] = [agent[p].copy EXCEPT !.state = "expired"]]
    <3>1. PICK id \in agent[p].id :
               disk' = [disk EXCEPT ![id] = [agent[p].copy EXCEPT !.state = "expired"]]
      BY <2>4
    <3>2. id \in Ids
      BY <1>2 DEF Activity
    <3>3. agent[p].pc = "gcwrite" /\ ExpiredAt(agent[p].copy, now)
      BY <1>2, <1>7 DEF GcWrite, CopyFaithful
    <3>4. Now(p, a) /\ UNCHANGED <<now, claims, scanned>>
      BY <1>7 DEF GcWrite
    <3> HIDE DEF a
    <3> QED BY <2>1, <2>2, <3>1, <3>2, <3>3, <3>4, RewriteStep
  <2> QED BY <1>7, <2>3, <2>4 DEF GcWrite
<1>8. ASSUME NEW p \in Agents, GcEnd(p) \/ Abandon(p) PROVE StoreInv' /\ Later
  BY <1>1, <1>8, QuietStep, IdleFaithful, Constants DEF GcEnd, Abandon
<1>9. ASSUME NEW p \in Agents, BeginScan(p) PROVE StoreInv' /\ Later
  <2> DEFINE a == [agent[p] EXCEPT !.pc = "scan", !.at = now, !.todo = OnDisk, !.listed = OnDisk]
  <2>1. a \in Activity
    BY <1>1, <1>2 DEF Activity, Pcs
  <2>2. CopyFaithful(a)
    BY <1>2 DEF CopyFaithful, Activity
  <2>3. \A id \in OnDisk : disk[id] # Absent
    BY DEF OnDisk
  <2>4. ScanFaithful(a)
    BY <1>1, <1>2, <1>9, <2>3 DEF ScanFaithful, Activity, BeginScan
  <2> QED BY <1>9, <2>1, <2>2, <2>4, QuietStep DEF BeginScan
<1>10. ASSUME NEW p \in Agents, NEW id \in Ids, ScanRead(p, id) PROVE StoreInv' /\ Later
  <2>1. CASE Conflicts(disk[id], agent[p].at, agent[p].subject)
    BY <1>1, <1>10, <2>1, QuietStep, IdleFaithful, Constants DEF ScanRead
  <2>2. CASE ~Conflicts(disk[id], agent[p].at, agent[p].subject)
    <3> DEFINE a == [agent[p] EXCEPT !.todo = @ \ {id}]
    <3>1. a \in Activity
      BY <1>2 DEF Activity
    <3>2. CopyFaithful(a)
      BY <1>2, <1>10 DEF CopyFaithful, Activity, ScanRead
    <3>3. id \in agent[p].listed => OutOfTheWay(id, agent[p].subject)
      <4> SUFFICES ASSUME id \in agent[p].listed, disk[id].state = "active",
                          disk[id].subject \cap agent[p].subject # {}
                   PROVE  ExpiredAt(disk[id], now)
        BY <1>2, <1>10 DEF OutOfTheWay, ScanFaithful, ScanRead
      <4>1. disk[id].expires \in Nat /\ agent[p].at \in Nat /\ agent[p].at <= now
        BY <1>1, <1>2 DEF Lease, Absent, Activity, ScanFaithful
      <4> QED BY <1>1, <2>2, <4>1 DEF Conflicts, ExpiredAt
    <3>4. ScanFaithful(a)
      BY <1>2, <1>10, <3>3 DEF ScanFaithful, Activity, ScanRead
    <3> QED BY <1>10, <2>2, <3>1, <3>2, <3>4, QuietStep DEF ScanRead
  <2> QED BY <2>1, <2>2
<1>11. ASSUME NEW p \in Agents, Stamp(p) PROVE StoreInv' /\ Later
  <2> DEFINE lease == [subject |-> agent[p].subject, state |-> "active",
                       expires |-> now + agent[p].ttl]
             a == [agent[p] EXCEPT !.pc = "write", !.copy = lease]
  <2>1. lease \in Lease
    BY <1>1, <1>2, <1>11 DEF Lease, Subjects, States, Activity, ScanFaithful, Stamp
  <2>2. a \in Activity
    BY <1>2, <2>1 DEF Activity, Pcs
  <2>3. CopyFaithful(a)
    BY <1>2 DEF CopyFaithful, Activity
  <2>4. ScanFaithful(a)
    <3>1. a.at \in Nat /\ a.at <= now /\ a.ttl \in Nat /\ lease.expires = now + a.ttl
      BY <1>1, <1>2 DEF ScanFaithful, Activity
    <3> QED BY <1>1, <1>2, <1>11, <2>1, <3>1 DEF ScanFaithful, Activity, Stamp
  <2> QED BY <1>11, <2>2, <2>3, <2>4, QuietStep DEF Stamp
<1>12. ASSUME NEW p \in Agents, WriteClaim(p) PROVE StoreInv' /\ Later
  BY <1>12, WriteClaimStep
<1>13. ASSUME NEW p \in Agents, NEW id \in Ids, BeginRelease(p, id) PROVE StoreInv' /\ Later
  <2> DEFINE a == [Idle EXCEPT !.pc = "relwrite", !.id = {id}, !.copy = disk[id]]
  <2>1. id \in OnDisk /\ disk[id] \in Lease /\ disk[id] # Absent
    BY <1>1, <1>13 DEF BeginRelease, ReadForRelease, OnDisk
  <2>2. a \in Activity
    BY <2>1 DEF Activity, Pcs, Idle
  <2>3. CopyFaithful(a) /\ ScanFaithful(a)
    BY <1>1, <2>1 DEF CopyFaithful, ScanFaithful, Idle
  <2> QED BY <1>13, <2>2, <2>3, QuietStep DEF BeginRelease
<1>14. ASSUME NEW p \in Agents, WriteRelease(p) PROVE StoreInv' /\ Later
  <2>1. PICK id \in agent[p].id :
               disk' = [disk EXCEPT ![id] = [agent[p].copy EXCEPT !.state = "released"]]
    BY <1>14 DEF WriteRelease
  <2>2. id \in Ids
    BY <1>2 DEF Activity
  <2>3. agent[p].pc = "relwrite" /\ Now(p, Idle) /\ UNCHANGED <<now, claims, scanned>>
    BY <1>14 DEF WriteRelease
  <2> QED BY <1>1, <2>1, <2>2, <2>3, RewriteStep, IdleFaithful, Constants
<1>15. ASSUME Tick PROVE StoreInv' /\ Later
  <2>1. now' \in Nat /\ UNCHANGED <<disk, claims, agent, scanned>> /\ TypeOK'
    BY <1>1, <1>15 DEF Tick, TypeOK
  <2>2. Later
    BY <1>1, <1>15 DEF Later, Tick
  <2>3. \A c \in Activity : CopyFaithful(c) /\ ScanFaithful(c)
                              => CopyFaithful(c)' /\ ScanFaithful(c)'
    BY <1>1, <2>1, <2>2, KnowledgeStays
  <2>4. \A p \in Agents : CopyFaithful(agent[p])' /\ ScanFaithful(agent[p])'
    <3> SUFFICES ASSUME NEW p \in Agents
                 PROVE  CopyFaithful(agent[p])' /\ ScanFaithful(agent[p])'
      OBVIOUS
    <3>1. PICK c \in Activity : c = agent[p]
      BY <1>2
    <3>2. CopyFaithful(c)' /\ ScanFaithful(c)' /\ agent'[p] = c
      BY <1>2, <2>1, <2>3, <3>1
    <3> QED BY <3>1, <3>2 DEF CopyFaithful, ScanFaithful
  <2>5. UnusedIds'
    BY <2>1 DEF UnusedIds
  <2>6. ASSUME NEW id \in Ids, NEW other \in scanned'[id] PROVE OutOfTheWay(other, disk[id].subject)'
    <3>1. PICK subject : subject = disk[id].subject
      OBVIOUS
    <3>2. other \in Ids /\ OutOfTheWay(other, subject)
      BY <2>1, <2>6, <3>1 DEF ScannedOutOfTheWay, TypeOK
    <3>3. OutOfTheWay(other, subject)'
      BY <1>1, <2>1, <2>2, <3>2, OutStaysOut
    <3> QED BY <2>1, <3>1, <3>3 DEF OutOfTheWay
  <2>7. SweepsOnlyExpired'
    <3> SUFFICES ASSUME NEW id \in Ids, disk[id].state = "expired"
                 PROVE  ExpiredAt(disk[id], now')
      BY <2>1 DEF SweepsOnlyExpired
    <3>1. disk[id].expires \in Nat /\ ExpiredAt(disk[id], now)
      BY <1>1 DEF SweepsOnlyExpired, Lease, Absent
    <3> QED BY <1>1, <1>15, <3>1 DEF ExpiredAt, Tick
  <2> QED BY <2>1, <2>2, <2>4, <2>5, <2>6, <2>7 DEF ScannedOutOfTheWay
<1>16. CASE UNCHANGED vars
  <2>1. Later
    BY <1>1, <1>16 DEF Later, vars
  <2>2. TypeOK' /\ UnusedIds' /\ SweepsOnlyExpired' /\ ScannedOutOfTheWay'
    BY <1>16 DEF vars, TypeOK, UnusedIds, SweepsOnlyExpired, ScannedOutOfTheWay, OutOfTheWay, ExpiredAt
  <2>3. \A p \in Agents : CopyFaithful(agent[p])' /\ ScanFaithful(agent[p])'
    BY <1>2, <1>16 DEF vars, CopyFaithful, ScanFaithful, OutOfTheWay, ExpiredAt
  <2> QED BY <2>1, <2>2, <2>3
<1> HIDE DEF StoreInv
<1> QED BY <1>4, <1>5, <1>6, <1>7, <1>8, <1>9, <1>10, <1>11, <1>12, <1>13, <1>14, <1>15, <1>16 DEF Next

\* The store starts without leases, and so in the invariant.
LEMMA InitInv == Init => StoreInv
<1> SUFFICES ASSUME Init PROVE StoreInv
  OBVIOUS
<1>1. TypeOK
  BY LeaseAssumption, Constants DEF Init, TypeOK
<1>2. \A id \in Ids : disk[id] = Absent /\ scanned[id] = {}
  BY DEF Init
<1>3. UnusedIds
  BY <1>2 DEF UnusedIds, Ids
<1>4. \A p \in Agents : agent[p] = Idle
  BY DEF Init
<1>5. ScannedOutOfTheWay /\ SweepsOnlyExpired
  BY <1>2 DEF ScannedOutOfTheWay, SweepsOnlyExpired, Absent
<1> QED BY <1>1, <1>3, <1>4, <1>5, IdleFaithful DEF StoreInv

LEMMA StoreInvHolds == Spec => []StoreInv
BY InitInv, StepMovesOn, PTL DEF Spec

\* claim_lease, release_lease and gc_expired_leases keep the lease files, the
\* clock and what each agent knows well typed.
THEOREM TypeCorrect == Spec => []TypeOK
<1>1. StoreInv => TypeOK
  BY DEF StoreInv
<1> QED BY <1>1, StoreInvHolds, PTL

\* Two live leases share a file only when neither claim's scan had listed the
\* other's lease: find_conflict misses none that was written before it began.
THEOREM OverlapOnlyByRaceHolds == Spec => []OverlapOnlyByRace
<1>1. StoreInv => OverlapOnlyByRace
  <2> SUFFICES ASSUME StoreInv, NEW id \in Ids, NEW other \in Ids, other \in scanned[id],
                      Overlap(id, other)
               PROVE  FALSE
    BY DEF OverlapOnlyByRace
  <2>1. OutOfTheWay(other, disk[id].subject)
    BY DEF StoreInv, ScannedOutOfTheWay
  <2> QED BY <2>1 DEF Overlap, Live, OutOfTheWay
<1> QED BY <1>1, StoreInvHolds, PTL

\* gc_expired_leases marks a lease expired only after its expiry.
THEOREM SweepsOnlyExpiredHolds == Spec => []SweepsOnlyExpired
<1>1. StoreInv => SweepsOnlyExpired
  BY DEF StoreInv
<1> QED BY <1>1, StoreInvHolds, PTL

\* No sweep or release that writes back a stale copy revives an ended lease or
\* changes its subject or expiry.
THEOREM EndedStaysEndedHolds == Spec => EndedStaysEnded
<1>1. StoreInv /\ [Next]_vars =>
        [\A id \in Ids : disk[id] # Absent =>
            /\ disk'[id].subject = disk[id].subject
            /\ disk'[id].expires = disk[id].expires
            /\ disk'[id].state = "active" => disk[id].state = "active"]_vars
  BY StepMovesOn DEF Later
<1> QED BY <1>1, StoreInvHolds, PTL DEF Spec, EndedStaysEnded

-----------------------------------------------------------------------------
(* The store implements LeaseTable *)

\* The claims being decided change with what one agent knows.
LEMMA AskedChange ==
    ASSUME TypeOK, NEW p \in Agents, NEW a, Now(p, a)
    PROVE  Asked' = [Asked EXCEPT ![p] = Claim(a)]
BY DEF TypeOK, Now, Asked, Claim

\* A step that leaves leases and clock alone and an agent's claim as it was, or
\* withdraws it.
LEMMA ClaimKeptOrGone ==
    ASSUME TypeOK, UNCHANGED <<disk, now>>, NEW p \in Agents, NEW a, Now(p, a),
           Claim(a) \in {Claim(agent[p]), {}}
    PROVE  [Table!Next]_<<disk, now, Asked>>
<1>1. Asked' = [Asked EXCEPT ![p] = Claim(a)]
  BY AskedChange
<1>2. Asked \in [Agents -> {Claim(agent[q]) : q \in Agents}] /\ Asked[p] = Claim(agent[p])
  BY DEF Asked
<1>3. CASE Claim(a) = Claim(agent[p])
  BY <1>1, <1>2, <1>3
<1>4. CASE Claim(a) # Claim(agent[p]) /\ Claim(a) = {}
  <2>1. Table!Withdraw(p)
    BY <1>1, <1>2, <1>4 DEF Table!Withdraw
  <2> QED BY <2>1 DEF Table!Next, Table!Promised
<1> QED BY <1>3, <1>4

\* A copy written back is the lease as it is, released or expired.
LEMMA WriteBackEnds ==
    ASSUME StoreInv, UNCHANGED now, NEW p \in Agents, NEW id \in Ids,
           NEW state \in {"expired", "released"},
           agent[p].pc \in {"gcwrite", "relwrite"}, id \in agent[p].id,
           state = "expired" => agent[p].pc = "gcwrite",
           disk' = [disk EXCEPT ![id] = [agent[p].copy EXCEPT !.state = state]],
           NEW a, Now(p, a), Claim(a) = {}
    PROVE  [Table!Next]_<<disk, now, Asked>>
<1>1. TypeOK /\ agent[p] \in Activity
  BY DEF StoreInv, TypeOK
<1>2. /\ agent[p].copy \in Lease
      /\ disk[id] # Absent
      /\ disk[id].subject = agent[p].copy.subject
      /\ disk[id].expires = agent[p].copy.expires
      /\ agent[p].pc = "gcwrite" => ExpiredAt(agent[p].copy, now)
  BY DEF StoreInv, CopyFaithful
<1>3. disk[id] \in Lease
  BY <1>1, <1>2 DEF TypeOK
<1>0. now \in Nat /\ disk[id].expires \in Nat
  BY <1>1, <1>3 DEF TypeOK, Lease
<1>4. [agent[p].copy EXCEPT !.state = state] = [disk[id] EXCEPT !.state = state]
  BY <1>2, <1>3 DEF Lease
<1>5. disk' = [disk EXCEPT ![id].state = state]
  BY <1>4
<1>6. Claim(agent[p]) = {}
  BY DEF Claim
<1>7. UNCHANGED Asked
  BY <1>1, <1>6, AskedChange DEF Asked
<1>8. id \in Table!Granted
  BY <1>2 DEF Table!Granted
<1>9. CASE now < disk[id].expires
  <2>1. disk[id].state \in {"active", "released"} /\ state = "released"
    BY <1>2, <1>3, <1>9 DEF StoreInv, SweepsOnlyExpired, ExpiredAt, Lease, States, TypeOK
  <2>2. CASE disk[id].state = "active"
    <3>1. ~Table!Over(id)
      BY <1>0, <1>9 DEF Table!Over
    <3>2. Table!InState(id, "released")
      BY <1>5, <1>7, <2>1 DEF Table!InState
    <3>3. Table!Release(id)
      BY <1>8, <2>2, <3>1, <3>2 DEF Table!Release
    <3> QED BY <3>3 DEF Table!Next, Table!Promised
  <2>3. CASE disk[id].state = "released"
    <3>1. disk'[id] = disk[id] /\ disk' = disk
      BY <1>1, <1>3, <1>5, <2>1, <2>3 DEF TypeOK, Lease
    <3> QED BY <1>7, <3>1
  <2> QED BY <2>1, <2>2, <2>3
<1>10. CASE now >= disk[id].expires
  <2>1. CASE state = "released"
    <3>1. Table!Relabelled(id)
      BY <1>5, <1>7, <1>8, <1>10, <2>1 DEF Table!Relabelled, Table!InState, Table!Over
    <3> QED BY <3>1 DEF Table!Next
  <2>2. CASE state = "expired" /\ disk[id].state = "active"
    <3>1. Table!Expire(id)
      BY <1>5, <1>7, <1>8, <1>10, <2>2 DEF Table!Expire, Table!InState, Table!Over
    <3> QED BY <3>1 DEF Table!Next, Table!Promised
  <2>3. CASE state = "expired" /\ disk[id].state = "released"
    <3>1. Table!Relabelled(id)
      BY <1>5, <1>7, <1>8, <1>10, <2>3 DEF Table!Relabelled, Table!InState, Table!Over
    <3> QED BY <3>1 DEF Table!Next
  <2>4. CASE state = "expired" /\ disk[id].state = "expired"
    <3>1. disk'[id] = disk[id] /\ disk' = disk
      BY <1>1, <1>3, <1>5, <2>4 DEF TypeOK, Lease
    <3> QED BY <1>7, <3>1
  <2> QED BY <1>3, <2>1, <2>2, <2>3, <2>4 DEF Lease, States
<1> QED BY <1>0, <1>9, <1>10

\* The conflict scan begins where the claim is made.
LEMMA ScanIsAsk ==
    ASSUME StoreInv, NEW p \in Agents, BeginScan(p)
    PROVE  [Table!Next]_<<disk, now, Asked>>
<1> DEFINE a == [agent[p] EXCEPT !.pc = "scan", !.at = now, !.todo = OnDisk, !.listed = OnDisk]
<1>1. TypeOK /\ agent[p] \in Activity /\ ScanFaithful(agent[p]) /\ Now(p, a)
  BY DEF StoreInv, TypeOK, BeginScan
<1>2. /\ agent[p].subject \in Subjects
      /\ agent[p].ttl \in 1..MaxTtl
      /\ agent[p].pc = "gc"
  BY <1>1 DEF BeginScan, ScanFaithful, Activity, Subjects
<1>3. Claim(a) = {[subject |-> agent[p].subject, ttl |-> agent[p].ttl,
                   at |-> now, known |-> Table!Granted]}
  BY <1>1 DEF Claim, OnDisk, Table!Granted, Activity
<1>4. Asked[p] = {}
  BY <1>2 DEF Asked, Claim
<1>5. Asked' = [Asked EXCEPT ![p] = Claim(a)]
  BY <1>1, AskedChange
<1> HIDE DEF a
<1>6. Table!Ask(p, agent[p].subject, agent[p].ttl)
  BY <1>3, <1>4, <1>5 DEF Table!Ask, BeginScan
<1> QED BY <1>2, <1>6 DEF Table!Next, Table!Promised

\* What is out of the way does not stand against the claim, and the write grants it.
LEMMA WriteIsGrant ==
    ASSUME StoreInv, NEW p \in Agents, WriteClaim(p)
    PROVE  [Table!Next]_<<disk, now, Asked>>
<1> DEFINE id == NextId(p)
           claim == [subject |-> agent[p].subject, ttl |-> agent[p].ttl,
                     at |-> agent[p].at, known |-> agent[p].listed]
           from == agent[p].copy.expires - agent[p].ttl
<1>1. TypeOK /\ agent[p] \in Activity /\ ScanFaithful(agent[p]) /\ agent[p].pc = "write"
  BY DEF StoreInv, TypeOK, WriteClaim
<1>2. id \in Ids /\ disk[id] = Absent
  <2>1. claims[p] \in 0..MaxClaims /\ claims[p] < MaxClaims
    BY <1>1 DEF TypeOK, WriteClaim
  <2>2. claims[p] + 1 \in 1..MaxClaims /\ claims[p] + 1 > claims[p]
    BY <2>1, LeaseAssumption
  <2> QED BY <2>2 DEF StoreInv, UnusedIds, NextId, Ids
<1>3. claim \in Asked[p]
  BY <1>1 DEF Asked, Claim
<1>4. \A other \in claim.known : ~Table!StandsAgainst(other, claim.subject)
  <2> SUFFICES ASSUME NEW other \in agent[p].listed
               PROVE  ~Table!StandsAgainst(other, agent[p].subject)
    OBVIOUS
  <2>1. OutOfTheWay(other, agent[p].subject) /\ other \in Ids
    BY <1>1 DEF ScanFaithful, Activity
  <2>2. disk[other].expires \in Nat /\ now \in Nat
    BY <1>1, <2>1 DEF TypeOK, OutOfTheWay, Lease
  <2> QED BY <2>1, <2>2 DEF OutOfTheWay, ExpiredAt, Table!StandsAgainst
<1>5. from \in claim.at..now /\ from + claim.ttl = agent[p].copy.expires
  <2>1. /\ agent[p].at \in Nat /\ agent[p].ttl \in Nat
        /\ agent[p].copy.expires \in Nat /\ now \in Nat
    BY <1>1 DEF ScanFaithful, Activity, Lease, TypeOK
  <2>2. /\ agent[p].at + agent[p].ttl <= agent[p].copy.expires
        /\ agent[p].copy.expires <= now + agent[p].ttl
    BY <1>1 DEF ScanFaithful
  <2> QED BY <2>1, <2>2
<1>6. agent[p].copy = [subject |-> claim.subject, state |-> "active",
                       expires |-> agent[p].copy.expires]
  BY <1>1 DEF ScanFaithful, Lease
<1>7. disk' = [disk EXCEPT ![id] = [subject |-> claim.subject, state |-> "active",
                                    expires |-> from + claim.ttl]]
  <2>1. disk' = [disk EXCEPT ![id] = agent[p].copy]
    BY DEF WriteClaim
  <2> QED BY <1>5, <1>6, <2>1
<1>8. Now(p, Idle) /\ UNCHANGED now /\ Claim(Idle) = {}
  BY DEF WriteClaim, Claim, Idle
<1>9. Asked' = [Asked EXCEPT ![p] = {}]
  BY <1>1, <1>8, AskedChange
<1> HIDE DEF id, claim, from
<1>10. Table!Grant(p, id)
  BY <1>2, <1>3, <1>4, <1>5, <1>7, <1>8, <1>9 DEF Table!Grant
<1> QED BY <1>2, <1>10 DEF Table!Next, Table!Promised

\* Every step of the store is a step of the table, or none.
LEMMA StepRefines ==
    ASSUME StoreInv, [Next]_vars PROVE [Table!Next]_<<disk, now, Asked>>
<1>1. TypeOK
  BY DEF StoreInv
<1>2. ASSUME NEW p \in Agents
      PROVE  agent[p] \in Activity
  BY <1>1 DEF TypeOK
<1>3. ASSUME NEW p \in Agents, NEW claim, NEW subject, NEW ttl,
             BeginSweep(p, claim, subject, ttl)
      PROVE  [Table!Next]_<<disk, now, Asked>>
  <2> DEFINE a == [Idle EXCEPT !.pc = "gc", !.claim = claim, !.subject = subject,
                               !.ttl = ttl, !.at = now, !.todo = OnDisk]
  <2>1. Now(p, a) /\ UNCHANGED <<disk, now>> /\ Claim(a) = {}
    BY <1>3 DEF BeginSweep, Claim, Idle
  <2> QED BY <1>1, <2>1, ClaimKeptOrGone
<1>4. ASSUME NEW p \in Agents,
             \/ \E subject \in Subjects, ttl \in 1..MaxTtl : BeginClaim(p, subject, ttl)
             \/ BeginGc(p)
      PROVE  [Table!Next]_<<disk, now, Asked>>
  BY <1>3, <1>4 DEF BeginClaim, BeginGc
<1>5. ASSUME NEW p \in Agents, NEW id \in Ids, GcRead(p, id)
      PROVE  [Table!Next]_<<disk, now, Asked>>
  <2> DEFINE a == IF Sweepable(disk[id], agent[p].at)
                  THEN [agent[p] EXCEPT !.pc = "gcwrite", !.todo = @ \ {id},
                                        !.id = {id}, !.copy = disk[id]]
                  ELSE [agent[p] EXCEPT !.todo = @ \ {id}]
  <2>1. Now(p, a) /\ UNCHANGED <<disk, now>>
    BY <1>5 DEF GcRead
  <2>2. a.pc \in {"gc", "gcwrite"}
    BY <1>2, <1>5 DEF GcRead, Activity
  <2>3. Claim(a) = {}
    BY <2>2 DEF Claim
  <2> QED BY <1>1, <2>1, <2>3, ClaimKeptOrGone
<1>6. ASSUME NEW p \in Agents, GcWrite(p)
      PROVE  [Table!Next]_<<disk, now, Asked>>
  <2> DEFINE a == [agent[p] EXCEPT !.pc = "gc", !.id = {}, !.copy = Absent]
  <2>1. Now(p, a) /\ UNCHANGED now
    BY <1>6 DEF GcWrite
  <2>2. Claim(a) = {}
    BY <1>2 DEF Claim, Activity
  <2>3. CASE UNCHANGED disk
    BY <1>1, <2>1, <2>2, <2>3, ClaimKeptOrGone
  <2>4. CASE \E id \in agent[p].id :
               disk' = [disk EXCEPT ![id] = [agent[p].copy EXCEPT !.state = "expired"]]
    <3>1. PICK id \in agent[p].id :
               disk' = [disk EXCEPT ![id] = [agent[p].copy EXCEPT !.state = "expired"]]
      BY <2>4
    <3>2. id \in Ids /\ agent[p].pc = "gcwrite"
      BY <1>2, <1>6 DEF Activity, GcWrite
    <3> HIDE DEF a
    <3> QED BY <2>1, <2>2, <3>1, <3>2, WriteBackEnds
  <2> QED BY <1>6, <2>3, <2>4 DEF GcWrite
<1>7. ASSUME NEW p \in Agents, GcEnd(p) \/ Abandon(p)
      PROVE  [Table!Next]_<<disk, now, Asked>>
  <2>1. Now(p, Idle) /\ UNCHANGED <<disk, now>> /\ Claim(Idle) = {}
    BY <1>7 DEF GcEnd, Abandon, Claim, Idle
  <2> QED BY <1>1, <2>1, ClaimKeptOrGone
<1>8. ASSUME NEW p \in Agents, NEW id \in Ids, ScanRead(p, id)
      PROVE  [Table!Next]_<<disk, now, Asked>>
  <2>1. Claim(Idle) = {}
    BY DEF Claim, Idle
  <2>2. Claim([agent[p] EXCEPT !.todo = @ \ {id}]) = Claim(agent[p])
    BY <1>2 DEF Claim, Activity
  <2> QED BY <1>1, <1>8, <2>1, <2>2, ClaimKeptOrGone DEF ScanRead
<1>9. ASSUME NEW p \in Agents, Stamp(p)
      PROVE  [Table!Next]_<<disk, now, Asked>>
  <2> DEFINE a == [agent[p] EXCEPT !.pc = "write",
                       !.copy = [subject |-> agent[p].subject, state |-> "active",
                                 expires |-> now + agent[p].ttl]]
  <2>1. Now(p, a) /\ UNCHANGED <<disk, now>>
    BY <1>9 DEF Stamp
  <2>2. Claim(a) = Claim(agent[p])
    BY <1>2, <1>9 DEF Claim, Activity, Stamp
  <2> QED BY <1>1, <2>1, <2>2, ClaimKeptOrGone
<1>10. ASSUME NEW p \in Agents, NEW id \in Ids, BeginRelease(p, id)
       PROVE  [Table!Next]_<<disk, now, Asked>>
  <2> DEFINE a == [Idle EXCEPT !.pc = "relwrite", !.id = {id}, !.copy = disk[id]]
  <2>1. Now(p, a) /\ UNCHANGED <<disk, now>> /\ Claim(a) = {}
    BY <1>10 DEF BeginRelease, Claim, Idle
  <2> QED BY <1>1, <2>1, ClaimKeptOrGone
<1>11. ASSUME NEW p \in Agents, WriteRelease(p)
       PROVE  [Table!Next]_<<disk, now, Asked>>
  <2>1. PICK id \in agent[p].id :
               disk' = [disk EXCEPT ![id] = [agent[p].copy EXCEPT !.state = "released"]]
    BY <1>11 DEF WriteRelease
  <2>2. id \in Ids
    BY <1>2 DEF Activity
  <2>3. agent[p].pc = "relwrite" /\ Now(p, Idle) /\ UNCHANGED now /\ Claim(Idle) = {}
    BY <1>11 DEF WriteRelease, Claim, Idle
  <2> QED BY <2>1, <2>2, <2>3, WriteBackEnds
<1>12. CASE Tick
  BY <1>12 DEF Tick, Table!Tick, Table!Next, Table!Promised, Asked
<1>13. CASE UNCHANGED vars
  BY <1>13 DEF vars, Asked
<1> QED BY <1>4, <1>5, <1>6, <1>7, <1>8, <1>9, <1>10, <1>11, <1>12, <1>13,
           ScanIsAsk, WriteIsGrant DEF Next

\* Agents that scan, sweep and write back copies file by file cannot tell
\* roam/leases/store.py from a table that decides every claim at once.
THEOREM Refinement == Spec => ImplementsLeaseTable
<1>1. Init => Table!Init
  BY DEF Init, Table!Init, Asked, Claim, Idle
<1>2. StoreInv /\ [Next]_vars => [Table!Next]_<<disk, now, Asked>>
  BY StepRefines
<1> QED BY <1>1, <1>2, StoreInvHolds, PTL DEF Spec, Table!Spec, ImplementsLeaseTable

=============================================================================
