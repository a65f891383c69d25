---------------------------- MODULE LockMgrProofs ----------------------------
(***************************************************************************)
(* TLAPS proofs about the lock manager, for any finite set of threads and  *)
(* any nesting depth.                                                      *)
(***************************************************************************)
EXTENDS LockMgr, FiniteSetTheorems, TLAPS

\* What a step does to pc: c moves to place, sleepers may be woken.
Becomes(c, place) ==
    /\ pc' \in [Calls -> Pcs]
    /\ pc'[c] = place
    /\ \A d \in Calls \ {c} :
          pc'[d] = pc[d] \/ (pc[d] = "rsleep" /\ pc'[d] = "rcheck")

\* Nobody else moves.
OthersStay(c) == \A d \in Calls \ {c} : pc'[d] = pc[d]

\* Nobody is left asleep.
AllAwake(c) == \A d \in Calls \ {c} : pc'[d] # "rsleep"

LEMMA Places ==
    ReadPcs \cup WritePcs \cup ExclusivePcs \cup {"none"} \subseteq Pcs
BY DEF Pcs

LEMMA Moves ==
    ASSUME TypeOK, NEW c \in Calls, NEW place \in Pcs, NEW awake \in {pc, Notified},
           pc' = [awake EXCEPT ![c] = place]
    PROVE  /\ Becomes(c, place)
           /\ awake = pc => OthersStay(c)
           /\ awake = Notified => AllAwake(c)
<1>1. pc \in [Calls -> Pcs]
  BY DEF TypeOK
<1>2. CASE awake = pc
  <2>1. Becomes(c, place) /\ OthersStay(c)
    BY <1>1, <1>2 DEF Becomes, OthersStay
  <2>2. awake = Notified => AllAwake(c)
    BY <1>1, <1>2 DEF Notified, AllAwake
  <2> QED BY <2>1, <2>2
<1>3. CASE awake = Notified
  <2>1. /\ Notified \in [Calls -> Pcs]
        /\ \A d \in Calls : /\ Notified[d] # "rsleep"
                            /\ Notified[d] = pc[d] \/ (pc[d] = "rsleep" /\ Notified[d] = "rcheck")
    BY <1>1 DEF Notified, Pcs, ReadPcs
  <2> HIDE DEF Notified
  <2>2. Becomes(c, place) /\ AllAwake(c)
    BY <1>3, <2>1 DEF Becomes, AllAwake
  <2>3. awake = pc => OthersStay(c)
    BY <1>1 DEF OthersStay
  <2> QED BY <2>2, <2>3
<1> QED BY <1>2, <1>3

LEMMA Enters ==
    ASSUME TypeOK, WellNested, NEW c \in Calls, NEW place \in Pcs, NEW awake \in {pc, Notified},
           Enter(c, place, awake)
    PROVE  /\ Becomes(c, place) /\ pc[c] = "none"
           /\ awake = pc => OthersStay(c)
           /\ awake = Notified => AllAwake(c)
           /\ depth' \in [Threads -> 0..MaxDepth] /\ WellNested'
<1>1. Becomes(c, place) /\ (awake = pc => OthersStay(c)) /\ (awake = Notified => AllAwake(c))
  BY Moves DEF Enter
<1>2. Owner(c) \in Threads /\ c[2] \in 1..MaxDepth /\ depth[Owner(c)] = c[2] - 1
  BY DEF Calls, Owner, Enter, MayEnter
<1>3. depth' \in [Threads -> 0..MaxDepth]
  BY <1>2, LockAssumption DEF TypeOK, Enter
<1>4. pc[c] = "none"
  BY <1>2 DEF WellNested
<1>5. WellNested'
  <2> SUFFICES ASSUME NEW d \in Calls, d[2] > depth'[Owner(d)] PROVE pc'[d] = "none"
    BY DEF WellNested
  <2>1. d[2] > depth[Owner(d)] /\ d # c
    BY <1>2 DEF Enter, TypeOK, Calls, Owner
  <2>2. pc[d] = "none"
    BY <2>1 DEF WellNested
  <2> QED BY <1>1, <2>1, <2>2 DEF Becomes
<1> QED BY <1>1, <1>3, <1>4, <1>5

LEMMA Leaves ==
    ASSUME TypeOK, WellNested, NEW c \in Calls, NEW awake \in {pc, Notified},
           Innermost(c), Leave(c, awake)
    PROVE  /\ Becomes(c, "none")
           /\ awake = pc => OthersStay(c)
           /\ awake = Notified => AllAwake(c)
           /\ depth' \in [Threads -> 0..MaxDepth] /\ WellNested'
<1>1. Becomes(c, "none") /\ (awake = pc => OthersStay(c)) /\ (awake = Notified => AllAwake(c))
  BY Moves, Places DEF Leave
<1>2. Owner(c) \in Threads /\ c[2] \in 1..MaxDepth /\ depth[Owner(c)] = c[2]
  BY DEF Calls, Owner, Innermost
<1>3. depth' \in [Threads -> 0..MaxDepth]
  BY <1>2, LockAssumption DEF TypeOK, Leave
<1>4. WellNested'
  <2> SUFFICES ASSUME NEW d \in Calls, d[2] > depth'[Owner(d)], d # c PROVE pc'[d] = "none"
    BY <1>1 DEF WellNested, Becomes
  <2>1. d[2] > depth[Owner(d)]
    <3>1. d = <<d[1], d[2]>> /\ c = <<c[1], c[2]>> /\ d[1] \in Threads /\ d[2] \in 1..MaxDepth
      BY DEF Calls
    <3>2. CASE d[1] = c[1]
      <4>1. d[2] # c[2] /\ depth'[Owner(d)] = c[2] - 1
        BY <1>2, <3>1, <3>2 DEF TypeOK, Leave, Owner
      <4> QED BY <1>2, <3>1, <3>2, <4>1 DEF Owner
    <3>3. CASE d[1] # c[1]
      BY <1>2, <3>1, <3>3 DEF TypeOK, Leave, Owner
    <3> QED BY <3>2, <3>3
  <2> QED BY <1>1, <2>1 DEF WellNested, Becomes
<1> QED BY <1>1, <1>3, <1>4

LEMMA Goes ==
    ASSUME TypeOK, WellNested, NEW c \in Calls, NEW place \in Pcs, Innermost(c), Goto(c, place)
    PROVE  /\ Becomes(c, place) /\ OthersStay(c)
           /\ depth' \in [Threads -> 0..MaxDepth] /\ WellNested'
<1>1. Becomes(c, place) /\ OthersStay(c)
  BY Moves DEF Goto
<1>2. c[2] \in Nat /\ depth' = depth /\ depth[Owner(c)] = c[2]
  BY DEF Goto, Innermost, Calls
<1>3. WellNested'
  BY <1>1, <1>2 DEF WellNested, OthersStay
<1> QED BY <1>1, <1>2, <1>3 DEF TypeOK

\* There are finitely many readers to count.
LEMMA ReadersFinite == IsFiniteSet(Readers)
<1>1. IsFiniteSet(1..MaxDepth)
  BY FS_Interval, LockAssumption
<1>2. IsFiniteSet(Calls)
  BY <1>1, FS_Product, LockAssumption DEF Calls
<1> QED BY <1>2, FS_Subset DEF Readers

\* Steps of others leave the readers alone.
LEMMA SameReaders ==
    ASSUME NEW c \in Calls, NEW place, Becomes(c, place),
           pc[c] # "rheld", place # "rheld"
    PROVE  Readers' = Readers
BY DEF Readers, Becomes

LEMMA SameCount ==
    ASSUME ReadersCounted, Readers' = Readers, UNCHANGED <<readers, drained>>
    PROVE  ReadersCounted'
BY DEF ReadersCounted

\* The invariant is inductive, action by action.
LEMMA StepInv == ASSUME LockInv, [Next]_vars PROVE LockInv'
<1> USE DEF LockInv
<1>1. TypeOK /\ WellNested /\ readers \in Nat /\ Readers \subseteq Calls
  BY DEF TypeOK, Readers
\* An acquisition moves on without touching the counters or the guard.
<1>2. ASSUME NEW c \in Calls, NEW place \in {"none", "rcheck", "rsleep", "wlock", "xlock", "xend"},
             Becomes(c, place), OthersStay(c),
             depth' \in [Threads -> 0..MaxDepth], WellNested',
             pc[c] \in {"none", "rcheck", "rsleep", "wlock", "xdrain", "xlock"},
             pc[c] \in ExclusivePcs <=> place \in ExclusivePcs,
             place = "rsleep" => draining,
             place = "xlock" => Readers = {},
             UNCHANGED <<readers, drained, draining, guard, alone>>
      PROVE  LockInv'
  <2>1. TypeOK'
    BY <1>1, <1>2 DEF TypeOK, Becomes
  <2>2. Readers' = Readers
    BY <1>2, SameReaders
  <2>3. ReadersCounted'
    BY <1>2, <2>2, SameCount
  <2>4. DrainHasOwner'
    BY <1>2 DEF DrainHasOwner, Exclusives, Becomes, OthersStay
  <2>5. SleepersShutOut'
    BY <1>2 DEF SleepersShutOut, Becomes, OthersStay
  <2>6. GuardHeld'
    BY <1>2 DEF GuardHeld, Becomes, OthersStay
  <2>7. AloneDrains'
    BY <1>1, <1>2, <2>2 DEF AloneDrains, Becomes, OthersStay, TypeOK
  <2> QED BY <1>2, <2>1, <2>3, <2>4, <2>5, <2>6, <2>7
\* A with block on the writer lock begins or ends.
<1>3. ASSUME NEW c \in Calls, NEW place \in {"none", "wheld", "xheld", "xend"},
             Becomes(c, place), OthersStay(c),
             depth' \in [Threads -> 0..MaxDepth], WellNested',
             <<pc[c], place>> \in {<<"wlock", "wheld">>, <<"wheld", "none">>,
                                   <<"xlock", "xheld">>, <<"xheld", "xend">>},
             place \in {"wheld", "xheld"} => GuardFree(c) /\ guard' = guard \cup {c},
             place \in {"none", "xend"} => guard' = guard \ {c},
             UNCHANGED <<readers, drained, draining, alone>>
      PROVE  LockInv'
  <2>1. TypeOK'
    BY <1>1, <1>3 DEF TypeOK, Becomes
  <2>2. Readers' = Readers
    BY <1>3, SameReaders
  <2>3. ReadersCounted'
    BY <1>3, <2>2, SameCount
  <2>4. DrainHasOwner'
    BY <1>3 DEF DrainHasOwner, Exclusives, ExclusivePcs, Becomes, OthersStay
  <2>5. SleepersShutOut'
    BY <1>3 DEF SleepersShutOut, Becomes, OthersStay
  <2>6. GuardHeld'
    <3>1. guard' = {d \in Calls : pc'[d] \in {"wheld", "xheld"}}
      BY <1>3 DEF GuardHeld, Becomes, OthersStay
    <3>2. \A d, e \in guard' : Owner(d) = Owner(e)
      BY <1>3 DEF GuardHeld, GuardFree
    <3> QED BY <3>1, <3>2 DEF GuardHeld
  <2>7. AloneDrains'
    BY <1>1, <1>3, <2>2 DEF AloneDrains, ExclusivePcs, Becomes, OthersStay, TypeOK
  <2> QED BY <1>3, <2>1, <2>3, <2>4, <2>5, <2>6, <2>7
<1>4. ASSUME NEW c \in Calls,
             BeginRead(c) \/ ReadSleeps(c) \/ ReadWakes(c) \/ ReadTimesOut(c)
      PROVE  LockInv'
  <2>1. CASE BeginRead(c)
    BY <1>1, <1>2, <2>1, Enters, Places DEF BeginRead, ReadPcs, ExclusivePcs
  <2>2. CASE ReadSleeps(c)
    BY <1>1, <1>2, <2>2, Goes, Places DEF ReadSleeps, At, ShutOut, ReadPcs, ExclusivePcs
  <2>3. CASE ReadWakes(c)
    BY <1>1, <1>2, <2>3, Goes, Places DEF ReadWakes, At, ReadPcs, ExclusivePcs
  <2>4. CASE ReadTimesOut(c)
    BY <1>1, <1>2, <2>4, Leaves DEF ReadTimesOut, At, ExclusivePcs
  <2> QED BY <1>4, <2>1, <2>2, <2>3, <2>4
<1>5. ASSUME NEW c \in Calls, BeginWrite(c) \/ WriteTimesOut(c) PROVE LockInv'
  <2>1. CASE BeginWrite(c)
    BY <1>1, <1>2, <2>1, Enters, Places DEF BeginWrite, WritePcs, ExclusivePcs
  <2>2. CASE WriteTimesOut(c)
    BY <1>1, <1>2, <2>2, Leaves DEF WriteTimesOut, At, ExclusivePcs
  <2> QED BY <1>5, <2>1, <2>2
<1>6. ASSUME NEW c \in Calls, ReadersAreDrained(c) PROVE LockInv'
  <2>1. Readers = {} /\ pc[c] = "xdrain" /\ Innermost(c) /\ Goto(c, "xlock")
    BY <1>6 DEF ReadersAreDrained, At, MayPass, ReadersCounted
  <2>2. "xlock" \in Pcs
    BY Places DEF ExclusivePcs
  <2>3. Becomes(c, "xlock") /\ OthersStay(c) /\ depth' \in [Threads -> 0..MaxDepth] /\ WellNested'
    BY <1>1, <2>1, <2>2, Goes
  <2> QED BY <1>2, <1>6, <2>1, <2>3 DEF ReadersAreDrained, ExclusivePcs
<1>7. ASSUME NEW c \in Calls, ExclusiveTimesOut(c) PROVE LockInv'
  <2>1. pc[c] \in {"xdrain", "xlock"} /\ Innermost(c) /\ Goto(c, "xend")
    BY <1>7 DEF ExclusiveTimesOut, GivesUp, At
  <2>2. "xend" \in Pcs
    BY Places DEF ExclusivePcs
  <2>3. Becomes(c, "xend") /\ OthersStay(c) /\ depth' \in [Threads -> 0..MaxDepth] /\ WellNested'
    BY <1>1, <2>1, <2>2, Goes
  <2> QED BY <1>2, <1>7, <2>1, <2>3 DEF ExclusiveTimesOut, ExclusivePcs
<1>8. ASSUME NEW c \in Calls,
             WriteEnters(c) \/ EndWrite(c) \/ ExclusiveEnters(c) \/ ReleaseExclusive(c)
      PROVE  LockInv'
  <2>1. CASE WriteEnters(c)
    BY <1>1, <1>3, <2>1, Goes, Places DEF WriteEnters, At, WritePcs
  <2>2. CASE EndWrite(c)
    BY <1>1, <1>3, <2>2, Leaves DEF EndWrite, At
  <2>3. CASE ExclusiveEnters(c)
    BY <1>1, <1>3, <2>3, Goes, Places DEF ExclusiveEnters, At, ExclusivePcs
  <2>4. CASE ReleaseExclusive(c)
    BY <1>1, <1>3, <2>4, Goes, Places DEF ReleaseExclusive, At, ExclusivePcs
  <2> QED BY <1>8, <2>1, <2>2, <2>3, <2>4
<1>9. ASSUME NEW c \in Calls, ReadEnters(c) PROVE LockInv'
  <2>1. pc[c] = "rcheck" /\ Innermost(c) /\ Goto(c, "rheld") /\ "rheld" \in Pcs
    BY <1>9, Places DEF ReadEnters, At, ReadPcs
  <2>2. Becomes(c, "rheld") /\ OthersStay(c) /\ depth' \in [Threads -> 0..MaxDepth] /\ WellNested'
    BY <1>1, <2>1, Goes
  <2>3. /\ ~draining /\ readers' = readers + 1 /\ drained' = FALSE
        /\ UNCHANGED <<draining, guard, alone>>
    BY <1>9 DEF ReadEnters, ShutOut
  <2>4. TypeOK'
    <3>1. readers' \in Nat
      BY <1>1, <2>3
    <3>2. drained' \in BOOLEAN
      BY <2>3
    <3>3. UNCHANGED <<draining, guard, alone>>
      BY <2>3
    <3> QED BY <1>1, <2>2, <3>1, <3>2, <3>3 DEF TypeOK, Becomes
  <2>5. Readers' = Readers \cup {c} /\ c \notin Readers
    BY <2>1, <2>2 DEF Readers, Becomes, OthersStay
  <2>6. ReadersCounted'
    BY <2>3, <2>5, ReadersFinite, FS_AddElement DEF ReadersCounted
  <2>7. alone = {}
    BY <2>3 DEF AloneDrains
  <2>8. DrainHasOwner' /\ AloneDrains'
    BY <2>3, <2>7 DEF DrainHasOwner, AloneDrains
  <2>9. SleepersShutOut'
    BY <2>2, <2>3 DEF SleepersShutOut, Becomes, OthersStay
  <2>10. GuardHeld'
    BY <2>1, <2>2, <2>3 DEF GuardHeld, Becomes, OthersStay
  <2> QED BY <2>2, <2>4, <2>6, <2>8, <2>9, <2>10
<1>10. ASSUME NEW c \in Calls, EndRead(c) PROVE LockInv'
  <2>1. pc[c] = "rheld" /\ Innermost(c) /\ Leave(c, Notified)
    BY <1>10 DEF EndRead, At
  <2>2. Becomes(c, "none") /\ AllAwake(c) /\ depth' \in [Threads -> 0..MaxDepth] /\ WellNested'
    BY <1>1, <2>1, Leaves
  <2>3. /\ readers' = readers - 1 /\ drained' = (drained \/ readers = 1)
        /\ UNCHANGED <<draining, guard, alone>>
    BY <1>10 DEF EndRead, LastReader
  <2>4. Readers' = Readers \ {c} /\ c \in Readers
    BY <2>1, <2>2 DEF Readers, Becomes
  <2>5. /\ IsFiniteSet(Readers \ {c})
        /\ Cardinality(Readers \ {c}) = readers - 1
        /\ Cardinality(Readers \ {c}) \in Nat
    BY <2>4, ReadersFinite, FS_RemoveElement, FS_CardinalityType DEF ReadersCounted
  <2>6. ReadersCounted'
    <3>1. Readers' = {} <=> readers = 1
      BY <1>1, <2>4, <2>5, FS_EmptySet
    <3>2. ~drained
      BY <2>4 DEF ReadersCounted
    <3> QED BY <2>3, <2>4, <2>5, <3>1, <3>2 DEF ReadersCounted
  <2>7. TypeOK'
    BY <1>1, <2>2, <2>3, <2>5 DEF TypeOK, Becomes
  <2>8. DrainHasOwner'
    BY <2>1, <2>2, <2>3 DEF DrainHasOwner, Exclusives, ExclusivePcs, Becomes
  <2>9. SleepersShutOut'
    BY <2>2 DEF SleepersShutOut, AllAwake, Becomes
  <2>10. GuardHeld'
    BY <2>1, <2>2, <2>3 DEF GuardHeld, Becomes
  <2>11. AloneDrains'
    BY <1>1, <2>1, <2>2, <2>3, <2>4 DEF AloneDrains, ExclusivePcs, Becomes, TypeOK
  <2> QED BY <2>2, <2>6, <2>7, <2>8, <2>9, <2>10, <2>11
<1>11. ASSUME NEW c \in Calls, BeginExclusive(c) PROVE LockInv'
  <2>1. Enter(c, "xdrain", Notified) /\ "xdrain" \in Pcs
    BY <1>11, Places DEF BeginExclusive, ExclusivePcs
  <2>2. /\ Becomes(c, "xdrain") /\ AllAwake(c) /\ pc[c] = "none"
        /\ depth' \in [Threads -> 0..MaxDepth] /\ WellNested'
    BY <1>1, <2>1, Enters
  <2>3. draining' = TRUE /\ alone' = alone \cup {c} /\ UNCHANGED <<readers, drained, guard>>
    BY <1>11 DEF BeginExclusive
  <2>4. TypeOK'
    BY <1>1, <2>2, <2>3 DEF TypeOK, Becomes
  <2>5. Readers' = Readers
    BY <2>2, SameReaders
  <2>6. ReadersCounted'
    BY <2>3, <2>5, SameCount
  <2>7. DrainHasOwner' /\ SleepersShutOut'
    BY <2>2, <2>3 DEF DrainHasOwner, SleepersShutOut, Exclusives, ExclusivePcs, Becomes
  <2>8. GuardHeld'
    BY <2>2, <2>3 DEF GuardHeld, Becomes
  <2>9. AloneDrains'
    BY <1>1, <2>2, <2>3, <2>5 DEF AloneDrains, ExclusivePcs, Becomes, TypeOK
  <2> QED BY <2>2, <2>4, <2>6, <2>7, <2>8, <2>9
<1>12. ASSUME NEW c \in Calls, EndExclusive(c) PROVE LockInv'
  <2>1. pc[c] = "xend" /\ Innermost(c) /\ Leave(c, Notified)
    BY <1>12 DEF EndExclusive, At
  <2>2. Becomes(c, "none") /\ AllAwake(c) /\ depth' \in [Threads -> 0..MaxDepth] /\ WellNested'
    BY <1>1, <2>1, Leaves
  <2>3. draining' = FALSE /\ alone' = {} /\ UNCHANGED <<readers, drained, guard>>
    BY <1>12 DEF EndExclusive
  <2>4. TypeOK'
    BY <1>1, <2>2, <2>3 DEF TypeOK, Becomes
  <2>5. Readers' = Readers
    BY <2>1, <2>2, SameReaders
  <2>6. ReadersCounted'
    BY <2>3, <2>5, SameCount
  <2>7. DrainHasOwner' /\ AloneDrains'
    BY <2>3 DEF DrainHasOwner, AloneDrains
  <2>8. SleepersShutOut'
    BY <2>2 DEF SleepersShutOut, AllAwake, Becomes
  <2>9. GuardHeld'
    BY <2>1, <2>2, <2>3 DEF GuardHeld, Becomes
  <2> QED BY <2>2, <2>4, <2>6, <2>7, <2>8, <2>9
<1>13. CASE UNCHANGED vars
  <2>1. Readers' = Readers /\ Exclusives' = Exclusives
    BY <1>13 DEF vars, Readers, Exclusives
  <2>2. TypeOK' /\ WellNested' /\ DrainHasOwner' /\ SleepersShutOut' /\ GuardHeld'
    BY <1>13, <2>1 DEF vars, TypeOK, WellNested, DrainHasOwner, SleepersShutOut, GuardHeld
  <2>3. ReadersCounted' /\ AloneDrains'
    BY <1>13, <2>1 DEF vars, ReadersCounted, AloneDrains
  <2> QED BY <2>2, <2>3
<1> HIDE DEF LockInv
<1> QED BY <1>4, <1>5, <1>6, <1>7, <1>8, <1>9, <1>10, <1>11, <1>12, <1>13 DEF Next

LEMMA InitInv == Init => LockInv
<1> SUFFICES ASSUME Init PROVE LockInv
  OBVIOUS
<1>1. TypeOK
  <2>1. pc \in [Calls -> Pcs] /\ depth \in [Threads -> 0..MaxDepth] /\ readers \in Nat
    BY LockAssumption DEF Init, Pcs
  <2>2. drained \in BOOLEAN /\ draining \in BOOLEAN
    BY DEF Init
  <2>3. guard \subseteq Calls /\ alone \subseteq Calls
    BY DEF Init
  <2> QED BY <2>1, <2>2, <2>3 DEF TypeOK
<1>2. Readers = {}
  BY DEF Init, Readers
<1>3. ReadersCounted
  BY <1>2, FS_EmptySet DEF Init, ReadersCounted
<1>4. WellNested /\ DrainHasOwner /\ SleepersShutOut /\ GuardHeld /\ AloneDrains
  BY DEF Init, WellNested, DrainHasOwner, SleepersShutOut, GuardHeld, AloneDrains
<1> QED BY <1>1, <1>3, <1>4 DEF LockInv

LEMMA LockInvHolds == Spec => []LockInv
BY InitInv, StepInv, PTL DEF Spec

\* acquire and its three modes keep counters, flags and nesting well typed.
THEOREM TypeCorrect == Spec => []TypeOK
<1>1. LockInv => TypeOK
  BY DEF LockInv
<1> QED BY <1>1, LockInvHolds, PTL

\* _readers counts the with blocks in read mode, and _readers_drained is set
\* exactly when there is none, through any nesting and any timeouts.
THEOREM ReadersCountedHolds == Spec => []ReadersCounted
<1>1. LockInv => ReadersCounted
  BY DEF LockInv
<1> QED BY <1>1, LockInvHolds, PTL

\* _draining is never left set by an exclusive acquisition that failed, and
\* notify_all misses no reader that sleeps when it is cleared.
THEOREM NoWaitInVainHolds == Spec => []NoWaitInVain
<1>1. LockInv => NoWaitInVain
  BY DEF LockInv, NoWaitInVain, DrainHasOwner, SleepersShutOut, Exclusives
<1> QED BY <1>1, LockInvHolds, PTL

\* An exclusive with block during which no other exclusive acquisition ended
\* excludes all readers and all writers of other threads.
THEOREM ExclusiveIsAloneHolds == Spec => []ExclusiveIsAlone
<1>1. LockInv => ExclusiveIsAlone
  <2> SUFFICES ASSUME LockInv, NEW c \in alone, pc[c] = "xheld"
               PROVE  /\ Readers = {}
                      /\ \A d \in Calls : pc[d] \in {"wheld", "xheld"} => Owner(d) = Owner(c)
    BY DEF ExclusiveIsAlone
  <2>1. c \in Calls /\ Readers = {}
    BY DEF LockInv, TypeOK, AloneDrains
  <2> QED BY <2>1 DEF LockInv, GuardHeld
<1> QED BY <1>1, LockInvHolds, PTL

-----------------------------------------------------------------------------
(* The manager implements DrainLock *)

\* An exclusive acquisition goes from place to place, or others are woken.
LEMMA SameExclusives ==
    ASSUME NEW c \in Calls, NEW place, Becomes(c, place),
           pc[c] \in ExclusivePcs <=> place \in ExclusivePcs
    PROVE  Exclusives' = Exclusives
BY DEF Exclusives, Becomes, ExclusivePcs

\* A step that threads see nothing of.
LEMMA Unseen ==
    ASSUME NEW c \in Calls, NEW place, Becomes(c, place),
           pc[c] # "rheld", place # "rheld",
           pc[c] \in ExclusivePcs <=> place \in ExclusivePcs,
           UNCHANGED <<guard, alone>>
    PROVE  [Drain!Next]_<<Readers, guard, Exclusives, alone>>
BY SameReaders, SameExclusives

\* Steps of acquisitions that wait, begin to wait for something other than an
\* exclusive hold, or give up before that.
LEMMA WaitsRefine ==
    ASSUME LockInv, NEW c \in Calls,
           \/ BeginRead(c) \/ ReadSleeps(c) \/ ReadWakes(c) \/ ReadTimesOut(c)
           \/ BeginWrite(c) \/ WriteTimesOut(c)
           \/ ReadersAreDrained(c) \/ ExclusiveTimesOut(c)
    PROVE  [Drain!Next]_<<Readers, guard, Exclusives, alone>>
<1>1. TypeOK /\ WellNested
  BY DEF LockInv
<1>2. CASE BeginRead(c)
  BY <1>1, <1>2, Unseen, Enters, Places DEF BeginRead, ReadPcs, ExclusivePcs
<1>3. CASE ReadSleeps(c)
  BY <1>1, <1>3, Unseen, Goes, Places DEF ReadSleeps, At, ReadPcs, ExclusivePcs
<1>4. CASE ReadWakes(c)
  BY <1>1, <1>4, Unseen, Goes, Places DEF ReadWakes, At, ReadPcs, ExclusivePcs
<1>5. CASE ReadTimesOut(c)
  BY <1>1, <1>5, Unseen, Leaves DEF ReadTimesOut, At, ExclusivePcs
<1>6. CASE BeginWrite(c)
  BY <1>1, <1>6, Unseen, Enters, Places DEF BeginWrite, WritePcs, ExclusivePcs
<1>7. CASE WriteTimesOut(c)
  BY <1>1, <1>7, Unseen, Leaves DEF WriteTimesOut, At, ExclusivePcs
<1>8. CASE ReadersAreDrained(c)
  BY <1>1, <1>8, Unseen, Goes, Places DEF ReadersAreDrained, At, ExclusivePcs
<1>9. CASE ExclusiveTimesOut(c)
  <2>1. pc[c] \in {"xdrain", "xlock"} /\ Innermost(c) /\ Goto(c, "xend")
    BY <1>9 DEF ExclusiveTimesOut, GivesUp, At
  <2>2. Becomes(c, "xend")
    BY <1>1, <2>1, Goes, Places DEF ExclusivePcs
  <2> QED BY <1>9, <2>1, <2>2, Unseen DEF ExclusiveTimesOut, ExclusivePcs
<1> QED BY <1>2, <1>3, <1>4, <1>5, <1>6, <1>7, <1>8, <1>9

\* A reader enters only when no promise is out: the drain flag covers them all.
LEMMA SharesRefine ==
    ASSUME LockInv, NEW c \in Calls, ReadEnters(c) \/ EndRead(c)
    PROVE  [Drain!Next]_<<Readers, guard, Exclusives, alone>>
<1>1. TypeOK /\ WellNested /\ c \in Drain!Calls
  BY DEF LockInv, Drain!Calls, Calls
<1>2. CASE ReadEnters(c)
  <2>1. pc[c] = "rcheck" /\ Becomes(c, "rheld") /\ UNCHANGED <<guard, alone>>
    BY <1>1, <1>2, Goes, Places DEF ReadEnters, At, ReadPcs
  <2>2. Readers' = Readers \cup {c} /\ Exclusives' = Exclusives
    BY <2>1, SameExclusives DEF Readers, Becomes, ExclusivePcs
  <2>3. alone = {}
    BY <1>2 DEF LockInv, AloneDrains, ReadEnters, ShutOut
  <2>4. Drain!BegunToShare(c)
    BY <2>1, <2>2, <2>3 DEF Drain!BegunToShare
  <2>5. Drain!Share(c) \/ Drain!ShareBesideOwner(c)
    BY <2>4 DEF Drain!Share, Drain!ShareBesideOwner
  <2> QED BY <1>1, <2>5 DEF Drain!Next
<1>3. CASE EndRead(c)
  <2>1. pc[c] = "rheld" /\ Becomes(c, "none") /\ UNCHANGED <<guard, alone>>
    BY <1>1, <1>3, Leaves DEF EndRead, At
  <2>2. Readers' = Readers \ {c} /\ c \in Readers /\ Exclusives' = Exclusives
    BY <2>1, SameExclusives DEF Readers, Becomes, ExclusivePcs
  <2>3. Drain!Unshare(c)
    BY <2>1, <2>2 DEF Drain!Unshare
  <2> QED BY <1>1, <2>3 DEF Drain!Next
<1> QED BY <1>2, <1>3

\* The writer lock is taken and given back; an exclusive acquisition that takes
\* it with its promise unbroken has no readers beside it.
LEMMA OwnersRefine ==
    ASSUME LockInv, NEW c \in Calls,
           WriteEnters(c) \/ EndWrite(c) \/ ExclusiveEnters(c) \/ ReleaseExclusive(c)
    PROVE  [Drain!Next]_<<Readers, guard, Exclusives, alone>>
<1>1. TypeOK /\ WellNested /\ c \in Drain!Calls /\ AloneDrains
  BY DEF LockInv, Drain!Calls, Calls
<1>2. CASE WriteEnters(c)
  <2>1. pc[c] = "wlock" /\ Becomes(c, "wheld")
    BY <1>1, <1>2, Goes, Places DEF WriteEnters, At, WritePcs
  <2>2. Readers' = Readers /\ Exclusives' = Exclusives
    BY <2>1, SameReaders, SameExclusives DEF ExclusivePcs
  <2>3. c \notin alone
    BY <1>1, <2>1 DEF AloneDrains, ExclusivePcs
  <2>4. Drain!Own(c)
    BY <1>2, <2>2, <2>3 DEF Drain!Own, WriteEnters, GuardFree, Owner
  <2> QED BY <1>1, <2>4 DEF Drain!Next
<1>3. CASE ExclusiveEnters(c)
  <2>1. pc[c] = "xlock" /\ Becomes(c, "xheld")
    BY <1>1, <1>3, Goes, Places DEF ExclusiveEnters, At, ExclusivePcs
  <2>2. Readers' = Readers /\ Exclusives' = Exclusives
    BY <2>1, SameReaders, SameExclusives DEF ExclusivePcs
  <2>3. c \in alone => Readers = {}
    BY <1>1, <2>1 DEF AloneDrains
  <2>4. Drain!Own(c)
    BY <1>3, <2>2, <2>3 DEF Drain!Own, ExclusiveEnters, GuardFree, Owner
  <2> QED BY <1>1, <2>4 DEF Drain!Next
<1>4. CASE EndWrite(c) \/ ReleaseExclusive(c)
  <2>1. \/ pc[c] = "wheld" /\ Becomes(c, "none")
        \/ pc[c] = "xheld" /\ Becomes(c, "xend")
    BY <1>1, <1>4, Goes, Leaves, Places DEF EndWrite, ReleaseExclusive, At, ExclusivePcs
  <2>2. Readers' = Readers /\ Exclusives' = Exclusives
    BY <2>1, SameReaders, SameExclusives DEF ExclusivePcs
  <2>3. c \in guard /\ guard' = guard \ {c} /\ UNCHANGED alone
    BY <1>4, <2>1 DEF LockInv, GuardHeld, EndWrite, ReleaseExclusive
  <2>4. Drain!Disown(c)
    BY <2>2, <2>3 DEF Drain!Disown
  <2> QED BY <1>1, <2>4 DEF Drain!Next
<1> QED BY <1>2, <1>3, <1>4

\* An exclusive acquisition announces itself with the drain flag, and the flag
\* it clears at its end was everybody's.
LEMMA PromisesRefine ==
    ASSUME LockInv, NEW c \in Calls, BeginExclusive(c) \/ EndExclusive(c)
    PROVE  [Drain!Next]_<<Readers, guard, Exclusives, alone>>
<1>1. TypeOK /\ WellNested /\ c \in Drain!Calls
  BY DEF LockInv, Drain!Calls, Calls
<1>2. CASE BeginExclusive(c)
  <2>1. pc[c] = "none" /\ Becomes(c, "xdrain")
    BY <1>1, <1>2, Enters, Places DEF BeginExclusive, ExclusivePcs
  <2>2. Readers' = Readers
    BY <2>1, SameReaders
  <2>3. Exclusives' = Exclusives \cup {c} /\ c \notin Exclusives
    BY <2>1 DEF Exclusives, Becomes, ExclusivePcs
  <2>4. Drain!Announce(c)
    BY <1>2, <2>2, <2>3 DEF Drain!Announce, BeginExclusive
  <2> QED BY <1>1, <2>4 DEF Drain!Next
<1>3. CASE EndExclusive(c)
  <2>1. pc[c] = "xend" /\ Becomes(c, "none")
    BY <1>1, <1>3, Leaves DEF EndExclusive, At
  <2>2. Readers' = Readers
    BY <2>1, SameReaders
  <2>3. Exclusives' = Exclusives \ {c} /\ c \in Exclusives \ guard
    BY <2>1 DEF Exclusives, Becomes, ExclusivePcs, LockInv, GuardHeld
  <2>4. Drain!Over(c) /\ alone' = {}
    BY <1>3, <2>2, <2>3 DEF Drain!Over, EndExclusive
  <2>5. Drain!Retract(c) \/ Drain!RetractAll(c)
    BY <2>4 DEF Drain!Retract, Drain!RetractAll
  <2> QED BY <1>1, <2>5 DEF Drain!Next
<1> QED BY <1>2, <1>3

\* acquire, in all its modes, gives the threads of a process the lock of
\* DrainLock, its two named departures included: readers share, writers own, and
\* an exclusive acquisition keeps new readers out from _draining on.
THEOREM Refinement == Spec => ImplementsDrainLock
<1>1. Init => Drain!Init
  BY DEF Init, Drain!Init, Readers, Exclusives, ExclusivePcs
<1>2. LockInv /\ [Next]_vars => [Drain!Next]_<<Readers, guard, Exclusives, alone>>
  <2> SUFFICES ASSUME LockInv, [Next]_vars
               PROVE  [Drain!Next]_<<Readers, guard, Exclusives, alone>>
    OBVIOUS
  <2>1. CASE UNCHANGED vars
    BY <2>1 DEF vars, Readers, Exclusives
  <2> QED BY <2>1, WaitsRefine, SharesRefine, OwnersRefine, PromisesRefine DEF Next
<1> QED BY <1>1, <1>2, LockInvHolds, PTL DEF Spec, Drain!Spec, ImplementsDrainLock

=============================================================================
