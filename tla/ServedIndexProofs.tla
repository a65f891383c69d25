-------------------------- MODULE ServedIndexProofs --------------------------
(***************************************************************************)
(* Proofs about ServedIndex for any indexers, timers and callers.  Every   *)
(* step edits the tree, is a step of one run, or leaves the lock and the   *)
(* index alone; so what is true of lock and index is shown of the steps of *)
(* IndexLock, and what is true of watcher and cache of the few steps that  *)
(* touch them.                                                             *)
(***************************************************************************)
EXTENDS ServedIndex, TLAPS

\* Any step of one run.
LockStep(i) ==
    \/ Begin(i) \/ Exists(i) \/ Read(i) \/ Unlink(i) \/ Create(i) \/ Fill(i)
    \/ ClaimFails(i) \/ Detect(i) \/ Commit(i) \/ Fail(i) \/ Release(i) \/ Die(i)
    \/ \E readers \in BOOLEAN : Close(i, readers)

LockSame == UNCHANGED lockVars

\* What a step is to the lock and the index.
LEMMA StepKinds ==
    ASSUME Next
    PROVE  Edit \/ LockSame \/ \E i \in Indexers : LockStep(i)
<1>1. CASE Edit /\ UNCHANGED <<begun, watcherVars, cacheVars>>
  BY <1>1
<1>2. ASSUME NEW i \in Indexers, Proceed(i)
      PROVE  LockStep(i)
  BY <1>2 DEF Proceed, RunOn, LockStep
<1>3. ASSUME NEW i \in Indexers, Outside(i)
      PROVE  LockStep(i)
  BY <1>3 DEF Outside, LockStep
<1>4. ASSUME NEW t \in Timers, Watch(t)
      PROVE  LockSame \/ LockStep(t)
  BY <1>4 DEF Watch, Push, Elapse, Fire, Finish, LockStep, LockSame
<1>5. CASE (Ignore \/ Stop) /\ UNCHANGED <<begun, cacheVars>>
  BY <1>5 DEF Ignore, Stop, LockSame
<1>6. ASSUME NEW c \in Callers, Lookup(c) \/ Answer(c)
      PROVE  LockSame
  BY <1>6 DEF Lookup, Answer, ReadIndex, EndRead, Store, LockSame
<1>7. CASE Expire
  BY <1>7 DEF Expire, LockSame
<1> QED
  BY <1>1, <1>2, <1>3, <1>4, <1>5, <1>6, <1>7, WatcherAssumption DEF Next

-----------------------------------------------------------------------------
(* Types *)

LEMMA LockTypeStep ==
    ASSUME LockTypeOK, NEW i \in Indexers, LockStep(i)
    PROVE  LockTypeOK'
<1> USE DEF LockTypeOK, At, Go
<1>0. PidOf[i] \in Pids
  BY DEF Pids
<1>a. /\ source \in Nat /\ index \in Nat /\ stamp \in Nat
      /\ run \in [Indexers -> Activity] /\ run[i] \in Activity
      /\ lock \in Lock \cup {Nobody}
  OBVIOUS
<1>1. CASE Begin(i)
  BY <1>1, <1>a DEF Begin, Activity, Pcs
<1>2. CASE Exists(i)
  BY <1>2, <1>a DEF Exists, Activity, Pcs
<1>3. CASE Read(i)
  BY <1>3, <1>a DEF Read, Activity, Pcs
<1>4. CASE Unlink(i)
  BY <1>4, <1>a DEF Unlink, Activity, Pcs
<1>5. CASE Create(i)
  <2>1. PICK f \in Files :
          /\ lock' = [file |-> f, pid |-> Unwritten]
          /\ run' = [run EXCEPT ![i].pc = "fill", ![i].file = f]
    BY <1>5 DEF Create, Truncate
  <2>2. lock' \in Lock
    BY <2>1 DEF Lock
  <2>3. run' \in [Indexers -> Activity]
    BY <2>1, <1>a DEF Activity, Pcs
  <2> QED
    BY <1>5, <2>2, <2>3 DEF Create, Truncate
<1>6. CASE Fill(i)
  <2>1. lock' \in Lock \cup {Nobody}
    BY <1>6, <1>0, <1>a DEF Fill, Lock
  <2>2. run' \in [Indexers -> Activity]
    BY <1>6, <1>a DEF Fill, Activity, Pcs
  <2> QED
    BY <1>6, <2>1, <2>2 DEF Fill
<1>7. CASE Detect(i)
  BY <1>7, <1>a DEF Detect, Activity, Pcs
<1>8. CASE Commit(i)
  BY <1>8, <1>a DEF Commit, Activity, Pcs
<1>9. CASE Fail(i)
  BY <1>9, <1>a DEF Fail, Activity, Pcs
<1>10. CASE \E readers \in BOOLEAN : Close(i, readers)
  <2>1. PICK readers \in BOOLEAN : Close(i, readers)
    BY <1>10
  <2>2. wal' \in BOOLEAN /\ stamp' \in Nat
    <3>1. stamp' \in Nat
      BY <2>1, <1>a DEF Close
    <3>2. wal' = FALSE \/ wal' = wal
      BY <2>1 DEF Close
    <3> QED
      BY <3>1, <3>2
  <2>3. run' = [run EXCEPT ![i].pc = "release"]
    BY <2>1 DEF Close
  <2>4. run' \in [Indexers -> Activity]
    BY <2>3, <1>a DEF Activity, Pcs
  <2> QED
    BY <2>1, <2>2, <2>4 DEF Close
<1>11. CASE Release(i)
  <2>0. ASSUME NEW f \in Files, Truncate(f)
        PROVE  lock' \in Lock \cup {Nobody} /\ stuck' \in BOOLEAN
    BY <2>0 DEF Truncate, Lock
  <2>1. lock' \in Lock \cup {Nobody} /\ stuck' \in BOOLEAN
    <3>1. CASE UNCHANGED lock /\ stuck' = (lock # Nobody)
      BY <1>a, <3>1
    <3> QED
      BY <1>11, <1>a, <2>0, <3>1 DEF Release
  <2>2. run' \in [Indexers -> Activity]
    BY <1>11, <1>a DEF Release, Activity, Pcs, Idle
  <2> QED
    BY <1>11, <2>1, <2>2 DEF Release
<1>12. CASE Die(i)
  BY <1>12, <1>a DEF Die, Activity, Pcs, Idle
<1>13. CASE ClaimFails(i)
  BY <1>13, <1>a DEF ClaimFails, Activity, Pcs, Idle
<1> HIDE DEF LockTypeOK, At, Go
<1> QED
  BY <1>1, <1>2, <1>3, <1>4, <1>5, <1>6, <1>7, <1>8, <1>9, <1>10, <1>11, <1>12, <1>13
     DEF LockStep

LEMMA LockTypeNext ==
    ASSUME LockTypeOK, Next
    PROVE  LockTypeOK'
<1>1. CASE Edit
  BY <1>1 DEF Edit, LockTypeOK
<1>2. CASE LockSame
  BY <1>2 DEF LockSame, lockVars, LockTypeOK
<1> QED
  BY <1>1, <1>2, LockTypeStep, StepKinds

LEMMA TypeNext ==
    ASSUME TypeOK, Next
    PROVE  TypeOK'
<1> USE DEF TypeOK, WatcherTypeOK, vars, watcherVars, cacheVars
<1>0. LockTypeOK'
  BY LockTypeNext
<1>1. CASE Edit /\ UNCHANGED <<begun, watcherVars, cacheVars>>
  BY <1>0, <1>1
<1>2. ASSUME NEW i \in Indexers, Proceed(i)
      PROVE  TypeOK'
  BY <1>0, <1>2 DEF Proceed
<1>3. ASSUME NEW i \in Indexers, Outside(i)
      PROVE  TypeOK'
  BY <1>0, <1>3 DEF Outside
<1>4. ASSUME NEW t \in Timers, Watch(t)
      PROVE  TypeOK'
  <2>0. Cancelled \in [Timers -> {"free", "armed", "fired", "busy"}]
    BY DEF Cancelled
  <2>1. CASE Push(t)
    BY <1>0, <1>4, <2>0, <2>1 DEF Push, Watch
  <2>2. CASE Elapse(t)
    BY <1>0, <1>4, <2>2 DEF Elapse, Watch
  <2>3. CASE Fire(t)
    BY <1>0, <1>4, <2>3 DEF Fire, Watch
  <2>4. CASE Finish(t)
    BY <1>0, <1>4, <2>4 DEF Finish, Watch
  <2> QED
    BY <1>4, <2>1, <2>2, <2>3, <2>4 DEF Watch
<1>5. CASE (Ignore \/ Stop) /\ UNCHANGED <<begun, cacheVars>>
  <2>1. CASE Ignore
    BY <1>0, <1>5, <2>1 DEF Ignore
  <2>2. CASE Stop
    BY <1>0, <1>5, <2>2 DEF Stop, Cancelled
  <2> QED
    BY <1>5, <2>1, <2>2
<1>6. ASSUME NEW c \in Callers, Lookup(c) \/ ReadIndex(c) \/ EndRead(c) \/ Store(c)
      PROVE  TypeOK'
  <2>0. call[c] \in Calls /\ index \in Nat /\ stamp \in Nat
    BY DEF LockTypeOK
  <2>1. CASE Lookup(c)
    BY <1>0, <2>0, <2>1 DEF Lookup, Calls
  <2>2. CASE ReadIndex(c)
    BY <1>0, <2>0, <2>2 DEF ReadIndex, Calls
  <2>3. CASE EndRead(c)
    BY <1>0, <2>0, <2>3 DEF EndRead, Calls
  <2>4. CASE Store(c)
    <3> DEFINE late == call[c].got # index
    <3>1. late \in BOOLEAN
      OBVIOUS
    <3>2. cache' = [version |-> call[c].got, stamp |-> stamp, late |-> late] \/ cache' = cache
      BY <2>4 DEF Store
    <3> HIDE DEF late
    <3>3. cache' \in Entry \cup {NoEntry}
      BY <2>0, <3>1, <3>2 DEF Entry, Calls
    <3>4. call' \in [Callers -> Calls]
      BY <2>0, <2>4 DEF Store, Calls
    <3> QED
      BY <1>0, <2>4, <3>3, <3>4 DEF Store
  <2> QED
    BY <1>6, <2>1, <2>2, <2>3, <2>4
<1>7. CASE Expire
  BY <1>0, <1>7 DEF Expire
<1> HIDE DEF TypeOK
<1> QED
  BY <1>1, <1>2, <1>3, <1>4, <1>5, <1>6, <1>7 DEF Next, Answer

-----------------------------------------------------------------------------
(* Lock and index *)

LockInv == ClaimsExclude /\ ClaimsAlone /\ LockIsMine /\ DeadRest /\ SeenBetween

\* A step of a run leaves the other runs alone.
LEMMA OneMoves ==
    ASSUME LockTypeOK, NEW i \in Indexers, LockStep(i)
    PROVE  i \notin dead /\ \A j \in Indexers \ {i} : run'[j] = run[j]
BY DEF LockTypeOK, LockStep, At, Go, Begin, Exists, Read, Unlink, Create, Fill, ClaimFails, Detect, Commit,
       Fail, Close, Release, Die

LEMMA LockInvStep ==
    ASSUME LockTypeOK, LockInv, NEW i \in Indexers, LockStep(i)
    PROVE  LockInv'
<1> DEFINE Moves(from, to) == run[i].pc = from /\ run'[i].pc = to /\ run'[i].seen = run[i].seen
           Tree == UNCHANGED <<source, index, dead>>
           Rest == Tree /\ UNCHANGED <<lock, clash>>
<1>a. /\ source \in Nat /\ index \in Nat
      /\ run \in [Indexers -> Activity]
      /\ \A j \in Indexers : run[j].seen \in Nat
      /\ dead \subseteq Indexers
  BY LockAssumption DEF Activity, LockTypeOK
<1>b. i \notin dead /\ \A j \in Indexers \ {i} : run'[j] = run[j]
  BY OneMoves
<1>1. CASE Begin(i)
  <2>1. Moves("idle", "start") /\ Rest
    BY <1>1, <1>a DEF Begin, At, Go, Activity
  <2> QED
    BY <1>a, <1>b, <2>1 DEF LockInv, ClaimsExclude, ClaimsAlone, LockIsMine,
       DeadRest, SeenBetween, Claiming, Inside
<1>2. CASE Exists(i)
  <2>1. /\ Moves("start", IF lock = Nobody THEN "create" ELSE "read")
        /\ Tree /\ lock' = lock
        /\ ~clash' => ~clash /\ \A j \in Indexers \ {i} : run[j].pc \notin Claiming
    BY <1>2, <1>a DEF Exists, At, Go, Activity
  <2> QED
    BY <1>a, <1>b, <2>1 DEF LockInv, ClaimsExclude, ClaimsAlone, LockIsMine,
       DeadRest, SeenBetween, Claiming, Inside
<1>3. CASE Read(i)
  <2>1. /\ Moves("read", IF lock # Nobody /\ Running(lock.pid, i) THEN "idle" ELSE "unlink")
        /\ Rest
    BY <1>3, <1>a DEF Read, At, Go, Activity
  <2> QED
    BY <1>a, <1>b, <2>1 DEF LockInv, ClaimsExclude, ClaimsAlone, LockIsMine,
       DeadRest, SeenBetween, Claiming, Inside, Running
<1>4. CASE Unlink(i)
  <2>1. /\ Moves("unlink", "create")
        /\ Tree /\ clash' = clash /\ lock' \in {lock, Nobody}
    BY <1>4, <1>a DEF Unlink, At, Go, Activity
  <2> QED
    BY <1>a, <1>b, <2>1 DEF LockInv, ClaimsExclude, ClaimsAlone, LockIsMine,
       DeadRest, SeenBetween, Claiming, Inside
<1>5. CASE Create(i)
  <2>1. /\ Moves("create", "fill")
        /\ Tree /\ clash' = clash
        /\ lock' # Nobody /\ lock'.file = run'[i].file
    BY <1>5, <1>a, LockAssumption DEF Create, Truncate, At, Go, Activity, Lock
  <2> QED
    BY <1>a, <1>b, <2>1 DEF LockInv, ClaimsExclude, ClaimsAlone, LockIsMine,
       DeadRest, SeenBetween, Claiming, Inside
<1>6. CASE Fill(i)
  <2>1. /\ Moves("fill", "detect")
        /\ Tree /\ clash' = clash
        /\ lock # Nobody /\ lock.file = run[i].file => lock' # Nobody /\ lock'.pid = PidOf[i]
    BY <1>6, <1>a, LockAssumption DEF Fill, At, Go, Activity, Lock, LockTypeOK, Pids
  <2> QED
    BY <1>a, <1>b, <2>1 DEF LockInv, ClaimsExclude, ClaimsAlone, LockIsMine,
       DeadRest, SeenBetween, Claiming, Inside
<1>7. CASE Detect(i)
  <2>1. /\ run[i].pc = "detect" /\ run'[i].pc = "commit" /\ run'[i].seen = source
        /\ Rest
    BY <1>7, <1>a DEF Detect, At, Go, Activity
  <2> QED
    BY <1>a, <1>b, <2>1 DEF LockInv, ClaimsExclude, ClaimsAlone, LockIsMine,
       DeadRest, SeenBetween, Claiming, Inside
<1>8. CASE Commit(i)
  <2>1. /\ Moves("commit", "close")
        /\ index' = run[i].seen
        /\ UNCHANGED <<source, dead, lock, clash>>
    BY <1>8, <1>a DEF Commit, At, Go, Activity
  <2> QED
    BY <1>a, <1>b, <2>1 DEF LockInv, ClaimsExclude, ClaimsAlone, LockIsMine,
       DeadRest, SeenBetween, Claiming, Inside
<1>9. CASE Fail(i)
  <2>1. Moves("commit", "close") /\ Rest
    BY <1>9, <1>a DEF Fail, At, Go, Activity
  <2> QED
    BY <1>a, <1>b, <2>1 DEF LockInv, ClaimsExclude, ClaimsAlone, LockIsMine,
       DeadRest, SeenBetween, Claiming, Inside
<1>10. CASE \E readers \in BOOLEAN : Close(i, readers)
  <2>1. Moves("close", "release") /\ Rest
    BY <1>10, <1>a DEF Close, At, Go, Activity
  <2> QED
    BY <1>a, <1>b, <2>1 DEF LockInv, ClaimsExclude, ClaimsAlone, LockIsMine,
       DeadRest, SeenBetween, Claiming, Inside
<1>11. CASE Release(i)
  <2>1. /\ run[i].pc = "release" /\ run'[i].pc = "idle" /\ run'[i].seen = 0
        /\ Tree /\ clash' = clash
    BY <1>11, <1>a DEF Release, At, Go, Activity, Idle
  <2> QED
    BY <1>a, <1>b, <2>1 DEF LockInv, ClaimsExclude, ClaimsAlone, LockIsMine,
       DeadRest, SeenBetween, Claiming, Inside
<1>12. CASE Die(i)
  <2>1. /\ run'[i].pc = "idle" /\ run'[i].seen = 0
        /\ UNCHANGED <<source, index, lock, clash>> /\ dead' = dead \cup {i}
    BY <1>12, <1>a DEF Die, At, Go, Activity, Idle
  <2> QED
    BY <1>a, <1>b, <2>1 DEF LockInv, ClaimsExclude, ClaimsAlone, LockIsMine,
       DeadRest, SeenBetween, Claiming, Inside
<1>13. CASE ClaimFails(i)
  <2>1. /\ run[i].pc \in {"create", "fill"} /\ run'[i].pc = "idle" /\ run'[i].seen = 0
        /\ Rest
    BY <1>13, <1>a DEF ClaimFails, At, Activity, Idle
  <2> QED
    BY <1>a, <1>b, <2>1 DEF LockInv, ClaimsExclude, ClaimsAlone, LockIsMine,
       DeadRest, SeenBetween, Claiming, Inside
<1> QED
  BY <1>1, <1>2, <1>3, <1>4, <1>5, <1>6, <1>7, <1>8, <1>9, <1>10, <1>11, <1>12, <1>13
     DEF LockStep

LEMMA LockInvNext ==
    ASSUME LockTypeOK, LockInv, Next
    PROVE  LockInv'
<1>1. CASE Edit
  BY <1>1 DEF Edit, LockTypeOK, Activity, LockInv, ClaimsExclude, ClaimsAlone, LockIsMine,
              DeadRest, SeenBetween
<1>2. CASE LockSame
  BY <1>2 DEF LockSame, lockVars, LockInv, ClaimsExclude, ClaimsAlone, LockIsMine, DeadRest,
              SeenBetween
<1> QED
  BY <1>1, <1>2, LockInvStep, StepKinds

\* A run that commits has seen the tree since the commit before, as nobody else
\* was inside meanwhile.
LEMMA NeverOlderStep ==
    ASSUME LockTypeOK, LockInv, NEW i \in Indexers, LockStep(i), ~clash
    PROVE  index' >= index
<1>a. index \in Nat /\ \A j \in Indexers : run[j].seen \in Nat
  BY DEF LockTypeOK, Activity
<1>1. CASE Commit(i)
  BY <1>1, <1>a DEF Commit, At, LockInv, SeenBetween
<1>2. CASE ~Commit(i)
  <2>1. index' = index
    BY <1>2 DEF LockStep, Begin, Exists, Read, Unlink, Create, Fill, ClaimFails, Detect, Fail, Close,
                Release, Die
  <2> QED
    BY <2>1, <1>a
<1> QED
  BY <1>1, <1>2

-----------------------------------------------------------------------------
(* The lock file names a run inside *)

\* Clashes and refusals are remembered.
LEMMA Remembered ==
    ASSUME LockTypeOK, NEW i \in Indexers, LockStep(i)
    PROVE  (clash => clash') /\ refused \subseteq refused'
<1>1. CASE Exists(i)
  BY <1>1 DEF Exists
<1>2. CASE ~Exists(i)
  <2>1. clash' = clash
    BY <1>2 DEF LockStep, Begin, Read, Unlink, Create, Fill, ClaimFails, Detect, Commit, Fail, Close,
                Release, Die
  <2>2. refused \subseteq refused'
    BY <1>2 DEF LockStep, Begin, Read, Unlink, Create, Fill, ClaimFails, Detect, Commit, Fail, Close,
                Release, Die
  <2> QED
    BY <2>1, <2>2
<1> QED
  BY <1>1, <1>2

LEMMA HeldStep ==
    ASSUME LockTypeOK, LockInv, HeldHasHolder, NEW i \in Indexers, LockStep(i)
    PROVE  HeldHasHolder'
<1> SUFFICES ASSUME ~clash', ~stuck', lock' # Nobody,
                    NEW j \in Indexers \ dead', PidOf[j] = lock'.pid
             PROVE  \E h \in Indexers : run'[h].pc \in Inside /\ PidOf[h] = lock'.pid
  BY DEF HeldHasHolder, Running
<1>a. /\ run \in [Indexers -> Activity]
      /\ i \notin dead /\ \A h \in Indexers \ {i} : run'[h] = run[h]
      /\ PidOf[j] # Unwritten
  BY OneMoves, LockAssumption DEF LockTypeOK, Pids
<1>b. ASSUME NEW f \in Files, Truncate(f)
      PROVE  FALSE
  BY <1>a, <1>b DEF Truncate
<1>1. CASE lock' = lock /\ ~Die(i) /\ ~Fill(i)
  <2>0. ~Release(i)
    BY <1>1, <1>b DEF Release
  <2>1. ~clash /\ ~stuck /\ j \notin dead
    <3>1. dead' = dead /\ stuck' = stuck
      BY <1>1, <1>b, <2>0 DEF LockStep, Begin, Exists, Read, Unlink, Create, ClaimFails, Detect,
                  Commit, Fail, Close
    <3> QED
      BY <3>1, Remembered
  <2>2. PICK h \in Indexers : run[h].pc \in Inside /\ PidOf[h] = lock.pid
    BY <1>1, <2>1 DEF HeldHasHolder, Running
  <2>3. run[i].pc \in Inside => run'[i].pc \in Inside
    BY <1>1, <1>a, <2>0 DEF LockStep, Begin, Exists, Read, Unlink, Create, ClaimFails, Detect,
                      Commit, Fail, Close, At, Go, Inside, Activity
  <2> QED
    BY <1>1, <1>a, <2>2, <2>3
<1>2. CASE Die(i)
  <2>1. /\ lock' = lock /\ ~clash /\ ~stuck /\ i \in Mortal /\ j \notin dead /\ j # i
    BY <1>2 DEF Die
  <2>2. PICK h \in Indexers : run[h].pc \in Inside /\ PidOf[h] = lock.pid
    BY <2>1 DEF HeldHasHolder, Running
  <2>3. h # i
    BY <2>1, <2>2, LockAssumption
  <2> QED
    BY <1>a, <2>1, <2>2, <2>3
<1>3. CASE Fill(i)
  <2>1. ~clash /\ run'[i].pc = "detect"
    BY <1>3, <1>a DEF Fill, At, Activity
  <2>2. lock # Nobody /\ lock.file = run[i].file
    BY <1>3, <2>1 DEF Fill, At, LockInv, LockIsMine
  <2>3. lock'.pid = PidOf[i]
    BY <1>3, <2>2, LockAssumption DEF Fill, LockTypeOK, Lock
  <2> QED
    BY <2>1, <2>3 DEF Inside
<1>4. CASE lock' # lock /\ ~Fill(i)
  BY <1>4, <1>b DEF LockStep, Begin, Exists, Read, Unlink, Create, ClaimFails, Detect, Commit,
                    Fail, Close, Release, Die
<1> QED
  BY <1>1, <1>2, <1>3, <1>4

LEMMA HeldNext ==
    ASSUME LockTypeOK, LockInv, HeldHasHolder, Next
    PROVE  HeldHasHolder'
<1>1. CASE Edit
  BY <1>1 DEF Edit, HeldHasHolder, Running
<1>2. CASE LockSame
  BY <1>2 DEF LockSame, lockVars, HeldHasHolder, Running
<1> QED
  BY <1>1, <1>2, HeldStep, StepKinds

-----------------------------------------------------------------------------
(* Watcher *)

LEMMA PendingNext ==
    ASSUME TypeOK, PendingHasTimer, Next
    PROVE  PendingHasTimer'
<1> USE DEF PendingHasTimer, watcherVars, TypeOK, WatcherTypeOK
<1>1. CASE UNCHANGED watcherVars
  BY <1>1
<1>2. ASSUME NEW t \in Timers, Push(t)
      PROVE  PendingHasTimer'
  <2>1. thread'[t] = "armed"
    BY <1>2 DEF Push, Cancelled
  <2> QED
    BY <2>1
<1>3. ASSUME NEW t \in Timers, Elapse(t)
      PROVE  PendingHasTimer'
  BY <1>3 DEF Elapse
<1>4. ASSUME NEW t \in Timers, Fire(t)
      PROVE  PendingHasTimer'
  BY <1>4 DEF Fire
<1>5. ASSUME NEW t \in Timers, Finish(t)
      PROVE  PendingHasTimer'
  BY <1>5 DEF Finish
<1>6. CASE Ignore \/ Stop
  BY <1>6 DEF Ignore, Stop
<1> HIDE DEF PendingHasTimer, TypeOK, WatcherTypeOK
<1> QED
  BY <1>1, <1>2, <1>3, <1>4, <1>5, <1>6
     DEF Next, Proceed, Outside, Watch, Answer, Lookup, ReadIndex, EndRead, Store, Expire

-----------------------------------------------------------------------------
(* No edit is lost on its way *)

\* A run on its way to the edits it was begun for goes on, brings them to the
\* index, or is refused.
LEMMA WayOverLock ==
    ASSUME TypeOK, LockInv, EventsFollowEdits, EditsUnderWay,
           NEW i \in Indexers, LockStep(i), UNCHANGED watcherVars
    PROVE  EditsUnderWay'
<1> SUFFICES ASSUME Lacks(index, told)', ~stopped', ~clash', refused' \cap Timers = {}
             PROVE  OnItsWay'
  BY DEF EditsUnderWay
<1>a. /\ run \in [Indexers -> Activity] /\ Timers \subseteq Indexers /\ Timers \cap Mortal = {}
      /\ i \notin dead /\ \A h \in Indexers \ {i} : run'[h] = run[h]
      /\ source' = source /\ source \in Nat /\ index \in Nat /\ told \in Nat
  BY OneMoves, WatcherAssumption
     DEF TypeOK, LockTypeOK, WatcherTypeOK, LockStep, Begin, Exists, Read, Unlink, Create, Fill, ClaimFails, Detect, Commit,
         Fail, Close, Release, Die
<1>b. ~clash /\ refused \cap Timers = {} /\ ~stopped
  BY Remembered DEF watcherVars, TypeOK
<1>c. /\ \A v \in Nat : Lacks(v, told)' <=> Lacks(v, told)
      /\ ~Lacks(source, told)
  BY <1>a DEF Lacks, watcherVars, EventsFollowEdits
<1>1. CASE Commit(i)
  <2>1. run[i].pc = "commit" /\ index' = run[i].seen
    BY <1>1 DEF Commit, At
  <2>2. index <= run[i].seen /\ run[i].seen <= source /\ run[i].seen \in Nat
    BY <1>a, <1>b, <2>1 DEF LockInv, SeenBetween, Activity
  <2>3. Lacks(run[i].seen, told) /\ Lacks(index, told)
    BY <1>a, <2>1, <2>2 DEF Lacks, watcherVars
  <2>4. ASSUME NEW t \in Timers, Carries(t)  PROVE Carries(t)'
    <3>1. t # i
      BY <1>a, <2>1, <2>3, <2>4 DEF Carries, Claiming
    <3> QED
      BY <1>a, <1>c, <2>4, <3>1 DEF Carries, Activity
  <2>5. OnItsWay
    BY <1>a, <1>b, <2>3 DEF EditsUnderWay
  <2> QED
    BY <1>a, <2>4, <2>5 DEF OnItsWay, watcherVars
<1>2. CASE ~Commit(i)
  <2>1. index' = index
    BY <1>2 DEF LockStep, Begin, Exists, Read, Unlink, Create, Fill, ClaimFails, Detect, Fail, Close,
                Release, Die
  <2>2. ASSUME NEW t \in Timers, Carries(t)  PROVE Carries(t)'
    <3>1. CASE t # i
      BY <1>a, <1>c, <2>2, <3>1 DEF Carries, Activity
    <3>2. CASE t = i
      BY <1>2, <1>a, <1>c, <2>2, <3>2
         DEF Carries, LockStep, Begin, Exists, Read, Unlink, Create, Fill, ClaimFails, Detect, Fail, Close,
             Release, Die, At, Go, Claiming, Activity
    <3> QED
      BY <3>1, <3>2
  <2> QED
    BY <1>a, <1>b, <1>c, <2>1, <2>2 DEF EditsUnderWay, OnItsWay, watcherVars
<1> QED
  BY <1>1, <1>2

LEMMA EventsNext ==
    ASSUME TypeOK, EventsFollowEdits, Next
    PROVE  EventsFollowEdits'
<1>a. told \in Nat /\ source \in Nat
  BY DEF TypeOK, WatcherTypeOK, LockTypeOK
<1>1. source' = source \/ source' = source + 1
  BY StepKinds DEF Edit, LockSame, lockVars, LockStep, Begin, Exists, Read, Unlink, Create, Fill,
                   ClaimFails, Detect, Commit, Fail, Close, Release, Die
<1>2. told' = told \/ (told' = told + 1 /\ told < source /\ source' = source)
  BY DEF Next, Proceed, Outside, Watch, Answer, Lookup, ReadIndex, EndRead, Store, Expire,
         watcherVars, Push, Ignore, Elapse, Fire, Finish, Stop, lockVars
<1> QED
  BY <1>a, <1>1, <1>2 DEF EventsFollowEdits

LEMMA WayNext ==
    ASSUME TypeOK, LockInv, EventsFollowEdits, EditsUnderWay, Next
    PROVE  EditsUnderWay'
<1> USE DEF EditsUnderWay, OnItsWay
<1>a. told \in Nat /\ source \in Nat /\ thread \in [Timers -> {"free", "armed", "fired", "busy"}]
      /\ run \in [Indexers -> Activity] /\ Timers \subseteq Indexers
  BY WatcherAssumption DEF TypeOK, WatcherTypeOK, LockTypeOK
<1>1. CASE Edit /\ UNCHANGED watcherVars
  BY <1>1, <1>a DEF Edit, watcherVars, Lacks, Carries
<1>2. ASSUME NEW i \in Indexers, LockStep(i), UNCHANGED watcherVars
      PROVE  EditsUnderWay'
  BY <1>2, WayOverLock
<1>3. CASE LockSame /\ UNCHANGED watcherVars
  BY <1>3 DEF LockSame, lockVars, watcherVars, Carries, Lacks
<1>4. ASSUME NEW t \in Timers, Push(t)
      PROVE  EditsUnderWay'
  <2>1. thread'[t] = "armed" /\ pending' # {}
    BY <1>4 DEF Push, Cancelled
  <2> QED
    BY <2>1
<1>5. ASSUME NEW t \in Timers, Elapse(t) \/ Finish(t)
      PROVE  EditsUnderWay'
  <2>1. /\ UNCHANGED lockVars /\ UNCHANGED <<told, pending, stopped, filtered>>
        /\ \A u \in Timers : thread[u] \in {"armed", "fired"} => thread'[u] \in {"armed", "fired"}
    BY <1>5, <1>a DEF Elapse, Finish
  <2> QED
    BY <2>1 DEF lockVars, Carries, Lacks
<1>6. ASSUME NEW t \in Timers, Fire(t)
      PROVE  EditsUnderWay'
  <2>1. CASE pending = {}
    BY <1>6, <2>1 DEF Fire, lockVars, Carries, Lacks
  <2>2. CASE pending # {}
    <3>1. run'[t].pc = "start"
      BY <1>6, <1>a, <2>2 DEF Fire, Begin, At, Go, Activity
    <3> QED
      BY <3>1 DEF Carries
  <2> QED
    BY <2>1, <2>2
<1>7. CASE Stop
  BY <1>7 DEF Stop
<1>11. CASE Ignore
  <2>1. /\ UNCHANGED lockVars /\ UNCHANGED <<pending, thread, stopped>>
        /\ told' = told + 1 /\ filtered' = filtered \cup {told + 1}
    BY <1>11 DEF Ignore
  <2>2. \A v \in Nat : Lacks(v, told)' => Lacks(v, told)
    BY <1>a, <2>1 DEF Lacks
  <2>3. /\ Lacks(index, told)' => Lacks(index, told)
        /\ \A t \in Timers : Carries(t) => Carries(t)'
    BY <1>a, <2>1, <2>2 DEF Carries, Activity, lockVars, TypeOK, LockTypeOK
  <2> QED
    BY <2>1, <2>3 DEF lockVars
<1> HIDE DEF EditsUnderWay
<1>8. ASSUME NEW i \in Indexers, Proceed(i) \/ Outside(i)
      PROVE  LockStep(i) /\ UNCHANGED watcherVars
  BY <1>8 DEF Proceed, RunOn, Outside, LockStep
<1>9. ASSUME NEW c \in Callers, Lookup(c) \/ Answer(c)
      PROVE  LockSame /\ UNCHANGED watcherVars
  BY <1>9 DEF Lookup, Answer, ReadIndex, EndRead, Store, LockSame
<1>10. CASE Expire
  BY <1>3, <1>10 DEF Expire, LockSame
<1> QED
  BY <1>1, <1>2, <1>3, <1>4, <1>5, <1>6, <1>7, <1>8, <1>9, <1>10, <1>11 DEF Next, Watch

-----------------------------------------------------------------------------
(* Cache *)

CacheInv == StampsPast /\ StaleEntryHasCause

\* A run moves the modification time forward, past every entry, or leaves a
\* commit in the log, or changes nothing an entry is about.
LEMMA CacheOverLock ==
    ASSUME TypeOK, CacheInv, NEW i \in Indexers, LockStep(i), cache' = cache
    PROVE  CacheInv'
<1> USE DEF CacheInv, StampsPast, StaleEntryHasCause, Fresh, TypeOK, LockTypeOK, Entry
<1>1. CASE Commit(i)
  BY <1>1 DEF Commit
<1>2. CASE \E readers \in BOOLEAN : Close(i, readers)
  BY <1>2 DEF Close
<1>3. CASE UNCHANGED <<index, wal, stamp>>
  BY <1>3
<1> HIDE DEF CacheInv, TypeOK
<1> QED
  BY <1>1, <1>2, <1>3
     DEF LockStep, Begin, Exists, Read, Unlink, Create, Fill, ClaimFails, Detect, Fail, Release, Die

LEMMA CacheNext ==
    ASSUME TypeOK, CacheInv, Next
    PROVE  CacheInv'
<1>1. CASE cache' = cache
  <2>1. CASE Edit \/ LockSame
    BY <1>1, <2>1 DEF Edit, LockSame, lockVars, CacheInv, StampsPast, StaleEntryHasCause, Fresh
  <2> QED
    BY <1>1, <2>1, StepKinds, CacheOverLock
<1>2. ASSUME NEW c \in Callers, Store(c)
      PROVE  CacheInv'
  <2>1. UNCHANGED <<index, wal, stamp>>
    BY <1>2 DEF Store, lockVars
  <2>2. CASE cache' = [version |-> call[c].got, stamp |-> stamp, late |-> call[c].got # index]
    <3>1. cache'.version = call[c].got /\ cache'.stamp = stamp
      BY <2>2
    <3>2. cache'.late = (call[c].got # index)
      BY <2>2, Zenon
    <3> HIDE <2>2
    <3>3. ~cache'.late => cache'.version = index
      BY <3>1, <3>2
    <3> QED
      BY <2>1, <3>1, <3>3 DEF CacheInv, StampsPast, StaleEntryHasCause, Fresh, TypeOK, LockTypeOK
  <2> QED
    BY <1>1, <1>2, <2>2 DEF Store
<1>3. CASE Expire
  BY <1>3 DEF Expire, CacheInv, StampsPast, StaleEntryHasCause, Fresh
<1> QED
  BY <1>1, <1>2, <1>3
     DEF Next, Proceed, Outside, Watch, Answer, Lookup, ReadIndex, EndRead, cacheVars

-----------------------------------------------------------------------------
(* The theorems *)

LEMMA InvInit == Init => ServedInv
<1> SUFFICES ASSUME Init
             PROVE  ServedInv
  OBVIOUS
<1> USE DEF Init, LockInit, WatcherInit
<1>1. TypeOK
  BY DEF TypeOK, LockTypeOK, WatcherTypeOK, Activity, Idle, Pcs, Calls
<1>2. ClaimsExclude /\ ClaimsAlone /\ LockIsMine /\ DeadRest /\ SeenBetween
  BY DEF ClaimsExclude, ClaimsAlone, LockIsMine, DeadRest, SeenBetween, Idle, Claiming, Inside
<1>3. PendingHasTimer /\ StampsPast /\ StaleEntryHasCause
  BY DEF PendingHasTimer, StampsPast, StaleEntryHasCause, Fresh
<1>4. HeldHasHolder /\ EventsFollowEdits /\ EditsUnderWay
  BY DEF HeldHasHolder, EventsFollowEdits, EditsUnderWay, Lacks
<1> QED
  BY <1>1, <1>2, <1>3, <1>4 DEF ServedInv

LEMMA InvNext == ServedInv /\ [Next]_vars => ServedInv'
<1> SUFFICES ASSUME ServedInv, [Next]_vars
             PROVE  ServedInv'
  OBVIOUS
<1>1. CASE Next
  BY <1>1, TypeNext, LockInvNext, PendingNext, CacheNext, HeldNext, EventsNext, WayNext
     DEF ServedInv, LockInv, CacheInv, TypeOK
<1>2. CASE UNCHANGED vars
  BY <1>2 DEF vars, lockVars, watcherVars, cacheVars, ServedInv, TypeOK, LockTypeOK, WatcherTypeOK,
              ClaimsExclude, ClaimsAlone, LockIsMine, DeadRest, SeenBetween, PendingHasTimer,
              StampsPast, StaleEntryHasCause, Fresh, HeldHasHolder, Running, EventsFollowEdits,
              EditsUnderWay, OnItsWay, Carries, Lacks
<1> QED
  BY <1>1, <1>2

LEMMA Inductive == Spec => []ServedInv
BY InvInit, InvNext, PTL DEF Spec

\* Lock file, runs, watcher, cache and calls keep their types (every handler of
\* indexer.py's lock, watcher.py and _run_roam).
THEOREM TypeCorrect == Spec => []TypeOK
<1>1. ServedInv => TypeOK
  BY DEF ServedInv
<1> QED
  BY <1>1, Inductive, PTL

\* _claim_index_lock keeps any number of runs apart as long as no two claims
\* overlap, whoever is killed and whatever stale lock a claim finds.
THEOREM ClaimsExcludeHolds == Spec => []ClaimsExclude
<1>1. ServedInv => ClaimsExclude
  BY DEF ServedInv
<1> QED
  BY <1>1, Inductive, PTL

\* As long as claims do not overlap, no run of Indexer.run puts an older state
\* of the tree back over a newer one.
THEOREM IndexNeverOlderHolds == Spec => IndexNeverOlder
<1>1. ServedInv /\ [Next]_vars => [~clash => index' >= index]_vars
  <2> SUFFICES ASSUME ServedInv, Next, ~clash
               PROVE  index' >= index
    BY DEF ServedInv
  <2>1. CASE Edit \/ LockSame
    BY <2>1 DEF Edit, LockSame, lockVars, ServedInv, TypeOK, LockTypeOK
  <2> QED
    BY <2>1, StepKinds, NeverOlderStep DEF ServedInv, TypeOK, LockInv
<1> QED
  BY <1>1, Inductive, PTL DEF Spec, IndexNeverOlder

\* Edits pushed to the debouncer and not taken yet have a timer that will take
\* them, in any order of push, cancel and _fire.
THEOREM PendingHasTimerHolds == Spec => []PendingHasTimer
<1>1. ServedInv => PendingHasTimer
  BY DEF ServedInv
<1> QED
  BY <1>1, Inductive, PTL

\* _claim_index_lock gives up only while a run is inside: a lock that passes for
\* held is held, as long as claims did not overlap and no run that ended could
\* neither remove its lock nor mark it released.
THEOREM HeldHasHolderHolds == Spec => []HeldHasHolder
<1>1. ServedInv => HeldHasHolder
  BY DEF ServedInv
<1> QED
  BY <1>1, Inductive, PTL

\* An edit that push took in and the index does not show is with a timer or a run
\* of the watcher, but for windows whose run was refused or failed.  What push
\* drops for its suffix or directory is not promised.
THEOREM EditsUnderWayHolds == Spec => []EditsUnderWay
<1>1. ServedInv => EditsUnderWay
  BY DEF ServedInv
<1> QED
  BY <1>1, Inductive, PTL

\* A result in _ROAM_RESULT_CACHE that passes for valid and is out of date was
\* on its way when the index changed, or the commit is still in the log.
THEOREM StaleEntryHasCauseHolds == Spec => []StaleEntryHasCause
<1>1. ServedInv => StaleEntryHasCause
  BY DEF ServedInv
<1> QED
  BY <1>1, Inductive, PTL
=============================================================================
