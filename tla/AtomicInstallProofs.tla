------------------------- MODULE AtomicInstallProofs -------------------------
(***************************************************************************)
(* TLAPS proofs about the write protocol of roam/atomic_io.py, for any set *)
(* of processes, any number of writes, swaps and removals, and both        *)
(* platforms.                                                              *)
(***************************************************************************)
EXTENDS AtomicInstall, TLAPS

\* A party's newest object is an object.
LEMMA OwnIsObject ==
    ASSUME TypeOK, NEW w \in Writers
    PROVE  Own(w) \in Object
BY DEF TypeOK, Own, Object, Parties

\* So is the one it creates next, as long as it may create one.
LEMMA NextOwnIsObject ==
    ASSUME TypeOK, NEW p \in Parties, NEW bound \in {MaxAttempts, MaxSwaps},
           tries[p] < bound, tries' = [tries EXCEPT ![p] = @ + 1]
    PROVE  /\ Own(p)' \in Object
           /\ tries' \in [Parties -> 0..(MaxAttempts + MaxSwaps)]
BY InstallAssumption DEF TypeOK, Own, Object, Parties

\* Type correctness of the write protocol: every step of atomic_write_bytes
\* leaves paths, program counters and generations in their sets.
THEOREM TypeCorrect == Spec => []TypeOK
<1>1. Init => TypeOK
  BY InstallAssumption DEF Init, TypeOK, Original, Object, Parties, Mode, Pc
<1>2. TypeOK /\ [Next]_vars => TypeOK'
  <2> SUFFICES ASSUME TypeOK, [Next]_vars PROVE TypeOK'
    OBVIOUS
  <2>0. platform' = platform
    BY DEF Next, vars
  <2> USE <2>0 DEF TypeOK, Goto, Pc, Filling, Checking, Committed, aux
  <2>1. ASSUME NEW w \in Writers, NEW m \in Mode, Create(w, m) PROVE TypeOK'
    <3>1. Own(w)' \in Object /\ tries' \in [Parties -> 0..(MaxAttempts + MaxSwaps)]
      BY <2>1, NextOwnIsObject DEF Create, MayStart, Parties
    <3> QED BY <2>1, <3>1 DEF Create
  <2>2. ASSUME NEW w \in Writers, BeginWrite(w) PROVE TypeOK'
    BY <2>2 DEF BeginWrite
  <2>3. ASSUME NEW w \in Writers, FinishWrite(w) PROVE TypeOK'
    BY <2>3, OwnIsObject DEF FinishWrite
  <2>4. ASSUME NEW w \in Writers, Capture(w) PROVE TypeOK'
    BY <2>4 DEF Capture
  <2>5. ASSUME NEW w \in Writers, Pin(w) PROVE TypeOK'
    BY <2>5 DEF Pin
  <2>6. ASSUME NEW w \in Writers, Recheck(w) PROVE TypeOK'
    BY <2>6 DEF Recheck
  <2>7. ASSUME NEW w \in Writers, Prove(w) PROVE TypeOK'
    BY <2>7 DEF Prove
  <2>8. ASSUME NEW w \in Writers, Publish(w) PROVE TypeOK'
    BY <2>8, OwnIsObject DEF Publish
  <2>9. ASSUME NEW w \in Writers, Confirm(w) \/ Return(w) \/ SyncFails(w) \/ QuarantineFails(w)
        PROVE TypeOK'
    BY <2>9 DEF Confirm, Return, SyncFails, QuarantineFails
  <2>10. ASSUME NEW w \in Writers, Quarantine(w) PROVE TypeOK'
    BY <2>10 DEF Quarantine
  <2>11. ASSUME NEW w \in Writers, Abort(w) PROVE TypeOK'
    BY <2>11, OwnIsObject DEF Abort, Cleanable
  <2>12. ASSUME NEW w \in Writers, Die(w) PROVE TypeOK'
    BY <2>12 DEF Die
  <2>13. ASSUME NEW w \in Writers, Swap(w) PROVE TypeOK'
    <3>1. Own(Other)' \in Object /\ tries' \in [Parties -> 0..(MaxAttempts + MaxSwaps)]
      BY <2>13, NextOwnIsObject DEF Swap, Parties
    <3> QED BY <2>13, <3>1 DEF Swap
  <2>14. CASE Remove
    BY <2>14 DEF Remove
  <2>15. CASE UNCHANGED vars
    BY <2>15 DEF vars
  <2> QED
    BY <2>1, <2>2, <2>3, <2>4, <2>5, <2>6, <2>7, <2>8, <2>9, <2>10, <2>11,
       <2>12, <2>13, <2>14, <2>15 DEF Next
<1> QED BY <1>1, <1>2, PTL DEF Spec

-----------------------------------------------------------------------------
\* Program points at which the tempfile holds the complete payload.
Complete == {"written", "published"} \cup Checking

\* NoTornDestination with what it rests on: the payload is complete before the
\* checks begin, and a proved tempfile pathname names it or a late swap.
ContentInv ==
    /\ \A w \in Writers : pc[w] \in Complete => Own(w) \in whole
    /\ \A w \in Writers : pc[w] = "proved" => temp[w] \in {Own(w)} \cup late
    /\ NoTornDestination

LEMMA ContentInvariant == Spec => []ContentInv
<1>1. Init => ContentInv
  BY DEF Init, ContentInv, NoTornDestination, Complete, Checking
<1>2. TypeOK /\ ContentInv /\ [Next]_vars => ContentInv'
  <2> SUFFICES ASSUME TypeOK, ContentInv, [Next]_vars PROVE ContentInv'
    OBVIOUS
  <2> USE InstallAssumption DEF ContentInv, NoTornDestination, TypeOK, Goto,
          Own, Complete, Checking, Filling, Committed, Pc, aux
  <2>1. ASSUME NEW w \in Writers, NEW m \in Mode, Create(w, m) PROVE ContentInv'
    BY <2>1 DEF Create, MayStart, Parties
  <2>2. ASSUME NEW w \in Writers, BeginWrite(w) \/ FinishWrite(w)
        PROVE ContentInv'
    BY <2>2 DEF BeginWrite, FinishWrite
  <2>3. ASSUME NEW w \in Writers, Capture(w) \/ Pin(w) PROVE ContentInv'
    BY <2>3 DEF Capture, Pin
  <2>4. ASSUME NEW w \in Writers, Recheck(w) \/ Prove(w) PROVE ContentInv'
    BY <2>4 DEF Recheck, Prove, TempUntouched
  <2>5. ASSUME NEW w \in Writers, Publish(w) PROVE ContentInv'
    BY <2>5 DEF Publish
  <2>6. ASSUME NEW w \in Writers, Confirm(w) \/ Return(w) \/ SyncFails(w) \/ QuarantineFails(w)
        PROVE ContentInv'
    BY <2>6 DEF Confirm, Return, SyncFails, QuarantineFails
  <2>7. ASSUME NEW w \in Writers, Quarantine(w) \/ Abort(w) \/ Die(w)
        PROVE ContentInv'
    BY <2>7 DEF Quarantine, Abort, Die
  <2>8. ASSUME NEW w \in Writers, Swap(w) PROVE ContentInv'
    BY <2>8 DEF Swap, Parties
  <2>9. CASE Remove
    BY <2>9 DEF Remove
  <2>10. CASE UNCHANGED vars
    BY <2>10 DEF vars
  <2> QED
    BY <2>1, <2>2, <2>3, <2>4, <2>5, <2>6, <2>7, <2>8, <2>9, <2>10 DEF Next
<1> QED BY <1>1, <1>2, TypeCorrect, PTL DEF Spec

\* No reader of the destination ever meets a torn or foreign file, except one
\* swapped in after the final proof of a POSIX write.
THEOREM NeverTorn == Spec => []NoTornDestination
BY ContentInvariant, PTL DEF ContentInv

-----------------------------------------------------------------------------
\* Every exclusive move uses up one time the destination named no file.
MoveInv ==
    /\ moves <= vacated
    /\ dest = None => moves + 1 <= vacated

\* Create-only publication: two writers that both saw an absent destination
\* cannot both move their tempfile onto it.
THEOREM CreateOnlyOnceHolds == Spec => []CreateOnlyOnce
<1>1. Init => MoveInv
  BY InstallAssumption DEF Init, MoveInv, Original
<1>2. TypeOK /\ MoveInv /\ [Next]_vars => MoveInv'
  <2> SUFFICES ASSUME TypeOK, MoveInv, [Next]_vars PROVE MoveInv'
    OBVIOUS
  <2>1. ASSUME NEW w \in Writers, Publish(w) PROVE MoveInv'
    BY <2>1 DEF Publish, MayMove, MoveInv, TypeOK
  <2>2. ASSUME NEW w \in Writers, Quarantine(w) PROVE MoveInv'
    BY <2>2 DEF Quarantine, MoveInv, TypeOK, aux
  <2>3. CASE Remove
    BY <2>3 DEF Remove, MoveInv, TypeOK, aux
  <2>4. CASE UNCHANGED <<dest, moves, vacated>>
    BY <2>4 DEF MoveInv
  <2> QED
    BY <2>1, <2>2, <2>3, <2>4 DEF Next, vars, aux, Create, BeginWrite,
       FinishWrite, Capture, Pin, Recheck, Prove, Confirm, Return, SyncFails, QuarantineFails,
       Abort, Die, Swap
<1>3. MoveInv => CreateOnlyOnce
  BY DEF MoveInv, CreateOnlyOnce
<1> QED BY <1>1, <1>2, <1>3, TypeCorrect, PTL DEF Spec

-----------------------------------------------------------------------------
\* Whose objects are where: a tempfile pathname names the object of its write
\* or one that Other put there, so only the write itself publishes its object;
\* before it has, nobody has published or deleted it.
OwnershipInv ==
    /\ \A o \in ever \cup unlinked : o.by \in Writers => o.n <= tries[o.by]
    /\ dest \in ever \cup {None}
    /\ ever \cap unlinked = {}
    /\ \A o \in unlinked : o.by # Other
    /\ \A w \in Writers :
         /\ temp[w] \in {None, Own(w)} \/ temp[w].by = Other
         /\ pc[w] \in Fallible => Own(w) \notin ever \cup unlinked
         /\ mode[w].built => Own(w) \notin unlinked

LEMMA NoneIsNoObject == None \notin Object
<1>1. None \in {None, Torn}
  OBVIOUS
<1> QED
  BY <1>1, InstallAssumption DEF Object, Parties

LEMMA OwnershipInvariant == Spec => []OwnershipInv
<1>1. Init => OwnershipInv
  BY InstallAssumption DEF Init, OwnershipInv, Original, Own, Fallible, Filling, Checking
<1>2. TypeOK /\ OwnershipInv /\ [Next]_vars => OwnershipInv'
  <2> SUFFICES ASSUME TypeOK, OwnershipInv, [Next]_vars PROVE OwnershipInv'
    OBVIOUS
  <2> USE InstallAssumption DEF OwnershipInv, TypeOK, Goto, Own, Fallible, Filling, Checking,
          Pc, Committed, aux
  <2>1. ASSUME NEW w \in Writers, NEW m \in Mode, Create(w, m) PROVE OwnershipInv'
    BY <2>1 DEF Create, MayStart, Parties, Object
  <2>2. ASSUME NEW w \in Writers, BeginWrite(w) \/ FinishWrite(w)
        PROVE OwnershipInv'
    BY <2>2 DEF BeginWrite, FinishWrite
  <2>3. ASSUME NEW w \in Writers, Capture(w) \/ Pin(w) PROVE OwnershipInv'
    BY <2>3 DEF Capture, Pin
  <2>4. ASSUME NEW w \in Writers, Recheck(w) \/ Prove(w) PROVE OwnershipInv'
    BY <2>4 DEF Recheck, Prove
  <2>5. ASSUME NEW w \in Writers, Publish(w) PROVE OwnershipInv'
    <3>1. /\ temp[w] = Own(w) \/ temp[w].by = Other
          /\ pc[w] = "proved" /\ temp[w] # None
          /\ ever' = ever \cup {temp[w]} /\ dest' = temp[w]
          /\ temp' = [temp EXCEPT ![w] = None]
          /\ pc' = [pc EXCEPT ![w] = pc'[w]] /\ pc'[w] \in Committed
          /\ UNCHANGED <<tries, mode, unlinked>>
      BY <2>5 DEF Publish
    <3>2. /\ temp[w] \notin unlinked
          /\ temp[w].by \in Writers => temp[w].n <= tries[temp[w].by]
      BY <3>1 DEF Parties
    <3>3. ASSUME NEW v \in Writers \ {w} PROVE Own(v) # temp[w]
      BY <3>1
    <3> QED
      BY <3>1, <3>2, <3>3
  <2>6. ASSUME NEW w \in Writers, Confirm(w) \/ Return(w) \/ SyncFails(w) \/ QuarantineFails(w)
        PROVE OwnershipInv'
    BY <2>6 DEF Confirm, Return, SyncFails, QuarantineFails
  <2>7. ASSUME NEW w \in Writers, Quarantine(w) PROVE OwnershipInv'
    BY <2>7 DEF Quarantine
  <2>8. ASSUME NEW w \in Writers, Abort(w) PROVE OwnershipInv'
    BY <2>8 DEF Abort, Cleanable, TempUntouched, Parties, Object
  <2>9. ASSUME NEW w \in Writers, Die(w) PROVE OwnershipInv'
    BY <2>9 DEF Die
  <2>10. ASSUME NEW w \in Writers, Swap(w) PROVE OwnershipInv'
    BY <2>10 DEF Swap, Parties
  <2>11. CASE Remove
    BY <2>11 DEF Remove
  <2>12. CASE UNCHANGED vars
    BY <2>12 DEF vars
  <2> QED
    BY <2>1, <2>2, <2>3, <2>4, <2>5, <2>6, <2>7, <2>8, <2>9, <2>10, <2>11, <2>12 DEF Next
<1> QED BY <1>1, <1>2, TypeCorrect, PTL DEF Spec

\* _cleanup_tmp deletes neither a replacement object, nor the destination that
\* readers see, nor a file conditional_install_file was handed.
THEOREM CleanupSparesOthersHolds == Spec => []CleanupSparesOthers
<1>1. TypeOK /\ OwnershipInv => CleanupSparesOthers
  BY InstallAssumption DEF TypeOK, OwnershipInv, CleanupSparesOthers, Object, Parties
<1> QED BY <1>1, OwnershipInvariant, TypeCorrect, PTL

\* HonestResult with what it rests on: results belong to writes that are over,
\* and a committed write has published its object or a late swap.
ResultInv ==
    /\ HonestResult
    /\ \A w \in Writers :
         /\ result[w] # "none" => pc[w] = "idle"
         /\ pc[w] \in Committed /\ late = {} => Own(w) \in ever

\* The outcome a caller of the write functions is told is the truth: a write
\* that returned has been published, and one that raised without durability
\* does not show, unless the error says that it could not be moved aside.
THEOREM HonestResultHolds == Spec => []HonestResult
<1>1. Init => ResultInv
  BY DEF Init, ResultInv, HonestResult, Committed
<1>2. TypeOK /\ OwnershipInv /\ ContentInv /\ ResultInv /\ [Next]_vars => ResultInv'
  <2> SUFFICES ASSUME TypeOK, OwnershipInv, ContentInv, ResultInv, [Next]_vars PROVE ResultInv'
    OBVIOUS
  <2> USE InstallAssumption DEF ResultInv, HonestResult, TypeOK, Goto, Own, Fallible, Filling,
          Checking, Pc, Committed, aux
  <2>1. ASSUME NEW w \in Writers, NEW m \in Mode, Create(w, m) PROVE ResultInv'
    BY <2>1 DEF Create, MayStart, Parties
  <2>2. ASSUME NEW w \in Writers, BeginWrite(w) \/ FinishWrite(w)
        PROVE ResultInv'
    BY <2>2 DEF BeginWrite, FinishWrite
  <2>3. ASSUME NEW w \in Writers, Capture(w) \/ Pin(w) PROVE ResultInv'
    BY <2>3 DEF Capture, Pin
  <2>4. ASSUME NEW w \in Writers, Recheck(w) \/ Prove(w) PROVE ResultInv'
    BY <2>4 DEF Recheck, Prove
  <2>5. ASSUME NEW w \in Writers, Publish(w) PROVE ResultInv'
    <3>1. ASSUME NEW v \in Writers \ {w} PROVE Own(v) # temp[w]
      <4>1. temp[w] = Own(w) \/ temp[w].by = Other
        BY <2>5 DEF OwnershipInv, Publish
      <4> QED
        BY <4>1
    <3>2. late = {} => temp[w] = Own(w)
      BY <2>5 DEF Publish, ContentInv
    <3> QED
      BY <2>5, <3>1, <3>2 DEF Publish
  <2>6. ASSUME NEW w \in Writers, Confirm(w) \/ Return(w) \/ QuarantineFails(w)
        PROVE ResultInv'
    BY <2>6 DEF Confirm, Return, QuarantineFails
  <2>7. ASSUME NEW w \in Writers, SyncFails(w) PROVE ResultInv'
    BY <2>7 DEF SyncFails
  <2>8. ASSUME NEW w \in Writers, Quarantine(w) PROVE ResultInv'
    BY <2>8, OwnIsObject, NoneIsNoObject DEF Quarantine
  <2>9. ASSUME NEW w \in Writers, Abort(w) PROVE ResultInv'
    <3>1. dest # Own(w)
      BY <2>9, OwnIsObject, NoneIsNoObject DEF Abort, OwnershipInv
    <3> QED
      BY <2>9, <3>1 DEF Abort
  <2>10. ASSUME NEW w \in Writers, Die(w) PROVE ResultInv'
    BY <2>10 DEF Die
  <2>11. ASSUME NEW w \in Writers, Swap(w) PROVE ResultInv'
    BY <2>11 DEF Swap, Parties
  <2>12. CASE Remove
    BY <2>12, OwnIsObject, NoneIsNoObject DEF Remove
  <2>13. CASE UNCHANGED vars
    BY <2>13 DEF vars
  <2> QED
    BY <2>1, <2>2, <2>3, <2>4, <2>5, <2>6, <2>7, <2>8, <2>9, <2>10, <2>11, <2>12, <2>13 DEF Next
<1>3. ResultInv => HonestResult
  BY DEF ResultInv
<1> QED
  BY <1>1, <1>2, <1>3, TypeCorrect, OwnershipInvariant, ContentInvariant, PTL DEF Spec

-----------------------------------------------------------------------------
\* Objects that Other puts under tempfile pathnames are new each time.
SwapInv ==
    /\ \A o \in ever : o.by = Other => o.n <= tries[Other]
    /\ \A w \in Writers : temp[w] # None /\ temp[w].by = Other =>
         /\ temp[w].n <= tries[Other]
         /\ temp[w] \notin ever
         /\ \A v \in Writers : temp[v] = temp[w] => v = w

LEMMA SwapInvariant == Spec => []SwapInv
<1>1. Init => SwapInv
  BY InstallAssumption DEF Init, SwapInv, Original, Parties
<1>2. TypeOK /\ OwnershipInv /\ SwapInv /\ [Next]_vars => SwapInv'
  <2> SUFFICES ASSUME TypeOK, OwnershipInv, SwapInv, [Next]_vars PROVE SwapInv'
    OBVIOUS
  <2> USE InstallAssumption DEF SwapInv, TypeOK, Own
  <2>1. ASSUME NEW w \in Writers, NEW m \in Mode, Create(w, m) PROVE SwapInv'
    BY <2>1 DEF Create, Parties
  <2>2. ASSUME NEW w \in Writers, Publish(w) PROVE SwapInv'
    BY <2>2 DEF Publish, OwnershipInv
  <2>3. ASSUME NEW w \in Writers, Abort(w) \/ Die(w) PROVE SwapInv'
    BY <2>3 DEF Abort, Die, aux
  <2>4. ASSUME NEW w \in Writers, Swap(w) PROVE SwapInv'
    BY <2>4, NoneIsNoObject DEF Swap, aux, Parties, Object
  <2>5. CASE UNCHANGED <<ever, temp, tries>>
    BY <2>5
  <2> HIDE DEF SwapInv
  <2> QED
    BY <2>1, <2>2, <2>3, <2>4, <2>5 DEF Next, vars, aux, BeginWrite, FinishWrite, Capture, Pin,
       Recheck, Prove, Confirm, Quarantine, QuarantineFails, Return, SyncFails, Remove
<1> QED BY <1>1, <1>2, TypeCorrect, OwnershipInvariant, PTL DEF Spec

\* The write protocol implements an atomic file: each step of each writer is to
\* readers the installation of a payload never seen before, the removal of the
\* file, or nothing.
THEOREM Refinement == Spec => ImplementsAtomicFile
<1>1. Init => Reader!Init
  BY InstallAssumption DEF Init, Reader!Init, Contents, Original, Object, Parties
<1>2. /\ TypeOK /\ ContentInv /\ OwnershipInv /\ SwapInv /\ [Next]_vars /\ ContentInv'
      => [Reader!Next]_<<Contents, ever>>
  <2> SUFFICES ASSUME TypeOK, ContentInv, OwnershipInv, SwapInv, [Next]_vars, ContentInv'
               PROVE  [Reader!Next]_<<Contents, ever>>
    OBVIOUS
  <2>0. Contents = dest /\ Contents' = dest'
    BY DEF ContentInv, NoTornDestination, Contents
  <2>1. ASSUME NEW w \in Writers, Publish(w) PROVE Reader!Next
    <3>1. temp[w] \in Object /\ dest' = temp[w] /\ ever' = ever \cup {temp[w]}
      BY <2>1 DEF Publish, TypeOK
    <3>2. temp[w] \notin ever
      BY <2>1, <3>1 DEF Publish, OwnershipInv, SwapInv, Fallible, Checking
    <3>3. Reader!Install(temp[w])
      BY <2>0, <3>1, <3>2 DEF Reader!Install
    <3> QED
      BY <3>1, <3>3 DEF Reader!Next
  <2>2. ASSUME NEW w \in Writers, Quarantine(w) PROVE Reader!Next
    BY <2>0, <2>2 DEF Quarantine, aux, Reader!Next, Reader!Vacate
  <2>3. CASE Remove
    BY <2>0, <2>3 DEF Remove, aux, Reader!Next, Reader!Vacate
  <2>4. CASE UNCHANGED <<dest, ever>>
    BY <2>0, <2>4
  <2> QED
    BY <2>1, <2>2, <2>3, <2>4 DEF Next, vars, aux, Create, BeginWrite, FinishWrite, Capture, Pin,
       Recheck, Prove, Confirm, Return, SyncFails, QuarantineFails, Abort, Die, Swap
<1> QED
  BY <1>1, <1>2, TypeCorrect, ContentInvariant, OwnershipInvariant, SwapInvariant, PTL
     DEF Spec, ImplementsAtomicFile, Reader!Spec

-----------------------------------------------------------------------------
\* What a write that found the destination present may have missed.
RaceInv ==
    \A w \in Writers :
        pc[w] \in {"proving", "proved"} /\ expected[w] # None /\ dest # None
            => dest = expected[w] \/ dest \in raced[w]

\* _native_conditional_install overwrites only the generation it captured, or
\* one installed after its last look.
THEOREM OverwriteOnlyKnownHolds == Spec => OverwriteOnlyKnown
<1>1. Init => RaceInv
  BY DEF Init, RaceInv
<1>2. TypeOK /\ RaceInv /\ [Next]_vars => RaceInv'
  <2> SUFFICES ASSUME TypeOK, RaceInv, [Next]_vars PROVE RaceInv'
    OBVIOUS
  <2> USE DEF RaceInv, TypeOK, Goto, aux
  <2>1. ASSUME NEW w \in Writers, NEW m \in Mode, Create(w, m) PROVE RaceInv'
    BY <2>1 DEF Create
  <2>2. ASSUME NEW w \in Writers, BeginWrite(w) \/ FinishWrite(w) \/ Capture(w) \/ Pin(w)
        PROVE RaceInv'
    BY <2>2 DEF BeginWrite, FinishWrite, Capture, Pin
  <2>3. ASSUME NEW w \in Writers, Recheck(w) \/ Prove(w) PROVE RaceInv'
    BY <2>3 DEF Recheck, Prove, DestinationUnchanged
  <2>4. ASSUME NEW w \in Writers, Publish(w) PROVE RaceInv'
    BY <2>4 DEF Publish
  <2>5. ASSUME NEW w \in Writers, Confirm(w) \/ Return(w) \/ SyncFails(w) \/ Quarantine(w)
                              \/ QuarantineFails(w)
        PROVE RaceInv'
    BY <2>5 DEF Confirm, Return, SyncFails, Quarantine, QuarantineFails
  <2>6. ASSUME NEW w \in Writers, Abort(w) \/ Die(w) \/ Swap(w) PROVE RaceInv'
    BY <2>6 DEF Abort, Die, Swap
  <2>7. CASE Remove
    BY <2>7 DEF Remove
  <2>8. CASE UNCHANGED vars
    BY <2>8 DEF vars
  <2> HIDE DEF RaceInv
  <2> QED
    BY <2>1, <2>2, <2>3, <2>4, <2>5, <2>6, <2>7, <2>8 DEF Next
<1>3. TypeOK /\ RaceInv /\ [Next]_vars =>
        [\A w \in Writers : pc[w] = "proved" /\ pc'[w] \in Committed /\ Overwrite
           => dest = expected[w] \/ dest \in raced[w]]_vars
  <2> SUFFICES ASSUME TypeOK, RaceInv, Next,
                      NEW w \in Writers, pc[w] = "proved", pc'[w] \in Committed, Overwrite
               PROVE  dest = expected[w] \/ dest \in raced[w]
    OBVIOUS
  <2>1. Publish(w)
    BY DEF Next, TypeOK, Goto, Committed, Create, MayStart, BeginWrite, FinishWrite, Capture, Pin,
       Recheck, Prove, Publish, Confirm, Return, SyncFails, Quarantine, QuarantineFails, Abort, Die, Swap, Remove
  <2>2. expected[w] # None
    BY <2>1 DEF Publish, MayMove, Overwrite
  <2> QED
    BY <2>2 DEF RaceInv, Overwrite
<1> QED
  BY <1>1, <1>2, <1>3, TypeCorrect, PTL DEF Spec, OverwriteOnlyKnown
=============================================================================
