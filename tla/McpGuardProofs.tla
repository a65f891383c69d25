---------------------------- MODULE McpGuardProofs ----------------------------
(***************************************************************************)
(* TLAPS proofs about the backpressure guard, for any finite set of calls, *)
(* any tools and any limits.                                               *)
(***************************************************************************)
EXTENDS McpGuard, FiniteSetTheorems, TLAPS

\* Every set of calls is finite and can be counted.
LEMMA CallsCount ==
    ASSUME NEW S \in SUBSET Calls
    PROVE  IsFiniteSet(S) /\ Cardinality(S) \in Nat /\ (Cardinality(S) = 0 <=> S = {})
BY FS_Subset, FS_CardinalityType, FS_EmptySet, GuardAssumption

\* A call joins or leaves a set of calls.
LEMMA CallJoins ==
    ASSUME NEW S \in SUBSET Calls, NEW c \in Calls, c \notin S
    PROVE  Cardinality(S \cup {c}) = Cardinality(S) + 1
BY CallsCount, FS_AddElement

LEMMA CallLeaves ==
    ASSUME NEW S \in SUBSET Calls, NEW c \in S
    PROVE  Cardinality(S \ {c}) = Cardinality(S) - 1 /\ Cardinality(S) > 0
BY CallsCount, FS_RemoveElement

\* Where a moving call belongs afterwards; the others stay where they are.
LEMMA Moves ==
    ASSUME TypeOK, NEW c \in Calls, NEW place \in Pcs, Goto(c, place)
    PROVE  /\ pc' \in [Calls -> Pcs]
           /\ pc'[c] = place
           /\ \A d \in Calls : d # c => pc'[d] = pc[d]
BY DEF TypeOK, Goto

LEMMA HoldersAreCalls ==
    /\ GlobalHolders \subseteq Calls
    /\ Tracked \subseteq Calls
    /\ Running \subseteq Calls
    /\ \A t \in Tools : ToolHolders(t) \subseteq Calls
BY DEF GlobalHolders, Tracked, Running, ToolHolders

\* The invariant is inductive, action by action.
LEMMA StepInv == ASSUME GuardInv, [Next]_vars PROVE GuardInv'
<1> USE DEF GuardInv
<1> DEFINE InGlobal == {"pertool", "undo", "track", "run", "release", "releaseglobal"}
           InTool == {"track", "run", "release"}
           InTracked == {"run", "release", "releaseglobal", "untrack"}
<1>1. /\ TypeOK
      /\ global \in Nat /\ inFlight \in Nat /\ MaxConcurrent \in Nat
      /\ perTool \in [LimitedTools -> Nat] /\ \A t \in LimitedTools : t \in Tools /\ Limit[t] \in Nat
      /\ Cardinality(GlobalHolders) \in Nat /\ Cardinality(Tracked) \in Nat
      /\ \A t \in Tools : Cardinality(ToolHolders(t)) \in Nat
  BY CallsCount, HoldersAreCalls, GuardAssumption DEF TypeOK
<1>2. ASSUME NEW c \in Calls, NEW t \in Tools, TakeGlobal(c, t) PROVE GuardInv'
  <2>1. /\ pc[c] = "idle" /\ tool' = [tool EXCEPT ![c] = t]
        /\ UNCHANGED <<perTool, inFlight>>
        /\ Goto(c, "pertool") \/ Goto(c, "busy")
    BY <1>2 DEF TakeGlobal
  <2>2. pc' \in [Calls -> Pcs] /\ pc'[c] \in {"pertool", "busy"} /\ \A d \in Calls : d # c => pc'[d] = pc[d]
    BY <2>1, Moves DEF Pcs
  <2>3. tool' \in [Calls -> Tools] /\ \A d \in Calls : d # c => tool'[d] = tool[d]
    BY <2>1 DEF TypeOK
  <2>4. Tracked' = Tracked
    BY <2>1, <2>2 DEF Tracked
  <2>5. \A u \in Tools : ToolHolders(u)' = ToolHolders(u)
    BY <2>1, <2>2, <2>3 DEF ToolHolders
  <2>6. /\ global' + Cardinality(GlobalHolders') = MaxConcurrent
        /\ global' \in 0..MaxConcurrent
    <3>1. CASE global > 0
      <4>1. Goto(c, "pertool") /\ global' = global - 1
        BY <1>2, <3>1 DEF TakeGlobal, HasPermit
      <4>2. GlobalHolders' = GlobalHolders \cup {c} /\ c \notin GlobalHolders
        BY <2>1, <2>2, <4>1 DEF GlobalHolders, Goto, TypeOK
      <4>3. Cardinality(GlobalHolders') = Cardinality(GlobalHolders) + 1
        BY <4>2, CallJoins, HoldersAreCalls
      <4> QED BY <1>1, <3>1, <4>1, <4>3 DEF PermitsConserved
    <3>2. CASE ~(global > 0)
      <4>1. Goto(c, "busy") /\ global' = global
        BY <1>2, <3>2 DEF TakeGlobal, HasPermit
      <4>2. GlobalHolders' = GlobalHolders
        BY <2>1, <2>2, <4>1 DEF GlobalHolders, Goto, TypeOK
      <4> QED BY <4>1, <4>2 DEF PermitsConserved, TypeOK
    <3> QED BY <3>1, <3>2
  <2> QED BY <1>1, <2>1, <2>2, <2>3, <2>4, <2>5, <2>6 DEF TypeOK, PermitsConserved, InFlightAccurate
\* A call moves on within the sets it is in.
<1>3. ASSUME NEW c \in Calls, NEW place \in Pcs, Goto(c, place),
             UNCHANGED <<tool, global, perTool, inFlight>>,
             pc[c] \in InGlobal <=> place \in InGlobal,
             tool[c] \in LimitedTools => (pc[c] \in InTool <=> place \in InTool),
             pc[c] \in InTracked <=> place \in InTracked
      PROVE  GuardInv'
  <2>1. pc' \in [Calls -> Pcs] /\ pc'[c] = place /\ \A d \in Calls : d # c => pc'[d] = pc[d]
    BY <1>3, Moves
  <2>2. GlobalHolders' = GlobalHolders /\ Tracked' = Tracked
    BY <1>3, <2>1 DEF GlobalHolders, Tracked
  <2>3. \A t \in LimitedTools : ToolHolders(t)' = ToolHolders(t)
    BY <1>3, <2>1 DEF ToolHolders
  <2> QED BY <1>1, <1>3, <2>1, <2>2, <2>3 DEF TypeOK, PermitsConserved, InFlightAccurate
<1>4. ASSUME NEW c \in Calls, TakePerTool(c) PROVE GuardInv'
  <2>1. pc[c] = "pertool" /\ UNCHANGED <<tool, global, inFlight>> /\ tool[c] \in Tools
    BY <1>4 DEF TakePerTool, TypeOK
  <2>2. CASE tool[c] \notin LimitedTools
    <3>1. Goto(c, "track") /\ UNCHANGED perTool
      BY <1>4, <2>2 DEF TakePerTool
    <3> QED BY <1>3, <2>1, <2>2, <3>1 DEF Pcs
  <2>3. CASE tool[c] \in LimitedTools /\ ~(perTool[tool[c]] > 0)
    <3>1. Goto(c, "undo") /\ UNCHANGED perTool
      BY <1>4, <2>3 DEF TakePerTool, HasPermit
    <3> QED BY <1>3, <2>1, <3>1 DEF Pcs
  <2>4. CASE tool[c] \in LimitedTools /\ perTool[tool[c]] > 0
    <3>1. Goto(c, "track") /\ perTool' = [perTool EXCEPT ![tool[c]] = @ - 1]
      BY <1>4, <2>4 DEF TakePerTool, HasPermit
    <3>2. pc' \in [Calls -> Pcs] /\ pc'[c] = "track" /\ \A d \in Calls : d # c => pc'[d] = pc[d]
      BY <3>1, Moves DEF Pcs
    <3>3. GlobalHolders' = GlobalHolders /\ Tracked' = Tracked
      BY <2>1, <3>2 DEF GlobalHolders, Tracked
    <3>4. \A t \in LimitedTools : t # tool[c] => ToolHolders(t)' = ToolHolders(t)
      BY <2>1, <3>2 DEF ToolHolders
    <3>5. ToolHolders(tool[c])' = ToolHolders(tool[c]) \cup {c} /\ c \notin ToolHolders(tool[c])
      BY <2>1, <3>2 DEF ToolHolders
    <3>6. Cardinality(ToolHolders(tool[c])') = Cardinality(ToolHolders(tool[c])) + 1
      BY <2>1, <3>5, CallJoins, HoldersAreCalls
    <3>7. perTool' \in [LimitedTools -> Nat]
      BY <1>1, <2>4, <3>1
    <3>8. \A t \in LimitedTools : perTool'[t] + Cardinality(ToolHolders(t)') = Limit[t]
      <4> SUFFICES ASSUME NEW t \in LimitedTools
                   PROVE  perTool'[t] + Cardinality(ToolHolders(t)') = Limit[t]
        OBVIOUS
      <4>1. CASE t = tool[c]
        <5>1. perTool'[t] = perTool[t] - 1
          BY <1>1, <3>1, <4>1
        <5>2. perTool[t] + Cardinality(ToolHolders(t)) = Limit[t]
          BY DEF PermitsConserved
        <5>3. ToolHolders(t)' = ToolHolders(tool[c])' /\ ToolHolders(t) = ToolHolders(tool[c])
          BY <2>1, <4>1 DEF ToolHolders
        <5>4. Cardinality(ToolHolders(t)') = Cardinality(ToolHolders(t)) + 1
          BY <3>6, <5>3
        <5>5. perTool[t] \in Nat /\ Cardinality(ToolHolders(t)) \in Nat /\ Limit[t] \in Nat
          BY <1>1
        <5> QED BY <5>1, <5>2, <5>4, <5>5
      <4>2. CASE t # tool[c]
        BY <1>1, <3>1, <3>4, <4>2 DEF PermitsConserved
      <4> QED BY <4>1, <4>2
    <3> QED BY <1>1, <2>1, <3>2, <3>3, <3>7, <3>8 DEF TypeOK, PermitsConserved, InFlightAccurate
  <2> QED BY <2>2, <2>3, <2>4
<1>5. ASSUME NEW c \in Calls, Undo(c) \/ ReleaseGlobal(c) PROVE GuardInv'
  <2>1. /\ pc[c] \in {"undo", "releaseglobal"}
        /\ global' = Released(global, MaxConcurrent)
        /\ UNCHANGED <<tool, perTool, inFlight>>
        /\ (pc[c] = "undo" /\ Goto(c, "busy")) \/ (pc[c] = "releaseglobal" /\ Goto(c, "untrack"))
    BY <1>5 DEF Undo, ReleaseGlobal
  <2>2. /\ pc' \in [Calls -> Pcs]
        /\ (pc[c] = "undo" /\ pc'[c] = "busy") \/ (pc[c] = "releaseglobal" /\ pc'[c] = "untrack")
        /\ \A d \in Calls : d # c => pc'[d] = pc[d]
    BY <2>1, Moves DEF Pcs
  <2>3. Tracked' = Tracked /\ \A t \in LimitedTools : ToolHolders(t)' = ToolHolders(t)
    BY <2>1, <2>2 DEF Tracked, ToolHolders
  <2>4. GlobalHolders' = GlobalHolders \ {c} /\ c \in GlobalHolders
    BY <2>2 DEF GlobalHolders
  <2>5. /\ Cardinality(GlobalHolders') = Cardinality(GlobalHolders) - 1
        /\ Cardinality(GlobalHolders) > 0
    BY <2>4, CallLeaves, HoldersAreCalls
  <2>6. global' = global + 1 /\ global < MaxConcurrent
    BY <1>1, <2>1, <2>5 DEF Released, PermitsConserved
  <2>7. global' \in 0..MaxConcurrent /\ global' + Cardinality(GlobalHolders') = MaxConcurrent
    BY <1>1, <2>5, <2>6 DEF PermitsConserved
  <2> QED BY <1>1, <2>1, <2>2, <2>3, <2>7 DEF TypeOK, PermitsConserved, InFlightAccurate
<1>6. ASSUME NEW c \in Calls, Decline(c) \/ Finish(c) PROVE GuardInv'
  BY <1>3, <1>6 DEF Decline, Finish, Pcs
<1>7. ASSUME NEW c \in Calls, Track(c) PROVE GuardInv'
  <2>1. pc[c] = "track" /\ Goto(c, "run") /\ inFlight' = inFlight + 1 /\ UNCHANGED <<tool, global, perTool>>
    BY <1>7 DEF Track
  <2>2. pc' \in [Calls -> Pcs] /\ pc'[c] = "run" /\ \A d \in Calls : d # c => pc'[d] = pc[d]
    BY <2>1, Moves DEF Pcs
  <2>3. GlobalHolders' = GlobalHolders /\ \A t \in LimitedTools : ToolHolders(t)' = ToolHolders(t)
    BY <2>1, <2>2 DEF GlobalHolders, ToolHolders
  <2>4. Tracked' = Tracked \cup {c} /\ c \notin Tracked
    BY <2>1, <2>2 DEF Tracked
  <2>5. Cardinality(Tracked') = Cardinality(Tracked) + 1
    BY <2>4, CallJoins, HoldersAreCalls
  <2> QED BY <1>1, <2>1, <2>2, <2>3, <2>5 DEF TypeOK, PermitsConserved, InFlightAccurate
<1>8. ASSUME NEW c \in Calls, ReleasePerTool(c) PROVE GuardInv'
  <2>1. /\ pc[c] = "release" /\ Goto(c, "releaseglobal") /\ UNCHANGED <<tool, global, inFlight>>
        /\ perTool' = [t \in LimitedTools |->
                         IF t = tool[c] THEN Released(perTool[t], Limit[t]) ELSE perTool[t]]
    BY <1>8 DEF ReleasePerTool
  <2>2. pc' \in [Calls -> Pcs] /\ pc'[c] = "releaseglobal" /\ \A d \in Calls : d # c => pc'[d] = pc[d]
    BY <2>1, Moves DEF Pcs
  <2>3. GlobalHolders' = GlobalHolders /\ Tracked' = Tracked
    BY <2>1, <2>2 DEF GlobalHolders, Tracked
  <2>4. ASSUME NEW t \in LimitedTools
        PROVE  perTool'[t] \in Nat /\ perTool'[t] + Cardinality(ToolHolders(t)') = Limit[t]
    <3>1. CASE t = tool[c]
      <4>1. ToolHolders(t)' = ToolHolders(t) \ {c} /\ c \in ToolHolders(t)
        BY <2>1, <2>2, <3>1 DEF ToolHolders
      <4>2. /\ Cardinality(ToolHolders(t)') = Cardinality(ToolHolders(t)) - 1
            /\ Cardinality(ToolHolders(t)) > 0
        BY <1>1, <4>1, CallLeaves, HoldersAreCalls
      <4>3. perTool'[t] = perTool[t] + 1
        BY <1>1, <2>1, <3>1, <4>2 DEF Released, PermitsConserved
      <4> QED BY <1>1, <4>2, <4>3 DEF PermitsConserved
    <3>2. CASE t # tool[c]
      <4>1. ToolHolders(t)' = ToolHolders(t)
        BY <2>1, <2>2, <3>2 DEF ToolHolders
      <4> QED BY <1>1, <2>1, <3>2, <4>1 DEF PermitsConserved
    <3> QED BY <3>1, <3>2
  <2>5. perTool' \in [LimitedTools -> Nat]
    BY <2>1, <2>4
  <2> QED BY <1>1, <2>1, <2>2, <2>3, <2>4, <2>5 DEF TypeOK, PermitsConserved, InFlightAccurate
<1>9. ASSUME NEW c \in Calls, Untrack(c) PROVE GuardInv'
  <2>1. pc[c] = "untrack" /\ Goto(c, "idle") /\ inFlight' = inFlight - 1 /\ UNCHANGED <<tool, global, perTool>>
    BY <1>9 DEF Untrack, Untracked
  <2>2. pc' \in [Calls -> Pcs] /\ pc'[c] = "idle" /\ \A d \in Calls : d # c => pc'[d] = pc[d]
    BY <2>1, Moves DEF Pcs
  <2>3. GlobalHolders' = GlobalHolders /\ \A t \in LimitedTools : ToolHolders(t)' = ToolHolders(t)
    BY <2>1, <2>2 DEF GlobalHolders, ToolHolders
  <2>4. Tracked' = Tracked \ {c} /\ c \in Tracked
    BY <2>1, <2>2 DEF Tracked
  <2>5. Cardinality(Tracked') = Cardinality(Tracked) - 1 /\ Cardinality(Tracked) > 0
    BY <2>4, CallLeaves, HoldersAreCalls
  <2>6. inFlight' \in Nat /\ inFlight' = Cardinality(Tracked')
    BY <1>1, <2>1, <2>5 DEF InFlightAccurate
  <2> QED BY <1>1, <2>1, <2>2, <2>3, <2>6 DEF TypeOK, PermitsConserved, InFlightAccurate
<1>10. CASE UNCHANGED vars
  <2>1. GlobalHolders' = GlobalHolders /\ Tracked' = Tracked /\ \A t \in LimitedTools : ToolHolders(t)' = ToolHolders(t)
    BY <1>10 DEF vars, GlobalHolders, Tracked, ToolHolders
  <2> QED BY <1>10, <2>1 DEF vars, TypeOK, PermitsConserved, InFlightAccurate
<1> HIDE DEF GuardInv
<1> QED BY <1>2, <1>4, <1>5, <1>6, <1>7, <1>8, <1>9, <1>10 DEF Next

LEMMA InitInv == Init => GuardInv
<1> SUFFICES ASSUME Init PROVE GuardInv
  OBVIOUS
<1>1. TypeOK
  BY GuardAssumption DEF Init, TypeOK, Pcs
<1>2. GlobalHolders = {} /\ Tracked = {} /\ \A t \in LimitedTools : ToolHolders(t) = {}
  BY DEF Init, GlobalHolders, Tracked, ToolHolders
<1>3. /\ Cardinality(GlobalHolders) = 0 /\ Cardinality(Tracked) = 0
      /\ \A t \in LimitedTools : Cardinality(ToolHolders(t)) = 0
  BY <1>2, FS_EmptySet
<1>4. /\ global = MaxConcurrent /\ inFlight = 0 /\ MaxConcurrent \in Nat
      /\ \A t \in LimitedTools : perTool[t] = Limit[t] /\ Limit[t] \in Nat
  BY GuardAssumption DEF Init
<1>5. PermitsConserved /\ InFlightAccurate
  BY <1>3, <1>4 DEF PermitsConserved, InFlightAccurate
<1> QED BY <1>1, <1>5 DEF GuardInv

LEMMA GuardInvHolds == Spec => []GuardInv
BY InitInv, StepInv, PTL DEF Spec

\* The guard keeps its semaphores and counters well typed; in particular no
\* semaphore goes below zero or above its limit.
THEOREM TypeCorrect == Spec => []TypeOK
<1>1. GuardInv => TypeOK
  BY DEF GuardInv
<1> QED BY <1>1, GuardInvHolds, PTL

\* _try_acquire, its undo and _release lose no permit and make none up.
THEOREM PermitsConservedHolds == Spec => []PermitsConserved
<1>1. GuardInv => PermitsConserved
  BY DEF GuardInv
<1> QED BY <1>1, GuardInvHolds, PTL

\* Tool bodies run within the global cap and within the limit of their tool.
THEOREM RunningCappedHolds == Spec => []RunningCapped
<1>1. GuardInv => RunningCapped
  <2> SUFFICES ASSUME GuardInv PROVE RunningCapped
    OBVIOUS
  <2>1. Cardinality(Running) <= MaxConcurrent
    <3>1. Running \subseteq GlobalHolders
      BY DEF Running, GlobalHolders
    <3>2. Cardinality(Running) <= Cardinality(GlobalHolders)
      BY <3>1, CallsCount, FS_Subset, HoldersAreCalls
    <3>3. /\ global \in Nat /\ global + Cardinality(GlobalHolders) = MaxConcurrent
          /\ Cardinality(Running) \in Nat /\ Cardinality(GlobalHolders) \in Nat
      BY CallsCount, HoldersAreCalls DEF GuardInv, TypeOK, PermitsConserved
    <3> QED BY <3>2, <3>3
  <2>2. ASSUME NEW t \in LimitedTools
        PROVE  Cardinality({c \in Running : tool[c] = t}) <= Limit[t]
    <3> DEFINE R == {c \in Running : tool[c] = t}
    <3>1. R \subseteq ToolHolders(t) /\ R \subseteq Calls /\ ToolHolders(t) \subseteq Calls
      BY DEF Running, ToolHolders
    <3>2. Cardinality(R) <= Cardinality(ToolHolders(t))
      BY <3>1, CallsCount, FS_Subset
    <3>3. /\ perTool[t] \in Nat /\ perTool[t] + Cardinality(ToolHolders(t)) = Limit[t]
          /\ Cardinality(R) \in Nat /\ Cardinality(ToolHolders(t)) \in Nat
      BY <3>1, CallsCount DEF GuardInv, TypeOK, PermitsConserved
    <3> QED BY <3>2, <3>3
  <2> QED BY <2>1, <2>2 DEF RunningCapped
<1> QED BY <1>1, GuardInvHolds, PTL

\* The gauge of metrics() is the number of calls being tracked, however calls
\* end and whatever they release first.
THEOREM InFlightAccurateHolds == Spec => []InFlightAccurate
<1>1. GuardInv => InFlightAccurate
  BY DEF GuardInv
<1> QED BY <1>1, GuardInvHolds, PTL

\* Unless the cap is 0, a call that finds no permit finds another call in the guard.
THEOREM BusyOnlyBesideOthersHolds == Spec => BusyOnlyBesideOthers
<1>1. ASSUME GuardInv, Next, NEW c \in Calls, MaxConcurrent > 0, Declined(c)
      PROVE  \E d \in Calls \ {c} : pc[d] \notin {"idle", "busy"}
  <2>1. PICK d \in Calls :
          \/ \E t \in Tools : TakeGlobal(d, t)
          \/ TakePerTool(d) \/ Undo(d) \/ Decline(d) \/ Track(d) \/ Finish(d)
          \/ ReleasePerTool(d) \/ ReleaseGlobal(d) \/ Untrack(d)
    BY <1>1 DEF Next
  <2>2. pc' = [pc EXCEPT ![d] = pc'[d]] /\ pc \in [Calls -> Pcs]
    BY <1>1, <2>1 DEF GuardInv, TypeOK, Goto, TakeGlobal, TakePerTool, Undo, Decline, Track,
       Finish, ReleasePerTool, ReleaseGlobal, Untrack
  <2>3. c = d
    BY <1>1, <2>2 DEF Declined
  <2>4. CASE pc[c] = "idle" /\ pc'[c] = "busy"
    <3>1. ~(global > 0)
      BY <2>1, <2>2, <2>3, <2>4 DEF Goto, TakeGlobal, HasPermit, TakePerTool, Undo, Decline, Track,
         Finish, ReleasePerTool, ReleaseGlobal, Untrack
    <3>2. Cardinality(GlobalHolders) # 0
      BY <1>1, <3>1, GuardAssumption DEF GuardInv, TypeOK, PermitsConserved
    <3>3. PICK e \in GlobalHolders : TRUE
      BY <3>2, FS_EmptySet
    <3> QED BY <2>4, <3>3 DEF GlobalHolders
  <2>5. CASE pc[c] = "pertool" /\ pc'[c] = "undo"
    <3>1. tool[c] \in LimitedTools /\ ~(perTool[tool[c]] > 0)
      BY <2>1, <2>2, <2>3, <2>5 DEF Goto, TakeGlobal, HasPermit, TakePerTool, Undo, Decline, Track,
         Finish, ReleasePerTool, ReleaseGlobal, Untrack
    <3>2. Cardinality(ToolHolders(tool[c])) # 0
      BY <1>1, <3>1, GuardAssumption DEF GuardInv, TypeOK, PermitsConserved
    <3>3. PICK e \in ToolHolders(tool[c]) : TRUE
      BY <3>2, FS_EmptySet
    <3> QED BY <2>5, <3>3 DEF ToolHolders
  <2> QED BY <1>1, <2>4, <2>5 DEF Declined
<1>2. GuardInv /\ [Next]_vars =>
        [\A c \in Calls : MaxConcurrent > 0 /\ Declined(c) =>
            \E d \in Calls \ {c} : pc[d] \notin {"idle", "busy"}]_vars
  BY <1>1
<1> QED BY <1>2, GuardInvHolds, PTL DEF Spec, BusyOnlyBesideOthers

=============================================================================
