------------------------------- MODULE McpGuard -------------------------------
(***************************************************************************)
(* The backpressure guard around every MCP tool:                           *)
(* roam/mcp_extras/concurrency.py.  A call takes a permit of the global    *)
(* semaphore and one of its tool's own, if it has one, never waiting; a    *)
(* call that gets none is answered RATE_LIMITED.  Calls run in threads,    *)
(* and every operation on a semaphore or counter is a step.                *)
(***************************************************************************)
EXTENDS Naturals, FiniteSets

CONSTANTS Calls,          \* places from which calls come, one after another
          Tools,
          LimitedTools,   \* tools with a semaphore of their own
          Limit,          \* permits of each of these
          MaxConcurrent   \* ROAM_MCP_MAX_CONCURRENT, permits of the global semaphore

\* The limit of a tool is at least 1 whatever the environment says; the cap of all
\* calls is taken as it is, and may be 0.  (A negative one stops the import.)
ASSUME GuardAssumption ==
    /\ IsFiniteSet(Calls)
    /\ LimitedTools \subseteq Tools
    /\ Limit \in [LimitedTools -> Nat \ {0}]
    /\ MaxConcurrent \in Nat

VARIABLES
    pc,        \* what each call is doing
    tool,      \* the tool each call is for
    global,    \* free permits of _global_sem
    perTool,   \* free permits of _per_tool_sems
    inFlight   \* _in_flight

vars == <<pc, tool, global, perTool, inFlight>>

Pcs == {"idle", "pertool", "undo", "busy", "track", "run", "release", "releaseglobal", "untrack"}

TypeOK ==
    /\ pc \in [Calls -> Pcs]
    /\ tool \in [Calls -> Tools]
    /\ global \in 0..MaxConcurrent
    /\ perTool \in [LimitedTools -> Nat]
    /\ inFlight \in Nat

Init ==
    /\ pc = [c \in Calls |-> "idle"]
    /\ tool \in [Calls -> Tools]
    /\ global = MaxConcurrent
    /\ perTool = Limit
    /\ inFlight = 0

Goto(c, place) == pc' = [pc EXCEPT ![c] = place]

-----------------------------------------------------------------------------
(* A definition named Bug... is the one that follows it with a plausible    *)
(* mistake; the runs use it to show that a property notices the mistake.    *)

\* acquire(blocking=False) succeeds.
HasPermit(free) == free > 0

\* A call arrives; there is a global permit or the call is declined.
TakeGlobal(c, t) ==
    /\ pc[c] = "idle"
    /\ tool' = [tool EXCEPT ![c] = t]
    /\ IF HasPermit(global)
       THEN Goto(c, "pertool") /\ global' = global - 1
       ELSE Goto(c, "busy") /\ UNCHANGED global
    /\ UNCHANGED <<perTool, inFlight>>

TakePerTool(c) ==
    /\ pc[c] = "pertool"
    /\ \/ /\ tool[c] \notin LimitedTools
          /\ Goto(c, "track")
          /\ UNCHANGED perTool
       \/ /\ tool[c] \in LimitedTools
          /\ IF HasPermit(perTool[tool[c]])
             THEN Goto(c, "track") /\ perTool' = [perTool EXCEPT ![tool[c]] = @ - 1]
             ELSE Goto(c, "undo") /\ UNCHANGED perTool
    /\ UNCHANGED <<tool, global, inFlight>>

\* BoundedSemaphore.release: one permit more, or an error that is swallowed
\* when all are there.
Released(free, limit) == IF free < limit THEN free + 1 ELSE free

\* The global permit is kept.
BugUndo(c) ==
    /\ pc[c] = "undo"
    /\ Goto(c, "busy")
    /\ UNCHANGED <<tool, global, perTool, inFlight>>

\* The tool is at its limit: the global permit goes back.
Undo(c) ==
    /\ pc[c] = "undo"
    /\ global' = Released(global, MaxConcurrent)
    /\ Goto(c, "busy")
    /\ UNCHANGED <<tool, perTool, inFlight>>

\* The RATE_LIMITED envelope is returned.
Decline(c) ==
    /\ pc[c] = "busy"
    /\ Goto(c, "idle")
    /\ UNCHANGED <<tool, global, perTool, inFlight>>

Track(c) ==
    /\ pc[c] = "track"
    /\ inFlight' = inFlight + 1
    /\ Goto(c, "run")
    /\ UNCHANGED <<tool, global, perTool>>

\* An error that is not expected skips the release.
BugFinish(c) ==
    /\ pc[c] = "run"
    /\ Goto(c, "release") \/ Goto(c, "untrack")
    /\ UNCHANGED <<tool, global, perTool, inFlight>>

\* The tool returns, raises or is cancelled.
Finish(c) ==
    /\ pc[c] = "run"
    /\ Goto(c, "release")
    /\ UNCHANGED <<tool, global, perTool, inFlight>>

ReleasePerTool(c) ==
    /\ pc[c] = "release"
    /\ perTool' = [t \in LimitedTools |->
                     IF t = tool[c] THEN Released(perTool[t], Limit[t]) ELSE perTool[t]]
    /\ Goto(c, "releaseglobal")
    /\ UNCHANGED <<tool, global, inFlight>>

ReleaseGlobal(c) ==
    /\ pc[c] = "releaseglobal"
    /\ global' = Released(global, MaxConcurrent)
    /\ Goto(c, "untrack")
    /\ UNCHANGED <<tool, perTool, inFlight>>

\* An update of the counter without its lock may be lost.
BugUntracked == {inFlight, inFlight - 1}

Untracked == {inFlight - 1}

Untrack(c) ==
    /\ pc[c] = "untrack"
    /\ inFlight' \in Untracked
    /\ Goto(c, "idle")
    /\ UNCHANGED <<tool, global, perTool>>

Next ==
    \E c \in Calls :
        \/ \E t \in Tools : TakeGlobal(c, t)
        \/ TakePerTool(c) \/ Undo(c) \/ Decline(c)
        \/ Track(c) \/ Finish(c)
        \/ ReleasePerTool(c) \/ ReleaseGlobal(c) \/ Untrack(c)

Spec == Init /\ [][Next]_vars

-----------------------------------------------------------------------------
(* Safety *)

Running == {c \in Calls : pc[c] = "run"}
GlobalHolders ==
    {c \in Calls : pc[c] \in {"pertool", "undo", "track", "run", "release", "releaseglobal"}}
ToolHolders(t) == {c \in Calls : tool[c] = t /\ pc[c] \in {"track", "run", "release"}}
Tracked == {c \in Calls : pc[c] \in {"run", "release", "releaseglobal", "untrack"}}

\* No order of accepted, declined and failing calls loses a permit or makes
\* one up: every permit is free or held by a call.
PermitsConserved ==
    /\ global + Cardinality(GlobalHolders) = MaxConcurrent
    /\ \A t \in LimitedTools : perTool[t] + Cardinality(ToolHolders(t)) = Limit[t]

\* Tool bodies that run at once never exceed the caps.
RunningCapped ==
    /\ Cardinality(Running) <= MaxConcurrent
    /\ \A t \in LimitedTools : Cardinality({c \in Running : tool[c] = t}) <= Limit[t]

\* The gauge metrics() reports counts the calls being tracked.
InFlightAccurate == inFlight = Cardinality(Tracked)

\* c finds no global permit, or none of its tool.
Declined(c) ==
    \/ pc[c] = "idle" /\ pc'[c] = "busy"
    \/ pc[c] = "pertool" /\ pc'[c] = "undo"

\* Unless the cap is 0, a call is declined only while another call is in the guard:
\* a client that sends one call after another is never told that the server is busy.
BusyOnlyBesideOthers ==
    [][\A c \in Calls : MaxConcurrent > 0 /\ Declined(c) =>
         \E d \in Calls \ {c} : pc[d] \notin {"idle", "busy"}]_vars

\* The inductive invariant behind these properties.
GuardInv == TypeOK /\ PermitsConserved /\ InFlightAccurate

=============================================================================
