-------------------------- MODULE MCBusinessRules --------------------------
(***************************************************************************)
(* Model checking of BusinessRules: a Java file and a front-end file.      *)
(***************************************************************************)
EXTENDS BusinessRules, TLC

CONSTANTS java, front

\* The last rule is a form rule, the others are in the Java file.
Placed == [r \in Rules |-> IF r < NumRules THEN java ELSE front]
RulesSymmetry == Permutations(Procs) \cup Permutations(Versions)

\* The first rule is sorted into a flow by its method name.
ByName == [r \in Rules |-> IF r = 1 THEN CHOOSE f \in Flows : TRUE ELSE NoFlow]

\* No trace of graphs, summaries or snapshots, ...
Without(jobs) == \A p \in Procs : proc[p].job \notin jobs
NoGraph == edges = {} /\ Without({"graph"})
NoSnapshot == snapshots = <<>> /\ Without({"snapshot", "compare"})

\* ... or none in descriptions and merge targets, or in flows.
Undescribed ==
    \A r \in Present(table) : /\ ~table[r].late
                               /\ table[r].text = table[r].version
                               /\ table[r].merge = Absent
Unsorted == \A r \in Present(table) : table[r].flow = FlowOf[r]
NoSummary == Without({"summarize"}) /\ Undescribed /\ Unsorted

\* A graph reads the flow that a summary writes, and none of the other columns it
\* writes: flows are explored with graphs, descriptions and merge targets without,
\* and with edits that were indexed before the first description is written.
\* Two rules are enough for both, as a graph treats each pair and a summary each row
\* and its merge target alone.  A snapshot reads rule identifiers, which only
\* extractions change; it needs three tables with different rules, which the forms
\* of extract provide.
Scope ==
    \/ NoSnapshot /\ Undescribed /\ stores <= 2 /\ asked <= 1
    \/ NoGraph /\ NoSnapshot /\ Unsorted /\ touched = {} /\ stores <= 2
    \/ NoGraph /\ NoSummary /\ edited = 0 /\ \A r, s \in Rules : source[r] = source[s]
=============================================================================
