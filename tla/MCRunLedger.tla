----------------------------- MODULE MCRunLedger -----------------------------
(***************************************************************************)
(* Model checking of RunLedger.  Processes of the same kind and runs are   *)
(* interchangeable.                                                        *)
(***************************************************************************)
EXTENDS RunLedger

LedgerSymmetry ==
    Permutations(Clis) \cup Permutations(Calls) \cup Permutations(Runs)

\* No tool call has acted on any run.
ToolsQuiet ==
    /\ key \notin Calls
    /\ \A q \in Calls : proc[q] = Idle
    /\ \A r \in Runs : \A i \in DOMAIN file[r] : file[r][i].by = "log"

\* The bounds of the cfg are for commands alone; tool calls share a ledger with
\* them for two appends and without manipulations.
Scope == ToolsQuiet \/ (edits = 0 /\ events <= 2)
=============================================================================
