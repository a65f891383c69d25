------------------------------ MODULE MCMcpGuard ------------------------------
(***************************************************************************)
(* Model checking of McpGuard: one tool has a semaphore of its own.        *)
(***************************************************************************)
EXTENDS McpGuard, TLC

OnePermit == [t \in LimitedTools |-> 1]
CallSymmetry == Permutations(Calls)
=============================================================================
