----------------------------- MODULE MCLeaseStore -----------------------------
(***************************************************************************)
(* Model checking of LeaseStore.  Agents and files are interchangeable.    *)
(***************************************************************************)
EXTENDS LeaseStore, TLC

LeaseSymmetry == Permutations(Agents) \cup Permutations(Files)
=============================================================================
