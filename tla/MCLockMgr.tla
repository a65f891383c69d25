------------------------------ MODULE MCLockMgr ------------------------------
(***************************************************************************)
(* Model checking of LockMgr.  Threads are interchangeable.                *)
(***************************************************************************)
EXTENDS LockMgr, TLC

ThreadSymmetry == Permutations(Threads)
=============================================================================
