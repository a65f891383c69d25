--------------------------- MODULE MCAtomicInstall ---------------------------
(***************************************************************************)
(* Model checking of AtomicInstall on both platforms.  The processes are   *)
(* interchangeable.                                                        *)
(***************************************************************************)
EXTENDS AtomicInstall, TLC

WriterSymmetry == Permutations(Writers)

\* Which of the bounds of the cfg apply where: repeated writes on POSIX, where
\* nothing holds a file in place, and there with swapped tempfiles for one write
\* each; repeated removals on Windows, where handles do hold it.
Scope ==
    LET Once == \A w \in Writers : tries[w] <= 1 IN
    \/ platform = "posix" /\ vacated <= 1 /\ (tries[Other] = 0 \/ (Once /\ tries[Other] <= 1))
    \/ platform = "nt" /\ Once
=============================================================================
