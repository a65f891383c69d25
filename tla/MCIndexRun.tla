------------------------------ MODULE MCIndexRun ------------------------------
(***************************************************************************)
(* Model checking of IndexRun.  A file defines f, or defines g, or defines *)
(* h and refers to f and g.  Files are interchangeable.                    *)
(***************************************************************************)
EXTENDS IndexRun, TLC

Sources == {"f", "g", "h"}
SomeDefs == [c \in Sources |-> {c}]
SomeRefs == [c \in Sources |-> IF c = "h" THEN {"f", "g"} ELSE {}]

\* A tree that has references to begin with; two edits, or an edit and a fault, of
\* which one at most while the index is empty; one of them, while a graph is left from
\* an earlier connection or a time does not tell an edit; at most two causes.
Scope ==
    /\ edits = 0 => \E p \in Paths : RefsOf(disk[p]) # {}
    /\ edits + faults <= IF saved = Empty THEN 1 ELSE 2
    /\ memo # None => edits + faults <= 1
    /\ (\E p \in Paths : ~Told(p)) => edits + faults <= 1
    /\ Cardinality(db.causes) <= 2

PathSymmetry == Permutations(Paths)
=============================================================================
