--------------------------- MODULE IndexRunProofs ---------------------------
(***************************************************************************)
(* Proofs about IndexRun, for any files, contents, bounds and cadence.     *)
(***************************************************************************)
EXTENDS IndexRun, FiniteSetTheorems, TLAPS

-----------------------------------------------------------------------------
(* The inductive invariant *)

\* Times of modification are handed out in order, and 0 is none of them.
Clock ==
    /\ \A p \in Paths : /\ 1 <= stamp[p] /\ stamp[p] <= edits + 1
                         /\ last[p] <= edits + 1
    /\ run.mtime <= edits + 1

\* What holds of the committed database and of the one in work.
Sane(d) ==
    /\ \A p \in Indexed(d) : d.rows[p].mtime <= edits + 1
    /\ \A e \in d.edges : Defined(d, e.from) # {} /\ e.name \in Defined(d, e.to)
    /\ d.twice = {}

\* FastPathSound, but for the file that has a row and is not parsed yet.
Reads(d, p) ==
    \/ d.rows[p].parsed = disk[p]
    \/ d.rows[p].parsed = Absent /\ "unread" \in d.causes

Current(d, but) ==
    \A p \in Indexed(d) \ but :
        d.rows[p].mtime = stamp[p] /\ disk[p] # Absent /\ Told(p) => Reads(d, p)

InHand == IF run.pc = "parse" THEN {run.path} ELSE {}

\* The files of a run have no row before their turn, and no edges until all are parsed.
AtWork ==
    /\ run.pc \in {"idle", "detect"} => run.found = {} /\ ~run.kept
    /\ run.pc \in {"next", "hash", "parse"} =>
          /\ run.todo \subseteq run.batch
          /\ \A p \in run.todo : db.rows[p] = None
          /\ \A f \in run.found : f[1] \in run.batch
          /\ \A e \in db.edges : e.from \notin run.batch
    /\ run.pc \in {"hash", "parse"} => run.path \in run.batch /\ run.path \notin run.todo
    /\ run.pc = "hash" => db.rows[run.path] = None
    /\ run.pc = "parse" => db.rows[run.path] \in Row /\ db.rows[run.path].parsed = Absent

\* A database with stale metrics has a row to come back to, or a reason not to.
Heals(d) ==
    \/ d.fresh
    \/ d.causes \cap {"cut", "unmarked", "reused", "recalled", "failed"} # {}
    \/ \E p \in Indexed(d) : d.rows[p].hash = Pending /\ d.rows[p].mtime = 0

IndexInv ==
    /\ TypeOK
    /\ Clock
    /\ Sane(saved) /\ Sane(db)
    /\ Current(saved, {}) /\ Current(db, InHand)
    /\ AtWork
    /\ run.kept \/ Heals(saved)

\* A database with the symbols, references and edges of another one, the hashes but
\* for marked rows, and every cause.
Carries(d, before) ==
    /\ \A p \in Paths :
          /\ d.rows[p] = None <=> before.rows[p] = None
          /\ d.rows[p] # None => /\ d.rows[p].parsed = before.rows[p].parsed
                                 /\ d.rows[p].hash \in {Pending, before.rows[p].hash}
    /\ d.edges = before.edges
    /\ before.causes \subseteq d.causes

-----------------------------------------------------------------------------
(* The operations of the database *)

\* Deleting rows leaves a database, with no edge at a deleted file.
LEMMA WithoutRowsFacts ==
    ASSUME NEW d \in Database, NEW ps \in SUBSET Paths, Sane(d)
    PROVE  /\ WithoutRows(d, ps) \in Database
           /\ Sane(WithoutRows(d, ps))
           /\ \A p \in Paths : WithoutRows(d, ps).rows[p] =
                                  IF p \in ps THEN None ELSE d.rows[p]
           /\ \A e \in WithoutRows(d, ps).edges : e \in d.edges /\ e.from \notin ps
    <1> DEFINE w == WithoutRows(d, ps)
    <1>1. w \in Database
        BY DEF WithoutRows, Database
    <1>2. \A p \in Paths : w.rows[p] = IF p \in ps THEN None ELSE d.rows[p]
        BY DEF WithoutRows, Database
    <1>3. \A e \in w.edges : e \in d.edges /\ e.from \notin ps /\ e.to \notin ps
        BY DEF WithoutRows, Database
    <1>4. w.twice = {}
        BY DEF WithoutRows, Database, Sane
    <1>5. d.edges \subseteq Edge
        BY DEF Database
    <1>6. \A p \in Paths \ ps : Defined(w, p) = Defined(d, p)
        BY <1>2 DEF Defined
    <1>7. Sane(w)
        <2>1. \A p \in Indexed(w) : w.rows[p].mtime <= edits + 1
            BY <1>2 DEF Sane, Indexed
        <2>2. \A e \in w.edges : Defined(w, e.from) # {} /\ e.name \in Defined(w, e.to)
            BY <1>3, <1>5, <1>6 DEF Sane, Edge
        <2> QED  BY <1>4, <2>1, <2>2 DEF Sane
    <1> QED  BY <1>1, <1>2, <1>3, <1>7

\* Resolved references start at a file with symbols and end at a definition.
LEMMA ResolutionFacts ==
    ASSUME NEW d \in Database, NEW found \in SUBSET (Paths \X Names),
           NEW new \in Resolutions(d, found)
    PROVE  /\ new \in SUBSET Edge
           /\ \A e \in new : /\ \E f \in found : e.from = f[1]
                             /\ Defined(d, e.from) # {}
                             /\ e.name \in Defined(d, e.to)
    <1>1. PICK choice \in [Resolvable(d, found) -> Paths] :
             /\ \A f \in Resolvable(d, found) : choice[f] \in Definers(d, f[2])
             /\ new = { [from |-> f[1], name |-> f[2], to |-> choice[f]] :
                           f \in Resolvable(d, found) }
        BY DEF Resolutions
    <1>2. ASSUME NEW e \in new
          PROVE  /\ e \in Edge
                 /\ \E f \in found : e.from = f[1]
                 /\ Defined(d, e.from) # {}
                 /\ e.name \in Defined(d, e.to)
        <2>1. PICK f \in Resolvable(d, found) :
                 e = [from |-> f[1], name |-> f[2], to |-> choice[f]]
            BY <1>1
        <2>2. f \in found /\ Defined(d, f[1]) # {}
            BY DEF Resolvable
        <2>3. f[1] \in Paths /\ f[2] \in Names
            BY <2>2
        <2>4. choice[f] \in Paths /\ choice[f] \in Definers(d, f[2])
            BY <1>1
        <2>5. f[2] \in Defined(d, choice[f])
            BY <2>4 DEF Definers
        <2>6. e.from = f[1] /\ e.name = f[2] /\ e.to = choice[f]
            BY <2>1
        <2>7. e \in Edge
            BY <2>1, <2>3, <2>4 DEF Edge
        <2> QED  BY <2>2, <2>5, <2>6, <2>7
    <1> QED  BY <1>2

\* A graph has a signature, as there are finitely many files and names.
LEMMA GraphFacts ==
    ASSUME NEW d \in Database
    PROVE  GraphOf(d) \in Graph
    <1> DEFINE symbols == {x \in Paths \X Names : x[2] \in Defined(d, x[1])}
               ends == (Paths \X Names) \X Paths
               f == [e \in d.edges |-> <<<<e.from, e.name>>, e.to>>]
    <1>1. IsFiniteSet(Paths \X Names)
        BY IndexAssumption, FS_Product
    <1>2. IsFiniteSet(ends)
        BY <1>1, IndexAssumption, FS_Product
    <1>3. Cardinality(symbols) \in Nat
        <2>1. symbols \in SUBSET (Paths \X Names)
            OBVIOUS
        <2> HIDE DEF symbols
        <2> QED  BY <1>1, <2>1, FS_Subset, FS_CardinalityType
    <1>4. f \in Injection(d.edges, ends)
        <2>1. d.edges \subseteq Edge
            BY DEF Database
        <2>2. f \in [d.edges -> ends]
            BY <2>1 DEF Edge
        <2>3. \A a, b \in d.edges : f[a] = f[b] => a = b
            BY <2>1 DEF Edge
        <2> HIDE DEF f, ends
        <2> QED  BY <2>2, <2>3 DEF Injection, IsInjective
    <1>5. Cardinality(d.edges) \in Nat
        <2> HIDE DEF f, ends
        <2>1. IsFiniteSet(d.edges)
            BY <1>2, <1>4, FS_Injection
        <2> QED  BY <2>1, FS_CardinalityType
    <1> QED  BY <1>3, <1>5 DEF GraphOf, Graph

\* Failed reads are counted.
LEMMA FailingFacts ==
    ASSUME NEW ps \in SUBSET Paths, faults \in Nat, Failing(ps)
    PROVE  faults' \in Nat
    <1>1. Cardinality(ps) \in Nat
        BY IndexAssumption, FS_Subset, FS_CardinalityType
    <1> QED  BY <1>1 DEF Failing

\* Contents define and refer to names.
LEMMA NamesOf ==
    ASSUME NEW content \in Contents \cup {Absent}
    PROVE  DefsOf(content) \subseteq Names /\ RefsOf(content) \subseteq Names
    BY IndexAssumption DEF DefsOf, RefsOf

-----------------------------------------------------------------------------
(* The steps *)

\* A new database is empty and, as nothing is in it, in order.
LEMMA EmptyFacts ==
    /\ Empty \in Database /\ Sane(Empty) /\ Heals(Empty)
    /\ Indexed(Empty) = {} /\ Empty.edges = {} /\ Empty.twice = {} /\ Empty.fresh
    <1>1. Empty \in Database /\ Indexed(Empty) = {} /\ Empty.edges = {} /\ Empty.twice = {}
          /\ Empty.fresh
        BY DEF Empty, Database, Indexed
    <1> QED  BY <1>1 DEF Sane, Heals

LEMMA InitInv == Init => IndexInv
    <1> SUFFICES ASSUME Init  PROVE  IndexInv
        OBVIOUS
    <1> USE IndexAssumption DEF Init
    <1>1. Empty \in Database
        BY EmptyFacts
    <1>2. Idle \in Run
        BY DEF Idle, Run
    <1>3. TypeOK
        BY <1>1, <1>2 DEF TypeOK
    <1>4. Clock /\ AtWork
        BY DEF Clock, AtWork, Idle
    <1>5. Sane(Empty) /\ Current(Empty, {}) /\ Current(Empty, InHand) /\ Heals(Empty)
        BY EmptyFacts DEF Current, Reads, Told
    <1> QED  BY <1>3, <1>4, <1>5 DEF IndexInv

LEMMA StartInv ==
    ASSUME IndexInv, NEW light \in BOOLEAN, Start(light)  PROVE IndexInv'
    <1> USE DEF Start, tree
    <1>1. TypeOK'
        BY DEF IndexInv, TypeOK, Run
    <1>2. Clock' /\ AtWork'
        BY DEF IndexInv, Clock, AtWork, TypeOK, Run
    <1>3. Sane(saved)' /\ Sane(db)' /\ Current(saved, {})' /\ Current(db, InHand)'
        BY DEF IndexInv, Sane, Current, Reads, Told, InHand, Indexed, Defined, DefsOf, TypeOK, Run
    <1>4. (run.kept \/ Heals(saved))'
        BY DEF IndexInv, Heals, Indexed, TypeOK, Run
    <1> QED  BY <1>1, <1>2, <1>3, <1>4 DEF IndexInv

LEMMA RebuildInv ==
    ASSUME IndexInv, Rebuild  PROVE IndexInv'
    <1>1. /\ run.pc = "idle" /\ run' = [run EXCEPT !.pc = "detect"]
          /\ saved' = Empty /\ db' = Empty
          /\ UNCHANGED <<tree, memo, faults>>
        BY DEF Rebuild
    <1>2. run \in Run
        BY DEF IndexInv, TypeOK
    <1>3. run' \in Run /\ run'.pc = "detect" /\ run'.found = run.found /\ run'.kept = run.kept
          /\ run'.mtime = run.mtime
        BY <1>1, <1>2 DEF Run
    <1>4. TypeOK'
        BY <1>1, <1>3, EmptyFacts DEF IndexInv, TypeOK, tree
    <1>5. Clock' /\ AtWork'
        BY <1>1, <1>3 DEF IndexInv, Clock, AtWork, tree
    <1>6. saved'.fresh /\ saved'.edges = {} /\ saved'.twice = {} /\ db'.edges = {} /\ db'.twice = {}
        BY <1>1, EmptyFacts
    <1>7. Indexed(saved)' = {} /\ Indexed(db)' = {}
        BY <1>1, EmptyFacts DEF Indexed
    <1>8. Sane(saved)' /\ Sane(db)' /\ Current(saved, {})' /\ Current(db, InHand)'
        BY <1>6, <1>7 DEF Sane, Current, Reads, Told
    <1>9. Heals(saved)'
        BY <1>6 DEF Heals
    <1> QED  BY <1>4, <1>5, <1>8, <1>9 DEF IndexInv

LEMMA NothingToDoInv ==
    ASSUME IndexInv, NothingToDo  PROVE IndexInv'
    <1> USE IndexAssumption DEF NothingToDo, tree
    <1>1. TypeOK'
        BY DEF IndexInv, TypeOK, Run, Idle
    <1>2. Clock' /\ AtWork'
        BY DEF IndexInv, Clock, AtWork, Idle, TypeOK
    <1>3. Sane(saved)' /\ Sane(db)' /\ Current(saved, {})' /\ Current(db, InHand)'
        BY DEF IndexInv, Sane, Current, Reads, Told, InHand, Indexed, Defined, DefsOf, Idle
    <1>4. Heals(saved)'
        BY DEF IndexInv, Heals, Indexed, AtWork
    <1> QED  BY <1>1, <1>2, <1>3, <1>4 DEF IndexInv

LEMMA DetectInv ==
    ASSUME IndexInv, NEW unread \in SUBSET Paths, Detect(unread)  PROVE IndexInv'
    <1> DEFINE gone == Removed(db, unread) \cup Modified(db, unread)
               work == Work(db, unread)
               w == WithoutRows(db, gone)
    <1>1. db \in Database /\ Sane(db) /\ run \in Run
        BY DEF IndexInv, TypeOK
    <1>2. gone \in SUBSET Paths /\ work \in SUBSET Paths
        BY DEF Removed, Modified, Work, Added, Indexed
    <1>3. /\ w \in Database /\ Sane(w)
          /\ \A p \in Paths : w.rows[p] = IF p \in gone THEN None ELSE db.rows[p]
          /\ \A e \in w.edges : e \in db.edges /\ e.from \notin gone
        <2> HIDE DEF gone
        <2> QED  BY <1>1, <1>2, WithoutRowsFacts
    <1>4. /\ run.pc = "detect"
          /\ db' = [w EXCEPT !.fresh = FALSE]
          /\ run' = [run EXCEPT !.pc = "next", !.batch = work, !.todo = work,
                                !.affected = Affected(db, gone), !.waiting = Waiting(db),
                                !.since = edits, !.missed = unread]
          /\ Failing(unread) /\ UNCHANGED <<tree, saved, memo>>
        BY DEF Detect
    <1>5. Affected(db, gone) \in SUBSET Paths
        <2>1. \A e \in db.edges : e.from \in Paths
            BY <1>1 DEF Database, Edge
        <2> QED  BY <2>1 DEF Affected
    <1>6. Waiting(db) \in SUBSET (Paths \X Names)
        BY DEF Waiting, Indexed
    <1>7. db' \in Database
        <2> HIDE DEF w
        <2> QED  BY <1>3, <1>4 DEF Database
    <1>8. run' \in Run
        <2>1. edits \in Nat
            BY DEF IndexInv, TypeOK
        <2> HIDE DEF gone, work
        <2> QED  BY <1>1, <1>2, <1>4, <1>5, <1>6, <2>1 DEF Run
    <1>9. TypeOK'
        <2>1. faults' \in Nat
            BY <1>4, FailingFacts DEF IndexInv, TypeOK
        <2> QED  BY <1>4, <1>7, <1>8, <2>1 DEF IndexInv, TypeOK, tree
    <1>10. db'.rows = w.rows /\ db'.edges = w.edges /\ db'.twice = w.twice
          /\ db'.causes = db.causes
        <2>1. w.causes = db.causes
            BY <1>1 DEF WithoutRows, Database
        <2> HIDE DEF w
        <2> QED  BY <1>3, <1>4, <2>1 DEF Database
    <1>11. /\ run'.pc = "next" /\ run'.batch = work /\ run'.todo = work
           /\ run'.found = run.found /\ run'.kept = run.kept /\ run'.mtime = run.mtime
        <2> HIDE DEF gone, work
        <2> QED  BY <1>1, <1>4 DEF Run
    <1>12. Clock'
        BY <1>4, <1>11 DEF IndexInv, Clock, tree
    <1>13. Sane(db)'
        <2> HIDE DEF w
        <2> QED  BY <1>3, <1>4, <1>10 DEF Sane, Indexed, Defined, DefsOf, tree
    <1>14. Current(db, InHand)'
        <2>1. \A p \in Indexed(db)' : p \in Indexed(db) /\ db'.rows[p] = db.rows[p]
            <3> HIDE DEF w, gone
            <3> QED  BY <1>3, <1>10 DEF Indexed
        <2>2. \A p \in Indexed(db) :
                 db.rows[p].mtime = stamp[p] /\ disk[p] # Absent /\ Told(p) => Reads(db, p)
            BY <1>4 DEF IndexInv, Current, InHand
        <2>3. stamp' = stamp /\ last' = last /\ disk' = disk
            BY <1>4 DEF tree
        <2> QED  BY <1>10, <2>1, <2>2, <2>3 DEF Current, Reads, Told
    <1>15. AtWork'
        <2>1. run.found = {}
            BY <1>4 DEF IndexInv, AtWork
        <2>2. \A p \in work : db'.rows[p] = None
            <3>1. \A p \in work : p \in Paths /\ (p \in gone \/ db.rows[p] = None)
                BY DEF Added, Modified, Work, Indexed
            <3> HIDE DEF w, gone, work
            <3> QED  BY <1>3, <1>10, <3>1
        <2>3. \A e \in db'.edges : e.from \notin work
            <3>1. \A e \in w.edges : e \in db.edges /\ e.from \notin gone
                BY <1>3
            <3>2. \A e \in db.edges : db.rows[e.from] # None
                BY <1>1 DEF Sane, Defined
            <3>3. \A p \in work : p \in gone \/ db.rows[p] = None
                BY DEF Added, Work, Modified
            <3> HIDE DEF w, gone, work
            <3> QED  BY <1>10, <3>1, <3>2, <3>3
        <2> HIDE DEF work
        <2> QED  BY <1>11, <2>1, <2>2, <2>3 DEF AtWork
    <1>16. Sane(saved)' /\ Current(saved, {})'
        BY <1>4 DEF IndexInv, Sane, Current, Reads, Told, Indexed, Defined, DefsOf, tree
    <1>17. (run.kept \/ Heals(saved))'
        BY <1>4, <1>11 DEF IndexInv, Heals, Indexed
    <1> QED  BY <1>9, <1>12, <1>13, <1>14, <1>15, <1>16, <1>17 DEF IndexInv

\* What Take and Skip do to the committed database: nothing, or the database in
\* work becomes the committed one.
LEMMA AdvanceInv ==
    ASSUME IndexInv, NEW next \in Run, Advance(next), UNCHANGED <<tree, db>>,
           run.pc = "next", next.kept = run.kept
    PROVE  /\ saved' \in Database
           /\ Sane(saved)'
           /\ Current(saved, {})'
           /\ (run.kept \/ Heals(saved))'
           /\ run' \in Run
           /\ run' = [next EXCEPT !.kept = run'.kept]
    <1>1. CommitDue \in BOOLEAN
        BY DEF CommitDue
    <1>2. run' = [next EXCEPT !.kept = next.kept \/ CommitDue]
        BY DEF Advance
    <1>3. run' \in Run /\ run'.kept = (next.kept \/ CommitDue)
        BY <1>1, <1>2 DEF Run
    <1>4. CASE CommitDue
        <2>1. saved' = db
            BY <1>4 DEF Advance
        <2>2. Sane(saved)' /\ Current(saved, {})'
            BY <2>1 DEF IndexInv, Sane, Current, Reads, Told, InHand, Indexed, Defined, DefsOf, tree
        <2> QED  BY <1>2, <1>3, <1>4, <2>1, <2>2 DEF IndexInv, TypeOK
    <1>5. CASE ~CommitDue
        <2>1. saved' = saved
            BY <1>5 DEF Advance
        <2>2. Sane(saved)' /\ Current(saved, {})'
            BY <2>1 DEF IndexInv, Sane, Current, Reads, Told, Indexed, Defined, DefsOf, tree
        <2>3. (run.kept \/ Heals(saved))'
            BY <1>3, <1>5, <2>1 DEF IndexInv, Heals, Indexed, Run
        <2> QED  BY <1>2, <1>3, <2>1, <2>2, <2>3 DEF IndexInv, TypeOK
    <1> QED  BY <1>4, <1>5

LEMMA TakeInv ==
    ASSUME IndexInv, NEW p \in Paths, Take(p)  PROVE IndexInv'
    <1> DEFINE next == [run EXCEPT !.pc = "hash", !.path = p, !.todo = @ \ {p},
                                   !.mtime = IF disk[p] = Absent THEN 0 ELSE stamp[p]]
    <1>1. /\ run.pc = "next" /\ p \in run.todo
          /\ Advance(next)
          /\ UNCHANGED <<tree, db, memo, faults>>
        BY DEF Take
    <1>2. run \in Run /\ stamp \in [Paths -> Nat] /\ edits \in Nat
        BY DEF IndexInv, TypeOK
    <1>3. next \in Run /\ next.kept = run.kept
        BY <1>2 DEF Run
    <1>4. /\ saved' \in Database /\ Sane(saved)' /\ Current(saved, {})'
          /\ (run.kept \/ Heals(saved))' /\ run' \in Run
          /\ run' = [next EXCEPT !.kept = run'.kept]
        <2> HIDE DEF next
        <2> QED  BY <1>1, <1>3, AdvanceInv
    <1>5. /\ run'.pc = "hash" /\ run'.path = p /\ run'.todo = run.todo \ {p}
          /\ run'.batch = run.batch /\ run'.found = run.found
          /\ run'.mtime = IF disk[p] = Absent THEN 0 ELSE stamp[p]
        BY <1>2, <1>4 DEF Run
    <1>6. TypeOK'
        BY <1>1, <1>4 DEF IndexInv, TypeOK, tree
    <1>7. Clock'
        BY <1>1, <1>2, <1>5 DEF IndexInv, Clock, tree
    <1>8. Sane(db)' /\ Current(db, InHand)'
        BY <1>1, <1>5 DEF IndexInv, Sane, Current, Reads, Told, InHand, Indexed, Defined, DefsOf, tree
    <1>9. AtWork'
        BY <1>1, <1>5 DEF IndexInv, AtWork
    <1> QED  BY <1>4, <1>6, <1>7, <1>8, <1>9 DEF IndexInv

LEMMA SkipInv ==
    ASSUME IndexInv, NEW p \in Paths, Skip(p)  PROVE IndexInv'
    <1> DEFINE next == [run EXCEPT !.todo = @ \ {p}, !.missed = @ \cup {p}]
    <1>1. /\ run.pc = "next" /\ p \in run.todo
          /\ Advance(next)
          /\ Failing({p}) /\ UNCHANGED <<tree, db, memo>>
        BY DEF Skip
    <1>2. run \in Run
        BY DEF IndexInv, TypeOK
    <1>3. next \in Run /\ next.kept = run.kept
        BY <1>2 DEF Run
    <1>4. /\ saved' \in Database /\ Sane(saved)' /\ Current(saved, {})'
          /\ (run.kept \/ Heals(saved))' /\ run' \in Run
          /\ run' = [next EXCEPT !.kept = run'.kept]
        <2> HIDE DEF next
        <2> QED  BY <1>1, <1>3, AdvanceInv
    <1>5. /\ run'.pc = "next" /\ run'.todo = run.todo \ {p}
          /\ run'.batch = run.batch /\ run'.found = run.found /\ run'.mtime = run.mtime
        BY <1>1, <1>2, <1>4 DEF Run
    <1>6. TypeOK'
        <2>1. faults' \in Nat
            BY <1>1, FailingFacts DEF IndexInv, TypeOK
        <2> QED  BY <1>1, <1>4, <2>1 DEF IndexInv, TypeOK, tree
    <1>7. Clock'
        BY <1>1, <1>5 DEF IndexInv, Clock, tree
    <1>8. Sane(db)' /\ Current(db, InHand)'
        BY <1>1, <1>5 DEF IndexInv, Sane, Current, Reads, Told, InHand, Indexed, Defined, DefsOf, tree
    <1>9. AtWork'
        BY <1>1, <1>5 DEF IndexInv, AtWork
    <1> QED  BY <1>4, <1>6, <1>7, <1>8, <1>9 DEF IndexInv

LEMMA HashInv ==
    ASSUME IndexInv, Hash  PROVE IndexInv'
    <1> DEFINE row == [hash |-> disk[run.path], mtime |-> run.mtime, parsed |-> Absent]
    <1>1. /\ run.pc = "hash" /\ disk[run.path] # Absent
          /\ db' = [db EXCEPT !.rows[run.path] = row]
          /\ run' = [run EXCEPT !.pc = "parse"]
          /\ UNCHANGED <<tree, saved, memo, faults>>
        BY DEF Hash
    <1>2. run \in Run /\ db \in Database
        BY DEF IndexInv, TypeOK
    <1>3. /\ run.path \in Paths /\ run.path \in run.batch /\ run.path \notin run.todo
          /\ db.rows[run.path] = None
        BY <1>1, <1>2 DEF IndexInv, AtWork, Run
    <1>4. row \in Row /\ row.parsed = Absent /\ row.mtime <= edits + 1
        BY <1>1, <1>2, <1>3 DEF IndexInv, TypeOK, Clock, Run, Row
    <1>5. db' \in Database /\ db'.edges = db.edges /\ db'.twice = db.twice
        <2> HIDE DEF row
        <2> QED  BY <1>1, <1>2, <1>3, <1>4 DEF Database
    <1>6. \A p \in Paths : db'.rows[p] = IF p = run.path THEN row ELSE db.rows[p]
        <2> HIDE DEF row
        <2> QED  BY <1>1, <1>2, <1>3 DEF Database
    <1>7. /\ run' \in Run /\ run'.pc = "parse" /\ run'.todo = run.todo /\ run'.path = run.path
          /\ run'.batch = run.batch /\ run'.found = run.found
          /\ run'.mtime = run.mtime /\ run'.kept = run.kept
        BY <1>1, <1>2 DEF Run
    <1>8. TypeOK' /\ Clock'
        BY <1>1, <1>5, <1>7 DEF IndexInv, TypeOK, Clock, tree
    <1>9. Sane(db)'
        <2>1. \A p \in Indexed(db)' : db'.rows[p].mtime <= edits' + 1
            BY <1>1, <1>4, <1>6 DEF IndexInv, Sane, Indexed, tree
        <2>2. \A e \in db.edges : e.from \in Paths /\ e.to \in Paths
            BY <1>2 DEF Database, Edge
        <2>3. Defined(db, run.path) = {}
            BY <1>3 DEF Defined
        <2>4. \A e \in db'.edges : Defined(db', e.from) # {} /\ e.name \in Defined(db', e.to)
            <3> SUFFICES ASSUME NEW e \in db.edges
                         PROVE  Defined(db', e.from) # {} /\ e.name \in Defined(db', e.to)
                BY <1>5
            <3>1. Defined(db, e.from) # {} /\ e.name \in Defined(db, e.to)
                BY DEF IndexInv, Sane
            <3>2. e.from # run.path /\ e.to # run.path
                BY <2>3, <3>1
            <3>3. Defined(db', e.from) = Defined(db, e.from) /\ Defined(db', e.to) = Defined(db, e.to)
                BY <1>6, <2>2, <3>2 DEF Defined
            <3> QED  BY <3>1, <3>3
        <2> QED  BY <1>5, <2>1, <2>4 DEF IndexInv, Sane
    <1>10. Current(db, InHand)'
        BY <1>1, <1>6, <1>7 DEF IndexInv, Current, Reads, Told, InHand, Indexed, tree
    <1>11. AtWork'
        BY <1>1, <1>3, <1>4, <1>5, <1>6, <1>7 DEF IndexInv, AtWork, TypeOK, Run
    <1>12. Sane(saved)' /\ Current(saved, {})' /\ (run.kept \/ Heals(saved))'
        BY <1>1, <1>7 DEF IndexInv, Sane, Current, Reads, Told, Heals, Indexed, Defined, DefsOf, tree
    <1> QED  BY <1>8, <1>9, <1>10, <1>11, <1>12 DEF IndexInv

LEMMA ParseInv ==
    ASSUME IndexInv, NEW now \in Contents \cup {Absent}, Parse(now)  PROVE IndexInv'
    <1> DEFINE row == [db.rows[run.path] EXCEPT !.parsed = now]
               why == IF now # disk[run.path] THEN db.causes \cup {"unread"}
                      ELSE IF now # db.rows[run.path].hash THEN db.causes \cup {"moved"}
                      ELSE db.causes
    <1>1. /\ run.pc = "parse"
          /\ db' = [db EXCEPT !.rows[run.path] = row, !.causes = why]
          /\ run' = [run EXCEPT !.pc = "next", !.path = None,
                                !.found = @ \cup ({run.path} \X RefsOf(now))]
          /\ now \in {disk[run.path], Absent}
          /\ Failing({run.path} \cap {p \in Paths : disk[p] # now})
          /\ UNCHANGED <<tree, saved, memo>>
        BY DEF Parse
    <1>2. run \in Run /\ db \in Database /\ disk \in [Paths -> Contents \cup {Absent}]
        BY DEF IndexInv, TypeOK
    <1>3. /\ run.path \in Paths /\ run.path \in run.batch /\ run.path \notin run.todo
          /\ db.rows[run.path] \in Row /\ db.rows[run.path].parsed = Absent
        BY <1>1, <1>2 DEF IndexInv, AtWork, Run
    <1>4. /\ row \in Row /\ row.parsed = now /\ row.mtime = db.rows[run.path].mtime
          /\ why \in SUBSET Causes
        BY <1>2, <1>3 DEF Row, Database, Causes
    <1>5. /\ db' \in Database /\ db'.edges = db.edges /\ db'.twice = db.twice
          /\ db'.causes = why
        <2> HIDE DEF row, why
        <2> QED  BY <1>1, <1>2, <1>3, <1>4 DEF Database
    <1>6. \A p \in Paths : db'.rows[p] = IF p = run.path THEN row ELSE db.rows[p]
        <2> HIDE DEF row, why
        <2> QED  BY <1>1, <1>2, <1>3 DEF Database
    <1>7. RefsOf(now) \subseteq Names
        BY NamesOf
    <1>8. /\ run' \in Run /\ run'.pc = "next" /\ run'.todo = run.todo
          /\ run'.batch = run.batch /\ run'.found = run.found \cup ({run.path} \X RefsOf(now))
          /\ run'.mtime = run.mtime /\ run'.kept = run.kept
        <2> QED  BY <1>1, <1>2, <1>3, <1>7 DEF Run
    <1>9. TypeOK' /\ Clock'
        <2>1. faults' \in Nat
            BY <1>1, FailingFacts DEF IndexInv, TypeOK
        <2> QED  BY <1>1, <1>5, <1>8, <2>1 DEF IndexInv, TypeOK, Clock, tree
    <1>10. None \notin Row
        BY IndexAssumption
    <1>11. run.path \in Indexed(db)
        BY <1>3, <1>10 DEF Indexed
    <1>12. Sane(db)'
        <2>1. \A p \in Indexed(db)' : db'.rows[p].mtime <= edits' + 1
            <3> HIDE DEF row
            <3> QED  BY <1>1, <1>4, <1>6, <1>11 DEF IndexInv, Sane, Indexed, tree
        <2>2. \A e \in db.edges : e.from \in Paths /\ e.to \in Paths
            BY <1>2 DEF Database, Edge
        <2>3. Defined(db, run.path) = {}
            BY <1>3 DEF Defined, DefsOf
        <2>4. \A e \in db'.edges : Defined(db', e.from) # {} /\ e.name \in Defined(db', e.to)
            <3> SUFFICES ASSUME NEW e \in db.edges
                         PROVE  Defined(db', e.from) # {} /\ e.name \in Defined(db', e.to)
                BY <1>5
            <3>1. Defined(db, e.from) # {} /\ e.name \in Defined(db, e.to)
                BY DEF IndexInv, Sane
            <3>2. e.from # run.path /\ e.to # run.path
                BY <2>3, <3>1
            <3>3. Defined(db', e.from) = Defined(db, e.from) /\ Defined(db', e.to) = Defined(db, e.to)
                BY <1>6, <2>2, <3>2 DEF Defined
            <3> QED  BY <3>1, <3>3
        <2> QED  BY <1>5, <2>1, <2>4 DEF IndexInv, Sane
    <1>13. Current(db, InHand)'
        <2>1. disk' = disk /\ stamp' = stamp /\ last' = last
            BY <1>1 DEF tree
        <2>2. \A p \in Indexed(db) \ {run.path} :
                 db.rows[p].mtime = stamp[p] /\ disk[p] # Absent /\ Told(p) => Reads(db, p)
            BY <1>1 DEF IndexInv, Current, InHand
        <2>3. \/ now = disk[run.path]
              \/ now = Absent /\ "unread" \in why
            BY <1>1
        <2>4. db.causes \subseteq why
            OBVIOUS
        <2>5. \A p \in Indexed(db)' : p \in Paths /\ (p # run.path => p \in Indexed(db))
            <3> HIDE DEF row
            <3> QED  BY <1>6 DEF Indexed
        <2>6. ASSUME NEW p \in Indexed(db)', db'.rows[p].mtime = stamp[p], disk[p] # Absent, Told(p)
              PROVE  Reads(db, p)'
            <3> HIDE DEF row, why
            <3>1. CASE p = run.path
                BY <1>3, <1>4, <1>5, <1>6, <2>1, <2>3, <3>1 DEF Reads
            <3>2. CASE p # run.path
                <4>1. db'.rows[p] = db.rows[p] /\ p \in Indexed(db)
                    BY <1>6, <2>5, <3>2
                <4> QED  BY <1>5, <2>1, <2>2, <2>4, <2>6, <3>2, <4>1 DEF Reads
            <3> QED  BY <3>1, <3>2
        <2> QED  BY <1>8, <2>1, <2>6 DEF Current, Told
    <1>14. AtWork'
        <2>1. \A f \in run'.found : f[1] \in run.batch
            BY <1>1, <1>3, <1>8 DEF IndexInv, AtWork
        <2>2. \A p \in run'.todo : db'.rows[p] = None
            BY <1>1, <1>2, <1>3, <1>6, <1>8 DEF IndexInv, AtWork, Run
        <2> QED  BY <1>1, <1>5, <1>8, <2>1, <2>2 DEF IndexInv, AtWork
    <1>15. Sane(saved)' /\ Current(saved, {})' /\ (run.kept \/ Heals(saved))'
        BY <1>1, <1>8 DEF IndexInv, Sane, Current, Reads, Told, Heals, Indexed, Defined, DefsOf, tree
    <1> QED  BY <1>9, <1>12, <1>13, <1>14, <1>15 DEF IndexInv

LEMMA ResolveInv ==
    ASSUME IndexInv, NEW unread \in SUBSET Paths, Resolve(unread)  PROVE IndexInv'
    <1> DEFINE again == UNION { {p} \X RefsOf(disk[p]) : p \in run.affected \ unread }
               w == WithoutEdgesFrom(db, run.affected)
               why(d) == d.causes \cup (IF Arrivals THEN {"arrival"} ELSE {})
                                  \cup (IF Moved THEN {"moved"} ELSE {})
                                  \cup (IF unread # {} THEN {"unread"} ELSE {})
    <1>1. run \in Run /\ db \in Database /\ disk \in [Paths -> Contents \cup {Absent}]
        BY DEF IndexInv, TypeOK
    <1>2. run.affected \in SUBSET Paths /\ run.found \in SUBSET (Paths \X Names)
        BY <1>1 DEF Run
    <1>3. again \in SUBSET (Paths \X Names) /\ \A f \in again : f[1] \in run.affected
        <2> SUFFICES ASSUME NEW p \in run.affected, NEW f \in {p} \X RefsOf(disk[p])
                     PROVE  f \in Paths \X Names /\ f[1] \in run.affected
            OBVIOUS
        <2>1. p \in Paths /\ RefsOf(disk[p]) \subseteq Names
            BY <1>1, <1>2, NamesOf
        <2> QED  BY <2>1
    <1>4. PICK new \in Resolutions(db, run.found \cup again) :
             db' = [WithEdges(w, new) EXCEPT !.causes = why(WithEdges(w, new))]
        BY DEF Resolve
    <1>5. /\ new \in SUBSET Edge
          /\ \A e \in new : /\ \E f \in run.found \cup again : e.from = f[1]
                            /\ Defined(db, e.from) # {}
                            /\ e.name \in Defined(db, e.to)
        <2>1. run.found \cup again \in SUBSET (Paths \X Names)
            BY <1>2, <1>3
        <2> HIDE DEF again
        <2> QED  BY <1>1, <2>1, ResolutionFacts
    <1>6. /\ run.pc = "next" /\ run.todo = {} /\ run' = [run EXCEPT !.pc = "resolved"]
          /\ Failing(unread) /\ UNCHANGED <<tree, saved, memo>>
        BY DEF Resolve
    <1>7. db.twice = {} /\ \A e \in db.edges : e.from \notin run.batch
        BY <1>6 DEF IndexInv, Sane, AtWork
    <1>8. w \in Database /\ w.rows = db.rows
          /\ w.edges = {e \in db.edges : e.from \notin run.affected} /\ w.twice = {}
        BY <1>1, <1>7 DEF WithoutEdgesFrom, Database
    <1>9. \A e \in new : e \notin w.edges
        <2> SUFFICES ASSUME NEW e \in new, e \in w.edges  PROVE FALSE
            OBVIOUS
        <2>1. e.from \notin run.affected /\ e.from \notin run.batch
            <3> HIDE DEF w
            <3> QED  BY <1>7, <1>8
        <2>2. PICK f \in run.found \cup again : e.from = f[1]
            BY <1>5
        <2>3. f[1] \in run.batch \/ f[1] \in run.affected
            BY <1>3, <1>6 DEF IndexInv, AtWork
        <2> QED  BY <2>1, <2>2, <2>3
    <1>10. /\ db'.rows = db.rows /\ db'.edges = w.edges \cup new /\ db'.twice = {}
           /\ db' \in Database /\ db.causes \subseteq db'.causes
        <2>1. new \cap w.edges = {}
            BY <1>9
        <2>2. /\ WithEdges(w, new) \in Database /\ WithEdges(w, new).rows = w.rows
              /\ WithEdges(w, new).edges = w.edges \cup new /\ WithEdges(w, new).twice = {}
              /\ WithEdges(w, new).causes = db.causes
            <3>1. w.causes = db.causes
                BY <1>1 DEF WithoutEdgesFrom, Database
            <3> HIDE DEF w
            <3> QED  BY <1>5, <1>8, <2>1, <3>1 DEF WithEdges, Database
        <2>4. db.causes \subseteq why(WithEdges(w, new))
            <3> HIDE DEF w
            <3> QED  BY <2>2
        <2>3. why(WithEdges(w, new)) \in SUBSET Causes
            <3> DEFINE x == WithEdges(w, new)
            <3>1. x.causes \in SUBSET Causes
                <4> HIDE DEF x
                <4> QED  BY <2>2 DEF x, Database
            <3> HIDE DEF x
            <3>2. why(x) \in SUBSET Causes
                BY <3>1 DEF Causes
            <3> QED  BY <3>2 DEF x
        <2> HIDE DEF w, why
        <2> QED  BY <1>4, <1>8, <2>2, <2>3, <2>4 DEF Database
    <1>11. /\ run' \in Run /\ run'.pc = "resolved" /\ run'.mtime = run.mtime
           /\ run'.kept = run.kept
        BY <1>1, <1>6 DEF Run
    <1>12. TypeOK' /\ Clock' /\ AtWork'
        <2>1. unread \in SUBSET Paths /\ faults' \in Nat
            BY <1>6, FailingFacts DEF IndexInv, TypeOK
        <2> QED  BY <2>1, <1>6, <1>10, <1>11 DEF IndexInv, TypeOK, Clock, AtWork, tree
    <1>13. Indexed(db)' = Indexed(db) /\ \A p : Defined(db', p) = Defined(db, p)
        BY <1>10 DEF Indexed, Defined
    <1>14. Sane(db)'
        <2>1. \A p \in Indexed(db)' : db'.rows[p].mtime <= edits' + 1
            BY <1>6, <1>10, <1>13 DEF IndexInv, Sane, tree
        <2>2. \A e \in w.edges \cup new : Defined(db, e.from) # {} /\ e.name \in Defined(db, e.to)
            <3> HIDE DEF w, again
            <3> QED  BY <1>5, <1>8 DEF IndexInv, Sane
        <2>3. \A e \in db'.edges : Defined(db', e.from) # {} /\ e.name \in Defined(db', e.to)
            <3> HIDE DEF w
            <3> QED  BY <1>10, <1>13, <2>2
        <2> QED  BY <1>10, <2>1, <2>3 DEF Sane
    <1>15. Current(db, InHand)'
        BY <1>6, <1>10, <1>11, <1>13 DEF IndexInv, Current, Reads, Told, InHand, tree
    <1>16. Sane(saved)' /\ Current(saved, {})' /\ (run.kept \/ Heals(saved))'
        BY <1>6, <1>11 DEF IndexInv, Sane, Current, Reads, Told, Heals, Indexed, Defined, DefsOf, tree
    <1> QED  BY <1>12, <1>14, <1>15, <1>16 DEF IndexInv

LEMMA CommitInv ==
    ASSUME IndexInv, Commit  PROVE IndexInv'
    <1>1. /\ run.pc = "resolved" /\ saved' = db
          /\ run' = [run EXCEPT !.kept = TRUE]
          /\ UNCHANGED <<tree, db, memo, faults>>
        BY DEF Commit
    <1>2. run \in Run
        BY DEF IndexInv, TypeOK
    <1>3. run' \in Run /\ run'.pc = "resolved" /\ run'.kept = TRUE /\ run'.mtime = run.mtime
        BY <1>1, <1>2 DEF Run
    <1>4. TypeOK' /\ Clock' /\ AtWork'
        BY <1>1, <1>3 DEF IndexInv, TypeOK, Clock, AtWork, tree
    <1>5. Sane(saved)' /\ Sane(db)' /\ Current(saved, {})' /\ Current(db, InHand)'
        BY <1>1, <1>3 DEF IndexInv, Sane, Current, Reads, Told, InHand, Indexed, Defined, DefsOf, tree
    <1> QED  BY <1>3, <1>4, <1>5 DEF IndexInv

\* A light run's marks leave symbols and edges alone, and heal the database.
LEMMA MarkedFacts ==
    ASSUME NEW d \in Database, NEW ps \in SUBSET Indexed(d), TypeOK, Clock,
           Sane(d), Current(d, {})
    PROVE  /\ Marked(d, ps) \in Database
           /\ Sane(Marked(d, ps))
           /\ Current(Marked(d, ps), {})
           /\ Heals(Marked(d, ps))
           /\ Carries(Marked(d, ps), d)
    <1> DEFINE row(p) == [d.rows[p] EXCEPT !.hash = Pending, !.mtime = 0]
    <1>1. CASE ps = {}
        <2>1. Marked(d, ps) = [d EXCEPT !.causes = d.causes \cup {"unmarked"}]
            BY <1>1 DEF Marked
        <2>2. d.causes \cup {"unmarked"} \in SUBSET Causes
            BY DEF Database, Causes
        <2>3. /\ Marked(d, ps) \in Database /\ Marked(d, ps).rows = d.rows
              /\ Marked(d, ps).edges = d.edges /\ Marked(d, ps).twice = d.twice
              /\ Marked(d, ps).causes = d.causes \cup {"unmarked"}
            BY <2>1, <2>2 DEF Database
        <2> QED  BY <2>3 DEF Sane, Current, Reads, Told, Heals, Carries, Indexed, Defined
    <1>2. CASE ps # {}
        <2> DEFINE rows == [p \in Paths |-> IF p \in ps THEN row(p) ELSE d.rows[p]]
        <2>1. Marked(d, ps) = [d EXCEPT !.rows = rows]
            BY <1>2 DEF Marked, Database
        <2>2. ps \subseteq Paths /\ \A p \in ps : d.rows[p] \in Row
            BY DEF Indexed, Database
        <2>3. \A p \in ps : /\ row(p) \in Row /\ row(p).hash = Pending /\ row(p).mtime = 0
                            /\ row(p).parsed = d.rows[p].parsed
            BY <2>2 DEF Row
        <2>4. rows \in [Paths -> Row \cup {None}]
            <3> HIDE DEF row
            <3> QED  BY <2>2, <2>3 DEF Database
        <2>5. /\ Marked(d, ps) \in Database /\ Marked(d, ps).rows = rows
              /\ Marked(d, ps).edges = d.edges /\ Marked(d, ps).twice = d.twice
            <3> HIDE DEF rows
            <3> QED  BY <2>1, <2>4 DEF Database
        <2>6. None \notin Row
            BY IndexAssumption
        <2>7. \A p \in Paths : /\ rows[p] = IF p \in ps THEN row(p) ELSE d.rows[p]
                               /\ rows[p] # None <=> d.rows[p] # None
            <3> HIDE DEF row
            <3> QED  BY <2>2, <2>3, <2>6
        <2>8. Indexed(Marked(d, ps)) = Indexed(d)
            <3> HIDE DEF rows
            <3> QED  BY <2>5, <2>7 DEF Indexed
        <2>9. \A p \in Paths : Defined(Marked(d, ps), p) = Defined(d, p)
            <3> HIDE DEF rows, row
            <3> QED  BY <2>2, <2>3, <2>5, <2>6, <2>7 DEF Defined
        <2>10. Sane(Marked(d, ps))
            <3>1. 0 <= edits + 1
                BY DEF TypeOK
            <3>2. \A e \in d.edges : e.from \in Paths /\ e.to \in Paths
                BY DEF Database, Edge
            <3>4. \A p \in Indexed(Marked(d, ps)) : Marked(d, ps).rows[p].mtime <= edits + 1
                <4> HIDE DEF rows, row
                <4> QED  BY <2>3, <2>5, <2>7, <2>8, <3>1 DEF Sane, Indexed
            <3>5. \A e \in Marked(d, ps).edges :
                     /\ Defined(Marked(d, ps), e.from) # {}
                     /\ e.name \in Defined(Marked(d, ps), e.to)
                BY <2>5, <2>9, <3>2 DEF Sane
            <3> QED  BY <2>5, <3>4, <3>5 DEF Sane
        <2>11. Current(Marked(d, ps), {})
            <3> HIDE DEF rows, row
            <3>1. \A p \in Paths : stamp[p] # 0
                BY DEF Clock, TypeOK
            <3>2. \A p \in ps : row(p).mtime # stamp[p]
                BY <2>2, <2>3, <3>1
            <3>3. Marked(d, ps).causes = d.causes
                BY <2>1 DEF Database
            <3> QED  BY <2>5, <2>7, <2>8, <3>2, <3>3 DEF Current, Reads, Told, Indexed
        <2>12. Heals(Marked(d, ps))
            <3> HIDE DEF rows, row
            <3> QED  BY <1>2, <2>2, <2>3, <2>5, <2>7, <2>8 DEF Heals
        <2>13. Carries(Marked(d, ps), d)
            <3>1. Marked(d, ps).causes = d.causes
                BY <2>1 DEF Database
            <3>2. \A p \in ps : row(p) # None /\ d.rows[p] # None
                BY <2>2, <2>3, <2>6
            <3> HIDE DEF rows, row
            <3> QED  BY <2>3, <2>5, <2>7, <3>1, <3>2 DEF Carries
        <2> QED  BY <2>5, <2>10, <2>11, <2>12, <2>13
    <1> QED  BY <1>1, <1>2

\* The metric passes touch neither rows nor edges, and leave metrics or a reason.
LEMMA MeasuredFacts ==
    ASSUME NEW d \in Database, NEW m, memo \in Graph \cup {None},
           m \in Measured(d) \/ (memo # None /\ m = Recalled(d))
    PROVE  /\ m \in Database /\ m.rows = d.rows /\ m.edges = d.edges /\ m.twice = d.twice
           /\ Heals(m)
           /\ d.causes \subseteq m.causes
    <1>1. ASSUME NEW graph \in Graph
          PROVE  /\ Signed(d, graph) \in Database /\ Signed(d, graph).rows = d.rows
                 /\ Signed(d, graph).edges = d.edges /\ Signed(d, graph).twice = d.twice
                 /\ Signed(d, graph).causes = d.causes
        BY <1>1 DEF Signed, Database
    <1>2. PICK graph \in Graph :
             LET signed == Signed(d, graph) IN
             \/ m = [signed EXCEPT !.fresh = TRUE]
             \/ \E why \in {"failed", "reused", "recalled"} :
                   m = [signed EXCEPT !.causes = signed.causes \cup {why}]
        <2>1. CASE m \in Measured(d)
            BY <2>1, GraphFacts DEF Measured
        <2>2. CASE memo # None /\ m = Recalled(d)
            BY <2>2 DEF Recalled
        <2> QED  BY <2>1, <2>2
    <1> DEFINE signed == Signed(d, graph)
    <1>3. /\ signed \in Database /\ signed.rows = d.rows /\ signed.edges = d.edges
          /\ signed.twice = d.twice /\ signed.causes = d.causes
        BY <1>1
    <1> HIDE DEF signed
    <1>4. CASE m = [signed EXCEPT !.fresh = TRUE]
        BY <1>3, <1>4 DEF Database, Heals
    <1>5. ASSUME NEW why \in {"failed", "reused", "recalled"},
                 m = [signed EXCEPT !.causes = signed.causes \cup {why}]
          PROVE  /\ m \in Database /\ m.rows = d.rows /\ m.edges = d.edges /\ m.twice = d.twice
                 /\ Heals(m) /\ d.causes \subseteq m.causes
        <2>1. signed.causes \cup {why} \in SUBSET Causes
            BY <1>3 DEF Database, Causes
        <2>2. /\ m \in Database /\ m.rows = signed.rows /\ m.edges = signed.edges
              /\ m.twice = signed.twice /\ m.causes = signed.causes \cup {why}
            BY <1>3, <1>5, <2>1 DEF Database
        <2> QED  BY <1>3, <2>2 DEF Heals
    <1> QED  BY <1>2, <1>4, <1>5 DEF signed

LEMMA FinishInv ==
    ASSUME IndexInv, Finish  PROVE IndexInv'
    <1> DEFINE ps == run.batch \cap Indexed(db)
               marked == Marked(db, ps)
    <1>1. /\ run.pc = "resolved" /\ saved' = db' /\ run' = Idle
          /\ UNCHANGED <<tree, faults>>
          /\ memo' \in {memo, GraphOf(db)}
          /\ \/ db' = [marked EXCEPT !.signed = None]
             \/ db' \in Measured(db) \/ (memo # None /\ db' = Recalled(db))
        BY DEF Finish
    <1>2. db \in Database /\ Sane(db) /\ Current(db, {}) /\ TypeOK /\ Clock
        BY <1>1 DEF IndexInv, TypeOK, Current, Reads, Told, InHand
    <1>3. db' \in Database /\ Sane(db') /\ Current(db', {}) /\ Heals(db')
        <2>1. CASE db' = [marked EXCEPT !.signed = None]
            <3>1. ps \in SUBSET Indexed(db)
                OBVIOUS
            <3>2. /\ marked \in Database /\ Sane(marked) /\ Current(marked, {})
                  /\ Heals(marked)
                <4> HIDE DEF ps
                <4> QED  BY <1>2, <3>1, MarkedFacts
            <3> HIDE DEF marked
            <3>3. /\ db' \in Database /\ db'.rows = marked.rows /\ db'.edges = marked.edges
                  /\ db'.twice = marked.twice /\ db'.fresh = marked.fresh
                  /\ db'.causes = marked.causes
                BY <2>1, <3>2 DEF Database
            <3> QED  BY <3>2, <3>3 DEF Sane, Current, Reads, Told, Heals, Indexed, Defined
        <2>2. CASE db' \in Measured(db) \/ (memo # None /\ db' = Recalled(db))
            <3>1. /\ db' \in Database /\ db'.rows = db.rows /\ db'.edges = db.edges
                  /\ db'.twice = db.twice /\ Heals(db')
                BY <1>2, <2>2, MeasuredFacts DEF TypeOK
            <3>2. db.causes \subseteq db'.causes
                BY <1>2, <2>2, MeasuredFacts DEF TypeOK
            <3> QED  BY <1>2, <3>1, <3>2 DEF Sane, Current, Reads, Told, Indexed, Defined
        <2> QED  BY <1>1, <2>1, <2>2
    <1>4. Idle \in Run /\ Idle.pc = "idle" /\ Idle.mtime = 0 /\ Idle.found = {} /\ ~Idle.kept
        BY DEF Idle, Run
    <1>5. TypeOK'
        <2>1. memo' \in Graph \cup {None}
            BY <1>1, <1>2, GraphFacts DEF TypeOK
        <2> QED  BY <1>1, <1>3, <1>4, <2>1 DEF IndexInv, TypeOK, tree
    <1>6. Clock' /\ AtWork'
        BY <1>1, <1>4 DEF IndexInv, TypeOK, Clock, AtWork, tree
    <1>7. Sane(saved)' /\ Sane(db)' /\ Current(saved, {})' /\ Current(db, InHand)'
        BY <1>1, <1>3, <1>4 DEF Sane, Current, Reads, Told, InHand, tree
    <1>8. Heals(saved)'
        BY <1>1, <1>3 DEF Heals
    <1> QED  BY <1>5, <1>6, <1>7, <1>8 DEF IndexInv

LEMMA RollBackInv ==
    ASSUME IndexInv, RollBack, faults' \in Nat, memo' \in Graph \cup {None}  PROVE IndexInv'
    <1> DEFINE why == IF run.kept THEN saved.causes \cup {"cut"} ELSE saved.causes
    <1>1. saved' = [saved EXCEPT !.causes = why] /\ db' = saved' /\ run' = Idle /\ UNCHANGED tree
        BY DEF RollBack
    <1>2. saved \in Database /\ Sane(saved) /\ Current(saved, {})
        BY DEF IndexInv, TypeOK
    <1>3. why \in SUBSET Causes
        BY <1>2 DEF Database, Causes
    <1>4. /\ saved' \in Database /\ saved'.rows = saved.rows /\ saved'.edges = saved.edges
          /\ saved'.twice = saved.twice /\ saved'.fresh = saved.fresh /\ saved'.causes = why
        <2> HIDE DEF why
        <2> QED  BY <1>1, <1>2, <1>3 DEF Database
    <1>5. Idle \in Run /\ Idle.pc = "idle" /\ Idle.mtime = 0 /\ Idle.found = {} /\ ~Idle.kept
        BY DEF Idle, Run
    <1>6. TypeOK'
        BY <1>1, <1>4, <1>5 DEF IndexInv, TypeOK, tree
    <1>7. Clock' /\ AtWork'
        BY <1>1, <1>5 DEF IndexInv, TypeOK, Clock, AtWork, tree
    <1>8. Sane(saved)' /\ Current(saved, {})'
        <2>1. saved.causes \subseteq saved'.causes
            BY <1>4
        <2> QED  BY <1>1, <1>2, <1>4, <2>1 DEF Sane, Current, Reads, Told, Indexed, Defined, tree
    <1>9. Sane(db)' /\ Current(db, InHand)'
        BY <1>1, <1>5, <1>8 DEF Sane, Current, Reads, Told, InHand
    <1>10. Heals(saved)'
        BY <1>4 DEF IndexInv, Heals, Indexed
    <1> QED  BY <1>6, <1>7, <1>8, <1>9, <1>10 DEF IndexInv

LEMMA EditInv ==
    ASSUME IndexInv, NEW p \in Paths, NEW content \in Contents \cup {Absent},
           NEW time \in {edits + 2, stamp[p]}, Edit(p, content, time)
    PROVE  IndexInv'
    <1>1. /\ disk' = [disk EXCEPT ![p] = content] /\ edits' = edits + 1
          /\ stamp' = [stamp EXCEPT ![p] = time] /\ last' = [last EXCEPT ![p] = edits + 2]
          /\ UNCHANGED <<saved, db, run, memo, faults>>
        BY DEF Edit
    <1>2. edits \in Nat /\ disk \in [Paths -> Contents \cup {Absent}] /\ stamp \in [Paths -> Nat]
          /\ last \in [Paths -> Nat] /\ time \in Nat /\ time <= edits + 2 /\ 1 <= time
        BY DEF IndexInv, TypeOK, Clock
    <1>3. TypeOK'
        BY <1>1, <1>2 DEF IndexInv, TypeOK
    <1>4. run.mtime \in Nat
        BY DEF IndexInv, TypeOK, Run
    <1>5. Clock'
        BY <1>1, <1>2, <1>4 DEF IndexInv, Clock
    <1>6. ASSUME NEW d \in Database, Sane(d)
          PROVE  \A q \in Indexed(d) : d.rows[q].mtime \in Nat /\ d.rows[q].mtime <= edits + 1
        <2>1. \A q \in Indexed(d) : d.rows[q] \in Row
            BY DEF Indexed, Database
        <2> QED  BY <1>6, <2>1 DEF Sane, Row
    <1>7. ASSUME NEW d \in Database, NEW but, Sane(d), Current(d, but),
                 NEW q \in Indexed(d) \ but, d.rows[q].mtime = stamp'[q], disk'[q] # Absent,
                 last'[q] = stamp'[q]
          PROVE  d.rows[q].parsed = disk'[q] \/ (d.rows[q].parsed = Absent /\ "unread" \in d.causes)
        <2>1. d.rows[q].mtime # edits + 2 /\ q \in Paths
            BY <1>2, <1>6, <1>7 DEF Indexed
        <2>2. q # p
            BY <1>1, <1>2, <1>7, <2>1
        <2>3. disk'[q] = disk[q] /\ stamp'[q] = stamp[q] /\ last'[q] = last[q]
            BY <1>1, <1>2, <2>1, <2>2
        <2> QED  BY <1>7, <2>3 DEF Current, Reads, Told
    <1>8. saved \in Database /\ db \in Database /\ Sane(saved) /\ Sane(db)
          /\ Current(saved, {}) /\ Current(db, InHand)
        BY DEF IndexInv, TypeOK
    <1>9. Current(saved, {})' /\ Current(db, InHand)'
        <2>1. Indexed(saved)' = Indexed(saved) /\ Indexed(db)' = Indexed(db) /\ InHand' = InHand
              /\ saved' = saved /\ db' = db
            BY <1>1 DEF Indexed, InHand
        <2> QED  BY <1>7, <1>8, <2>1 DEF Current, Reads, Told
    <1>10. Sane(saved)' /\ Sane(db)'
        <2>1. /\ \A q \in Indexed(saved) : saved.rows[q].mtime \in Nat
                                           /\ saved.rows[q].mtime <= edits + 1
              /\ \A q \in Indexed(db) : db.rows[q].mtime \in Nat
                                        /\ db.rows[q].mtime <= edits + 1
            BY <1>6, <1>8
        <2>2. /\ \A q \in Indexed(saved) : saved.rows[q].mtime <= edits' + 1
              /\ \A q \in Indexed(db) : db.rows[q].mtime <= edits' + 1
            BY <1>1, <1>2, <2>1
        <2>3. Indexed(saved)' = Indexed(saved) /\ Indexed(db)' = Indexed(db)
              /\ saved' = saved /\ db' = db
            BY <1>1 DEF Indexed
        <2> QED  BY <1>8, <2>2, <2>3 DEF Sane, Defined
    <1>11. AtWork' /\ (run.kept \/ Heals(saved))'
        BY <1>1 DEF IndexInv, AtWork, Heals, Indexed
    <1> QED  BY <1>3, <1>5, <1>9, <1>10, <1>11 DEF IndexInv

LEMMA StepInv == IndexInv /\ [Next]_vars => IndexInv'
    <1> SUFFICES ASSUME IndexInv, [Next]_vars  PROVE IndexInv'
        OBVIOUS
    <1>1. CASE UNCHANGED vars
        BY <1>1 DEF IndexInv, TypeOK, Clock, Sane, Current, Reads, Told, InHand, AtWork, Heals,
                    Indexed, Defined, DefsOf, vars
    <1>2. ASSUME NEW light \in BOOLEAN, Start(light)  PROVE IndexInv'
        BY <1>2, StartInv
    <1>3. CASE Rebuild
        BY <1>3, RebuildInv
    <1>4. CASE NothingToDo
        BY <1>4, NothingToDoInv
    <1>5. ASSUME NEW unread \in SUBSET Paths, Detect(unread) \/ Resolve(unread)  PROVE IndexInv'
        BY <1>5, DetectInv, ResolveInv
    <1>6. ASSUME NEW p \in Paths, Take(p) \/ Skip(p)  PROVE IndexInv'
        BY <1>6, TakeInv, SkipInv
    <1>7. CASE Hash
        BY <1>7, HashInv
    <1>8. ASSUME NEW now \in Contents \cup {Absent}, Parse(now)  PROVE IndexInv'
        BY <1>8, ParseInv
    <1>10. CASE Commit
        BY <1>10, CommitInv
    <1>11. CASE Finish
        BY <1>11, FinishInv
    <1>12. CASE Stop
        <2>1. RollBack /\ faults' \in Nat /\ memo' \in Graph \cup {None}
            BY <1>12 DEF Stop, IndexInv, TypeOK
        <2> QED  BY <2>1, RollBackInv
    <1>13. CASE Unhashed
        <2>1. RollBack /\ faults' \in Nat /\ memo' \in Graph \cup {None}
            BY <1>13, FailingFacts DEF Unhashed, IndexInv, TypeOK
        <2> QED  BY <2>1, RollBackInv
    <1>14. ASSUME NEW p \in Paths, NEW content \in Contents \cup {Absent},
           NEW time \in {edits + 2, stamp[p]}, Edit(p, content, time)
           PROVE  IndexInv'
        BY <1>14, EditInv
    <1> QED  BY <1>1, <1>2, <1>3, <1>4, <1>5, <1>6, <1>7, <1>8, <1>10, <1>11, <1>12,
                <1>13, <1>14 DEF Next

LEMMA AlwaysInv == Spec => []IndexInv
    BY InitInv, StepInv, PTL DEF Spec

-----------------------------------------------------------------------------
(* Completeness: the invariant *)

\* The references stored with a file's row, as Defined is its symbols.
Refers(d, p) == IF d.rows[p] = None THEN {} ELSE RefsOf(d.rows[p].parsed)

Linked(d, p, name) == \E e \in d.edges : e.from = p /\ e.name = name
Linkable(d, p, name) == Defined(d, p) # {} /\ Definers(d, name) # {}

Doubted(d) == d.causes \cap {"cut", "arrival", "moved", "unread"} # {}

\* Edges come from references, and what was hashed is what was parsed.
Honest(d, but) ==
    /\ \A e \in d.edges : e.name \in Refers(d, e.from)
    /\ \A p \in Indexed(d) \ but : d.rows[p].hash \in {Pending, d.rows[p].parsed}

\* And every reference that has somewhere to lead to is an edge.
Complete(d) ==
    Doubted(d) \/ /\ Honest(d, {})
                  /\ \A p \in Paths : \A name \in Refers(d, p) :
                        Linkable(d, p, name) => Linked(d, p, name)

\* While a run parses: all references of parsed files are at hand, those of the
\* affected files can be read again, and in every other file a reference without an
\* edge had none before the run either and can only be met by a file of the batch.
UnderWay ==
    /\ Honest(db, InHand)
    /\ run.found = {f \in Paths \X Names : f[1] \in run.batch /\ f[2] \in Refers(db, f[1])}
    /\ run.affected \subseteq Indexed(db) \ run.batch
    /\ \A p \in Paths \ (run.batch \cup run.affected) : \A name \in Refers(db, p) :
          \/ Linked(db, p, name)
          \/ /\ <<p, name>> \in run.waiting
             /\ Linkable(db, p, name) => Definers(db, name) \subseteq run.batch

CompleteInv ==
    /\ ~run.kept => Complete(saved)
    /\ run.pc \in {"idle", "detect"} => db = saved
    /\ run.pc \in {"next", "hash", "parse"} => Doubted(db) \/ UnderWay
    /\ run.pc = "resolved" => Complete(db)

\* What a database carries over from a complete one is complete.
LEMMA CompleteCarried ==
    ASSUME NEW d \in Database, NEW before \in Database, Carries(d, before), Complete(before)
    PROVE  Complete(d)
    <1> SUFFICES ASSUME ~Doubted(d)
                 PROVE  /\ Honest(d, {})
                        /\ \A p \in Paths : \A name \in Refers(d, p) :
                              Linkable(d, p, name) => Linked(d, p, name)
        BY DEF Complete
    <1>1. ~Doubted(before)
        BY DEF Doubted, Carries
    <1>2. \A p \in Paths : /\ Refers(d, p) = Refers(before, p)
                           /\ Defined(d, p) = Defined(before, p)
        BY DEF Carries, Refers, Defined
    <1>3. \A p, name : Linked(d, p, name) <=> Linked(before, p, name)
        BY DEF Carries, Linked
    <1>4. \A p \in Paths : \A name : Linkable(d, p, name) => Linkable(before, p, name)
        BY <1>2 DEF Linkable, Definers
    <1>5. Honest(d, {})
        <2>1. \A e \in d.edges : e \in before.edges /\ e.from \in Paths
            BY DEF Carries, Database, Edge
        <2>2. \A p \in Indexed(d) : p \in Indexed(before)
            BY DEF Carries, Indexed
        <2> QED  BY <1>1, <1>2, <2>1, <2>2 DEF Complete, Honest, Carries, Indexed
    <1> QED  BY <1>1, <1>2, <1>3, <1>4, <1>5 DEF Complete

\* Detection: an edge that goes with a deleted file makes its other end an affected
\* file, and a reference without an edge is waiting.
LEMMA DetectComplete ==
    ASSUME IndexInv, CompleteInv, NEW unread \in SUBSET Paths, Detect(unread)
    PROVE  CompleteInv'
    <1> DEFINE gone == Removed(db, unread) \cup Modified(db, unread)
               work == Work(db, unread)
               w == WithoutRows(db, gone)
    <1>1. /\ run.pc = "detect"
          /\ db' = [w EXCEPT !.fresh = FALSE]
          /\ run' = [run EXCEPT !.pc = "next", !.batch = work, !.todo = work,
                                !.affected = Affected(db, gone), !.waiting = Waiting(db),
                                !.since = edits, !.missed = unread]
          /\ saved' = saved
        BY DEF Detect
    <1>2. db \in Database /\ Sane(db) /\ run \in Run /\ run.found = {} /\ Complete(db)
        BY <1>1 DEF IndexInv, TypeOK, AtWork, CompleteInv
    <1>3. /\ run'.pc = "next" /\ run'.batch = work /\ run'.found = {} /\ run'.kept = run.kept
          /\ run'.affected = Affected(db, gone) /\ run'.waiting = Waiting(db)
        <2> HIDE DEF gone, work
        <2> QED  BY <1>1, <1>2 DEF Run
    <1>4. /\ db'.rows = [p \in Paths |-> IF p \in gone THEN None ELSE db.rows[p]]
          /\ db'.edges = {e \in db.edges : e.from \notin gone /\ e.to \notin gone}
          /\ db'.causes = db.causes
        <2> HIDE DEF gone
        <2>1. /\ w.rows = [p \in Paths |-> IF p \in gone THEN None ELSE db.rows[p]]
              /\ w.edges = {e \in db.edges : e.from \notin gone /\ e.to \notin gone}
              /\ w.causes = db.causes
              /\ \A f \in DOMAIN w : f \in DOMAIN db
            BY <1>2 DEF WithoutRows, Database
        <2> HIDE DEF w
        <2>2. db'.rows = w.rows /\ db'.edges = w.edges /\ db'.causes = w.causes
            BY <1>1
        <2> QED  BY <2>1, <2>2
    <1>5. \A p \in work : db'.rows[p] = None
        <2>1. \A p \in work : p \in Paths /\ (p \in gone \/ db.rows[p] = None)
            BY DEF Added, Modified, Work, Indexed
        <2> HIDE DEF gone, work
        <2> QED  BY <1>4, <2>1
    <1>6. \A p \in Paths : /\ db'.rows[p] # None => p \notin gone /\ db'.rows[p] = db.rows[p]
                           /\ Refers(db', p) \subseteq Refers(db, p)
                           /\ Defined(db', p) \subseteq Defined(db, p)
                           /\ p \notin gone => Refers(db', p) = Refers(db, p)
        <2> HIDE DEF gone
        <2> QED  BY <1>4 DEF Refers, Defined
    <1>7. ASSUME ~Doubted(db')  PROVE UnderWay'
        <2>1. /\ Honest(db, {})
              /\ \A p \in Paths : \A name \in Refers(db, p) :
                    Linkable(db, p, name) => Linked(db, p, name)
            BY <1>2, <1>4, <1>7 DEF Complete, Doubted
        <2>2. \A e \in db.edges : e.from \in Paths /\ e.to \in Paths /\ db.rows[e.from] # None
            BY <1>2 DEF Sane, Defined, Database, Edge
        <2>3. Honest(db', InHand')
            <3>1. \A e \in db'.edges : e.name \in Refers(db', e.from)
                <4> HIDE DEF gone
                <4> QED  BY <1>4, <1>6, <2>1, <2>2 DEF Honest
            <3>2. \A p \in Indexed(db') : db'.rows[p].hash \in {Pending, db'.rows[p].parsed}
                <4> HIDE DEF gone
                <4> QED  BY <1>6, <2>1 DEF Honest, Indexed
            <3> QED  BY <3>1, <3>2 DEF Honest
        <2>4. run'.found = {f \in Paths \X Names : f[1] \in run'.batch /\ f[2] \in Refers(db', f[1])}
            <3>1. \A p \in work : Refers(db', p) = {}
                BY <1>5 DEF Refers
            <3> HIDE DEF work
            <3> QED  BY <1>3, <3>1
        <2>5. run'.affected \subseteq Indexed(db') \ run'.batch
            <3> SUFFICES ASSUME NEW e \in db.edges, e.to \in gone, e.from \notin gone
                         PROVE  e.from \in Indexed(db') /\ e.from \notin work
                BY <1>3 DEF Affected
            <3>1. e.from \in Indexed(db')
                <4> HIDE DEF gone
                <4> QED  BY <1>4, <2>2 DEF Indexed
            <3> HIDE DEF work, gone
            <3> QED  BY <1>5, <3>1 DEF Indexed
        <2>6. ASSUME NEW p \in Paths, p \notin run'.affected, NEW name \in Refers(db', p)
              PROVE  \/ Linked(db', p, name)
                     \/ /\ <<p, name>> \in run'.waiting
                        /\ ~Linkable(db', p, name)
            <3>1. db'.rows[p] # None
                BY <2>6 DEF Refers
            <3>2. p \notin gone /\ db'.rows[p] = db.rows[p] /\ name \in Refers(db, p)
                <4> HIDE DEF gone
                <4> QED  BY <1>6, <2>6, <3>1
            <3>3. CASE Linked(db, p, name)
                <4>1. PICK e \in db.edges : e.from = p /\ e.name = name
                    BY <3>3 DEF Linked
                <4>2. e.to \notin gone
                    BY <1>3, <2>6, <3>2, <4>1 DEF Affected
                <4>3. e \in db'.edges
                    <5> HIDE DEF gone
                    <5> QED  BY <1>4, <3>2, <4>1, <4>2
                <4> QED  BY <4>1, <4>3 DEF Linked
            <3>4. CASE ~Linked(db, p, name)
                <4>1. ~Linkable(db, p, name)
                    BY <2>1, <3>2, <3>4
                <4>2. ~Linkable(db', p, name)
                    <5>1. \A q \in Paths : Defined(db', q) \subseteq Defined(db, q)
                        <6> HIDE DEF gone
                        <6> QED  BY <1>6
                    <5> QED  BY <4>1, <5>1 DEF Linkable, Definers
                <4>3. <<p, name>> \in Waiting(db)
                    <5>1. p \in Indexed(db) /\ db.rows[p] \in Row
                        BY <1>2, <3>1, <3>2 DEF Indexed, Database
                    <5>2. db.rows[p].parsed \in Contents \cup {Absent}
                        BY <5>1 DEF Row
                    <5>3. name \in RefsOf(db.rows[p].parsed) /\ name \in Names
                        BY <3>2, <5>1, <5>2, NamesOf DEF Refers
                    <5> QED  BY <3>4, <5>1, <5>3 DEF Waiting, Linked
                <4> QED  BY <1>3, <4>2, <4>3
            <3> QED  BY <3>3, <3>4
        <2> HIDE DEF gone, work, w
        <2> QED  BY <2>3, <2>4, <2>5, <2>6 DEF UnderWay, InHand, Honest, Indexed, Refers,
                                              Linked, Linkable, Definers, Defined
    <1>8. ~run'.kept => Complete(saved')
        BY <1>1, <1>3 DEF CompleteInv
    <1> HIDE DEF gone, work, w
    <1> QED  BY <1>3, <1>7, <1>8 DEF CompleteInv, Complete, Honest, Doubted, Indexed, Refers,
                                     Linked, Linkable, Definers, Defined

\* Taking a file in hand, or passing it over, changes neither rows nor lists; when it
\* commits, the run has to end well for the database to be complete.
LEMMA AdvanceComplete ==
    ASSUME IndexInv, CompleteInv, NEW p \in Paths, Take(p) \/ Skip(p)  PROVE CompleteInv'
    <1>1. run \in Run /\ run.pc = "next" /\ CommitDue \in BOOLEAN
        BY DEF IndexInv, TypeOK, Take, Skip, CommitDue
    <1>2. /\ db' = db
          /\ run'.pc \in {"next", "hash"} /\ run'.kept = (run.kept \/ CommitDue)
          /\ run'.batch = run.batch /\ run'.affected = run.affected
          /\ run'.found = run.found /\ run'.waiting = run.waiting
        <2>1. CASE Take(p)
            BY <1>1, <2>1 DEF Take, Advance, Run
        <2>2. CASE Skip(p)
            BY <1>1, <2>2 DEF Skip, Advance, Run
        <2> QED  BY <2>1, <2>2
    <1>3. saved' = IF CommitDue THEN db ELSE saved
        BY DEF Take, Skip, Advance
    <1>4. UnderWay => UnderWay'
        BY <1>1, <1>2 DEF UnderWay, InHand, Honest, Indexed, Refers, Linked, Linkable,
                          Definers, Defined
    <1>5. (Doubted(db) \/ UnderWay)'
        BY <1>1, <1>2, <1>4 DEF CompleteInv, Doubted
    <1>6. ~run'.kept => Complete(saved)'
        <2>1. ~run'.kept => saved' = saved /\ ~run.kept
            BY <1>1, <1>2, <1>3
        <2> QED  BY <2>1 DEF CompleteInv, Complete, Doubted, Honest, Indexed, Refers, Linked,
                             Linkable, Definers, Defined
    <1> QED  BY <1>2, <1>5, <1>6 DEF CompleteInv

\* A new row has no symbols and no references yet.
LEMMA HashComplete ==
    ASSUME IndexInv, CompleteInv, Hash  PROVE CompleteInv'
    <1> DEFINE row == [hash |-> disk[run.path], mtime |-> run.mtime, parsed |-> Absent]
    <1>1. /\ run.pc = "hash" /\ saved' = saved
          /\ db' = [db EXCEPT !.rows[run.path] = row]
          /\ run' = [run EXCEPT !.pc = "parse"]
        BY DEF Hash
    <1>2. run \in Run /\ db \in Database
        BY DEF IndexInv, TypeOK
    <1>3. run.path \in Paths /\ run.path \in run.batch /\ db.rows[run.path] = None
        BY <1>1, <1>2 DEF IndexInv, AtWork, Run
    <1>4. /\ db'.edges = db.edges /\ db'.causes = db.causes
          /\ \A q \in Paths : db'.rows[q] = IF q = run.path THEN row ELSE db.rows[q]
        <2> HIDE DEF row
        <2> QED  BY <1>1, <1>2, <1>3 DEF Database
    <1>5. /\ run'.pc = "parse" /\ run'.path = run.path /\ run'.kept = run.kept
          /\ run'.batch = run.batch /\ run'.affected = run.affected
          /\ run'.found = run.found /\ run'.waiting = run.waiting
        BY <1>1, <1>2 DEF Run
    <1>6. \A q \in Paths : Refers(db', q) = Refers(db, q) /\ Defined(db', q) = Defined(db, q)
        <2>1. row.parsed = Absent
            OBVIOUS
        <2> HIDE DEF row
        <2> QED  BY <1>3, <1>4, <2>1 DEF Refers, Defined, RefsOf, DefsOf
    <1>7. ASSUME UnderWay  PROVE UnderWay'
        <2>1. Indexed(db) \subseteq Indexed(db') \cup {run.path}
              /\ \A q \in Indexed(db') \ {run.path} : q \in Indexed(db) /\ db'.rows[q] = db.rows[q]
            <3> HIDE DEF row
            <3> QED  BY <1>4 DEF Indexed
        <2>2. Honest(db', {run.path})
            <3>1. \A e \in db.edges : e.from \in Paths
                BY <1>2 DEF Database, Edge
            <3> QED  BY <1>1, <1>4, <1>6, <1>7, <2>1, <3>1 DEF UnderWay, Honest, InHand
        <2>3. run'.found = {f \in Paths \X Names : f[1] \in run'.batch /\ f[2] \in Refers(db', f[1])}
            <3>1. run.found = {f \in Paths \X Names : f[1] \in run.batch /\ f[2] \in Refers(db, f[1])}
                BY <1>7 DEF UnderWay
            <3> QED  BY <1>5, <1>6, <3>1
        <2>4. run'.affected \subseteq Indexed(db') \ run'.batch
            BY <1>3, <1>5, <1>7, <2>1 DEF UnderWay
        <2>5. \A q \in Paths : \A name : /\ Linked(db', q, name) <=> Linked(db, q, name)
                                         /\ Linkable(db', q, name) <=> Linkable(db, q, name)
                                         /\ Definers(db', name) = Definers(db, name)
            BY <1>4, <1>6 DEF Linked, Linkable, Definers
        <2>6. \A q \in Paths \ (run'.batch \cup run'.affected) : \A name \in Refers(db', q) :
                 \/ Linked(db', q, name)
                 \/ /\ <<q, name>> \in run'.waiting
                    /\ Linkable(db', q, name) => Definers(db', name) \subseteq run'.batch
            BY <1>5, <1>6, <1>7, <2>5 DEF UnderWay
        <2>7. InHand' = {run.path}
            BY <1>5 DEF InHand
        <2> HIDE DEF row
        <2> QED  BY <2>2, <2>3, <2>4, <2>6, <2>7 DEF UnderWay, Honest, Indexed, Refers,
                                              Linked, Linkable, Definers, Defined
    <1>8. (Doubted(db) \/ UnderWay)'
        BY <1>1, <1>4, <1>7 DEF CompleteInv, Doubted
    <1>9. ~run'.kept => Complete(saved)'
        BY <1>1, <1>5 DEF CompleteInv, Complete, Doubted, Honest, Indexed, Refers, Linked,
                          Linkable, Definers, Defined
    <1> HIDE DEF row
    <1> QED  BY <1>5, <1>8, <1>9 DEF CompleteInv

\* The symbols of a parsed file are new definitions of a file of the batch, and its
\* references are at hand.
LEMMA ParseComplete ==
    ASSUME IndexInv, CompleteInv, NEW now \in Contents \cup {Absent}, Parse(now)
    PROVE  CompleteInv'
    <1> DEFINE row == [db.rows[run.path] EXCEPT !.parsed = now]
               why == IF now # disk[run.path] THEN db.causes \cup {"unread"}
                      ELSE IF now # db.rows[run.path].hash THEN db.causes \cup {"moved"}
                      ELSE db.causes
    <1>1. /\ run.pc = "parse" /\ saved' = saved
          /\ db' = [db EXCEPT !.rows[run.path] = row, !.causes = why]
          /\ run' = [run EXCEPT !.pc = "next", !.path = None,
                                !.found = @ \cup ({run.path} \X RefsOf(now))]
        BY DEF Parse
    <1>2. run \in Run /\ db \in Database /\ now \in Contents \cup {Absent} /\ None \notin Row
        <2>1. run \in Run /\ db \in Database /\ disk \in [Paths -> Contents \cup {Absent}]
            BY DEF IndexInv, TypeOK
        <2>2. run.path \in Paths
            BY <1>1, <2>1 DEF IndexInv, AtWork, Run
        <2> QED  BY <2>1, <2>2, IndexAssumption
    <1>3. /\ run.path \in Paths /\ run.path \in run.batch
          /\ db.rows[run.path] \in Row /\ db.rows[run.path].parsed = Absent
        BY <1>1, <1>2 DEF IndexInv, AtWork, Run
    <1>4. row \in Row /\ row.parsed = now /\ row.hash = db.rows[run.path].hash
        BY <1>2, <1>3 DEF Row
    <1>5. /\ db'.edges = db.edges /\ db'.causes = why
          /\ \A q \in Paths : db'.rows[q] = IF q = run.path THEN row ELSE db.rows[q]
        <2> HIDE DEF row, why
        <2> QED  BY <1>1, <1>2, <1>3 DEF Database
    <1>6. /\ run'.pc = "next" /\ run'.kept = run.kept
          /\ run'.batch = run.batch /\ run'.affected = run.affected
          /\ run'.found = run.found \cup ({run.path} \X RefsOf(now)) /\ run'.waiting = run.waiting
        <2> QED  BY <1>1, <1>2 DEF Run
    <1>7. RefsOf(now) \subseteq Names
        BY <1>2, NamesOf
    <1>8. /\ \A q \in Paths \ {run.path} : /\ Refers(db', q) = Refers(db, q)
                                           /\ Defined(db', q) = Defined(db, q)
          /\ Refers(db, run.path) = {} /\ Refers(db', run.path) = RefsOf(now)
        <2> HIDE DEF row
        <2> QED  BY <1>2, <1>3, <1>4, <1>5 DEF Refers, Defined, RefsOf
    <1>9. ASSUME ~Doubted(db'), UnderWay  PROVE UnderWay'
        <2>1. Indexed(db') = Indexed(db) /\ run.path \in Indexed(db)
            <3> HIDE DEF row
            <3> QED  BY <1>2, <1>3, <1>4, <1>5 DEF Indexed
        <2>2. Honest(db', {})
            <3>1. now = db.rows[run.path].hash
                BY <1>5, <1>9 DEF Doubted
            <3>2. \A q \in Indexed(db') : db'.rows[q].hash \in {Pending, db'.rows[q].parsed}
                <4>1. \A q \in Indexed(db) \ {run.path} : db.rows[q].hash \in {Pending, db.rows[q].parsed}
                    BY <1>1, <1>9 DEF UnderWay, Honest, InHand
                <4>2. row.hash = row.parsed
                    BY <1>4, <3>1
                <4> HIDE DEF row
                <4> QED  BY <1>5, <2>1, <4>1, <4>2 DEF Indexed
            <3>3. \A e \in db.edges : e.from \in Paths /\ e.from # run.path
                <4>1. \A e \in db.edges : e.from \in Paths
                    BY <1>2 DEF Database, Edge
                <4> QED  BY <1>1, <1>3, <4>1 DEF IndexInv, AtWork
            <3>4. \A e \in db.edges : e.name \in Refers(db, e.from)
                BY <1>9 DEF UnderWay, Honest
            <3> HIDE DEF row, why
            <3> QED  BY <1>5, <1>8, <3>2, <3>3, <3>4 DEF Honest
        <2>3. run'.found = {f \in Paths \X Names : f[1] \in run'.batch /\ f[2] \in Refers(db', f[1])}
            <3>1. run.found = {f \in Paths \X Names : f[1] \in run.batch /\ f[2] \in Refers(db, f[1])}
                BY <1>9 DEF UnderWay
            <3>2. \A f \in Paths \X Names :
                     f \in run'.found <=> f[1] \in run.batch /\ f[2] \in Refers(db', f[1])
                <4> SUFFICES ASSUME NEW q \in Paths, NEW name \in Names
                             PROVE  <<q, name>> \in run'.found
                                       <=> q \in run.batch /\ name \in Refers(db', q)
                    OBVIOUS
                <4>1. <<q, name>> \in run.found <=> q \in run.batch /\ name \in Refers(db, q)
                    BY <3>1
                <4>2. <<q, name>> \in {run.path} \X RefsOf(now) <=> q = run.path /\ name \in RefsOf(now)
                    OBVIOUS
                <4> QED  BY <1>3, <1>6, <1>8, <4>1, <4>2
            <3>3. run'.found \subseteq Paths \X Names
                <4> QED  BY <1>3, <1>6, <1>7, <3>1
            <3> QED  BY <1>6, <3>2, <3>3
        <2>4. run'.affected \subseteq Indexed(db') \ run'.batch
            BY <1>6, <1>9, <2>1 DEF UnderWay
        <2>5. ASSUME NEW q \in Paths, q \notin run.batch \cup run.affected, NEW name \in Refers(db', q)
              PROVE  \/ Linked(db', q, name)
                     \/ /\ <<q, name>> \in run'.waiting
                        /\ Linkable(db', q, name) => Definers(db', name) \subseteq run'.batch
            <3>1. q # run.path /\ name \in Refers(db, q)
                BY <1>3, <1>8, <2>5
            <3>2. \/ Linked(db, q, name)
                  \/ /\ <<q, name>> \in run.waiting
                     /\ Linkable(db, q, name) => Definers(db, name) \subseteq run.batch
                BY <1>9, <2>5, <3>1 DEF UnderWay
            <3>3. Linked(db', q, name) <=> Linked(db, q, name)
                BY <1>5 DEF Linked
            <3>4. Definers(db', name) \subseteq Definers(db, name) \cup {run.path}
                BY <1>8 DEF Definers
            <3>5. Linkable(db', q, name) /\ Definers(db, name) # {} => Linkable(db, q, name)
                BY <1>8, <3>1 DEF Linkable
            <3> QED  BY <1>3, <1>6, <3>2, <3>3, <3>4, <3>5
        <2>6. InHand' = {}
            BY <1>6 DEF InHand
        <2> HIDE DEF row, why
        <2> QED  BY <1>6, <2>2, <2>3, <2>4, <2>5, <2>6 DEF UnderWay, Honest, Indexed, Refers,
                                              Linked, Linkable, Definers, Defined
    <1>10. (Doubted(db) \/ UnderWay)'
        <2>1. ~Doubted(db') => ~Doubted(db)
            BY <1>5 DEF Doubted
        <2> QED  BY <1>1, <1>9, <2>1 DEF CompleteInv, Doubted
    <1>11. ~run'.kept => Complete(saved)'
        BY <1>1, <1>6 DEF CompleteInv, Complete, Doubted, Honest, Indexed, Refers, Linked,
                          Linkable, Definers, Defined
    <1> HIDE DEF row, why
    <1> QED  BY <1>6, <1>10, <1>11 DEF CompleteInv

\* Resolution leaves exactly one edge for each reference that has somewhere to lead to.
LEMMA ResolutionComplete ==
    ASSUME NEW d \in Database, NEW found \in SUBSET (Paths \X Names),
           NEW new \in Resolutions(d, found)
    PROVE  /\ \A e \in new : <<e.from, e.name>> \in found
           /\ \A f \in found : Linkable(d, f[1], f[2]) =>
                 \E e \in new : e.from = f[1] /\ e.name = f[2]
    <1>1. PICK choice \in [Resolvable(d, found) -> Paths] :
             new = { [from |-> f[1], name |-> f[2], to |-> choice[f]] : f \in Resolvable(d, found) }
        BY DEF Resolutions
    <1>2. ASSUME NEW e \in new  PROVE <<e.from, e.name>> \in found
        <2>1. PICK f \in Resolvable(d, found) :
                 e = [from |-> f[1], name |-> f[2], to |-> choice[f]]
            BY <1>1
        <2>2. f \in found /\ f = <<f[1], f[2]>>
            BY DEF Resolvable
        <2>3. e.from = f[1] /\ e.name = f[2]
            BY <2>1
        <2> QED  BY <2>2, <2>3
    <1>3. ASSUME NEW f \in found, Linkable(d, f[1], f[2])
          PROVE  \E e \in new : e.from = f[1] /\ e.name = f[2]
        <2> DEFINE e == [from |-> f[1], name |-> f[2], to |-> choice[f]]
        <2>1. f \in Resolvable(d, found)
            BY <1>3 DEF Linkable, Resolvable
        <2>2. e \in new /\ e.from = f[1] /\ e.name = f[2]
            BY <1>1, <2>1
        <2> HIDE DEF e
        <2> QED  BY <2>2
    <1> QED  BY <1>2, <1>3

\* The references at hand and those of the affected files become edges; what any other
\* file was waiting for is still not there, or it is an arrival.
LEMMA ResolveComplete ==
    ASSUME IndexInv, CompleteInv, NEW unread \in SUBSET Paths, Resolve(unread)
    PROVE  CompleteInv'
    <1> DEFINE again == UNION { {p} \X RefsOf(disk[p]) : p \in run.affected \ unread }
               w == WithoutEdgesFrom(db, run.affected)
               why(d) == d.causes \cup (IF Arrivals THEN {"arrival"} ELSE {})
                                  \cup (IF Moved THEN {"moved"} ELSE {})
                                  \cup (IF unread # {} THEN {"unread"} ELSE {})
    <1>1. run \in Run /\ db \in Database /\ disk \in [Paths -> Contents \cup {Absent}]
        BY DEF IndexInv, TypeOK
    <1>2. run.affected \in SUBSET Paths /\ run.found \in SUBSET (Paths \X Names)
        BY <1>1 DEF Run
    <1>3. /\ \A p \in Paths : \A name : <<p, name>> \in again
                                       <=> p \in run.affected \ unread /\ name \in RefsOf(disk[p])
          /\ again \in SUBSET (Paths \X Names)
        <2>1. \A p \in run.affected : p \in Paths /\ RefsOf(disk[p]) \subseteq Names
            BY <1>1, <1>2, NamesOf
        <2> QED  BY <2>1
    <1>4. PICK new \in Resolutions(db, run.found \cup again) :
             db' = [WithEdges(w, new) EXCEPT !.causes = why(WithEdges(w, new))]
        BY DEF Resolve
    <1>5. /\ new \in SUBSET Edge
          /\ \A e \in new : <<e.from, e.name>> \in run.found \cup again
          /\ \A f \in run.found \cup again : Linkable(db, f[1], f[2]) =>
                \E e \in new : e.from = f[1] /\ e.name = f[2]
        <2>1. run.found \cup again \in SUBSET (Paths \X Names)
            BY <1>2, <1>3
        <2> HIDE DEF again
        <2> QED  BY <1>1, <2>1, ResolutionFacts, ResolutionComplete
    <1>6. /\ run.pc = "next" /\ run' = [run EXCEPT !.pc = "resolved"] /\ saved' = saved
        BY DEF Resolve
    <1>7. run'.pc = "resolved" /\ run'.kept = run.kept
        BY <1>1, <1>6 DEF Run
    <1>8. /\ w.rows = db.rows /\ w.causes = db.causes /\ w \in Database
          /\ w.edges = {e \in db.edges : e.from \notin run.affected}
        BY <1>1 DEF WithoutEdgesFrom, Database
    <1>9. /\ db'.rows = db.rows
          /\ db'.edges = {e \in db.edges : e.from \notin run.affected} \cup new
          /\ db'.causes = why(db)
        <2>1. /\ WithEdges(w, new).rows = w.rows /\ WithEdges(w, new).causes = w.causes
              /\ WithEdges(w, new).edges = w.edges \cup new /\ WithEdges(w, new) \in Database
            <3> HIDE DEF w
            <3> QED  BY <1>5, <1>8 DEF WithEdges, Database
        <2>2. why(WithEdges(w, new)) = why(db)
            <3> HIDE DEF w
            <3> QED  BY <1>8, <2>1
        <2> DEFINE x == WithEdges(w, new)
        <2> HIDE DEF x, w, why
        <2>3. x \in Database /\ db' = [x EXCEPT !.causes = why(db)]
            BY <1>4, <2>1, <2>2 DEF x
        <2>4. db'.rows = x.rows /\ db'.edges = x.edges /\ db'.causes = why(db)
            BY <2>3 DEF Database
        <2> QED  BY <1>8, <2>1, <2>4 DEF x
    <1>10. /\ \A p : Refers(db', p) = Refers(db, p) /\ Defined(db', p) = Defined(db, p)
           /\ \A p, name : Linkable(db', p, name) <=> Linkable(db, p, name)
        BY <1>9 DEF Refers, Defined, Linkable, Definers
    <1>11. ASSUME ~Doubted(db')  PROVE Complete(db')
        <2>1. ~Doubted(db) /\ ~Arrivals /\ ~Moved /\ unread = {}
            BY <1>9, <1>11 DEF Doubted
        <2>2. UnderWay /\ InHand = {}
            BY <1>6, <2>1 DEF CompleteInv, InHand
        <2>3. \A p \in run.affected : p \in Indexed(db) /\ Refers(db, p) = RefsOf(disk[p])
            BY <2>1, <2>2 DEF UnderWay, Moved, Refers, Indexed
        <2>4. \A p \in Paths, name \in Names :
                 <<p, name>> \in run.found \cup again
                    <=> p \in run.batch \cup run.affected /\ name \in Refers(db, p)
            <3>1. run.found = {f \in Paths \X Names : f[1] \in run.batch /\ f[2] \in Refers(db, f[1])}
                BY <2>2 DEF UnderWay
            <3>2. \A p \in Paths, name \in Names :
                     <<p, name>> \in run.found <=> p \in run.batch /\ name \in Refers(db, p)
                BY <3>1
            <3> HIDE DEF again
            <3> QED  BY <1>3, <2>1, <2>3, <3>2
        <2>5. Honest(db', {})
            <3>1. \A e \in db.edges : e.name \in Refers(db, e.from)
                BY <2>2 DEF UnderWay, Honest
            <3>2. \A e \in new : e.name \in Refers(db, e.from)
                <4>1. \A e \in new : e.from \in Paths /\ e.name \in Names
                    BY <1>5 DEF Edge
                <4> HIDE DEF again
                <4> QED  BY <1>5, <2>4, <4>1
            <3>3. \A p \in Indexed(db) : db.rows[p].hash \in {Pending, db.rows[p].parsed}
                BY <2>2 DEF UnderWay, Honest
            <3> QED  BY <1>9, <1>10, <3>1, <3>2, <3>3 DEF Honest, Indexed
        <2>6. ASSUME NEW p \in Paths, NEW name \in Refers(db, p), Linkable(db, p, name)
              PROVE  Linked(db', p, name)
            <3>1. name \in Names
                <4>1. db.rows[p] # None /\ db.rows[p] \in Row \cup {None}
                    BY <1>1, <2>6 DEF Refers, Database
                <4>2. db.rows[p].parsed \in Contents \cup {Absent}
                    BY <4>1 DEF Row
                <4> QED  BY <2>6, <4>1, <4>2, NamesOf DEF Refers
            <3>2. CASE p \in run.batch \cup run.affected
                <4>1. <<p, name>> \in run.found \cup again
                    BY <2>4, <2>6, <3>1, <3>2
                <4>2. \E e \in new : e.from = p /\ e.name = name
                    <5> HIDE DEF again
                    <5> QED  BY <1>5, <2>6, <4>1
                <4> QED  BY <1>9, <4>2 DEF Linked
            <3>3. CASE p \notin run.batch \cup run.affected
                <4>1. CASE Linked(db, p, name)
                    BY <1>9, <3>3, <4>1 DEF Linked
                <4>2. CASE ~Linked(db, p, name)
                    <5>1. <<p, name>> \in run.waiting /\ Definers(db, name) \subseteq run.batch
                        BY <2>2, <2>6, <3>3, <4>2 DEF UnderWay
                    <5>2. PICK q \in Definers(db, name) : TRUE
                        BY <2>6 DEF Linkable
                    <5>3. q \in run.batch /\ name \in Defined(db, q)
                        BY <5>1 DEF Definers
                    <5> QED  BY <2>1, <3>3, <5>1, <5>3 DEF Arrivals
                <4> QED  BY <4>1, <4>2
            <3> QED  BY <3>2, <3>3
        <2> QED  BY <1>10, <2>5, <2>6 DEF Complete
    <1>12. Complete(db')
        BY <1>11 DEF Complete
    <1>13. ~run'.kept => Complete(saved')
        BY <1>6, <1>7 DEF CompleteInv
    <1> HIDE DEF w, again, why
    <1> QED  BY <1>7, <1>12, <1>13 DEF CompleteInv, Complete, Doubted, Honest, Indexed, Refers,
                                      Linked, Linkable, Definers, Defined

\* Metrics and marks carry everything over; a run that is cut after a commit leaves its
\* mark on the causes, and one that is cut before leaves what it found.
LEMMA EndComplete ==
    ASSUME IndexInv, CompleteInv, Finish \/ RollBack  PROVE CompleteInv'
    <1>1. Idle.pc = "idle" /\ ~Idle.kept
        BY DEF Idle
    <1>2. CASE Finish
        <2> DEFINE ps == run.batch \cap Indexed(db)
                   marked == Marked(db, ps)
        <2>1. /\ run.pc = "resolved" /\ saved' = db' /\ run' = Idle
              /\ \/ db' = [marked EXCEPT !.signed = None]
                 \/ db' \in Measured(db) \/ (memo # None /\ db' = Recalled(db))
            BY <1>2 DEF Finish
        <2>2. /\ db \in Database /\ Sane(db) /\ Current(db, {}) /\ TypeOK /\ Clock
              /\ Complete(db)
            BY <2>1 DEF IndexInv, TypeOK, Current, Reads, Told, InHand, CompleteInv
        <2>3. db' \in Database /\ Carries(db', db)
            <3>1. CASE db' = [marked EXCEPT !.signed = None]
                <4>1. ps \in SUBSET Indexed(db)
                    OBVIOUS
                <4>2. marked \in Database /\ Carries(marked, db)
                    <5> HIDE DEF ps
                    <5> QED  BY <2>2, <4>1, MarkedFacts
                <4> HIDE DEF marked
                <4>3. /\ db' \in Database /\ db'.rows = marked.rows /\ db'.edges = marked.edges
                      /\ db'.causes = marked.causes
                    BY <3>1, <4>2 DEF Database
                <4> QED  BY <4>2, <4>3 DEF Carries
            <3>2. CASE db' \in Measured(db) \/ (memo # None /\ db' = Recalled(db))
                <4>1. /\ db' \in Database /\ db'.rows = db.rows /\ db'.edges = db.edges
                      /\ db.causes \subseteq db'.causes
                    BY <2>2, <3>2, MeasuredFacts DEF TypeOK
                <4> QED  BY <4>1 DEF Carries
            <3> QED  BY <2>1, <3>1, <3>2
        <2>4. Complete(db')
            BY <2>2, <2>3, CompleteCarried
        <2> HIDE DEF marked, ps
        <2> QED  BY <1>1, <2>1, <2>4 DEF CompleteInv, Complete, Doubted, Honest, Indexed, Refers,
                                        Linked, Linkable, Definers, Defined
    <1>3. CASE RollBack
        <2> DEFINE why == IF run.kept THEN saved.causes \cup {"cut"} ELSE saved.causes
        <2>1. saved' = [saved EXCEPT !.causes = why] /\ db' = saved' /\ run' = Idle
            BY <1>3 DEF RollBack
        <2>2. saved \in Database /\ why \in SUBSET Causes
            BY DEF IndexInv, TypeOK, Database, Causes
        <2>3. /\ saved' \in Database /\ saved'.rows = saved.rows /\ saved'.edges = saved.edges
              /\ saved'.causes = why
            <3> HIDE DEF why
            <3> QED  BY <2>1, <2>2 DEF Database
        <2>4. Complete(saved')
            <3>1. CASE run.kept
                BY <2>3, <3>1 DEF Complete, Doubted
            <3>2. CASE ~run.kept
                <4>1. Carries(saved', saved) /\ Complete(saved)
                    BY <2>3, <3>2 DEF Carries, CompleteInv
                <4> QED  BY <2>2, <2>3, <4>1, CompleteCarried
            <3> QED  BY <3>1, <3>2
        <2> HIDE DEF why
        <2> QED  BY <1>1, <2>1, <2>4 DEF CompleteInv, Complete, Doubted, Honest, Indexed, Refers,
                                        Linked, Linkable, Definers, Defined
    <1> QED  BY <1>2, <1>3

LEMMA StepComplete == IndexInv /\ CompleteInv /\ [Next]_vars => CompleteInv'
    <1> SUFFICES ASSUME IndexInv, CompleteInv, [Next]_vars  PROVE CompleteInv'
        OBVIOUS
    <1>1. ASSUME saved' = saved  PROVE Complete(saved)' <=> Complete(saved)
        BY <1>1 DEF Complete, Doubted, Honest, Indexed, Refers, Linked, Linkable, Definers, Defined
    <1>2. ASSUME db' = db  PROVE Complete(db)' <=> Complete(db)
        BY <1>2 DEF Complete, Doubted, Honest, Indexed, Refers, Linked, Linkable, Definers, Defined
    <1>3. CASE UNCHANGED <<saved, db, run>>
        <2>1. UnderWay => UnderWay'
            BY <1>3 DEF UnderWay, InHand, Honest, Indexed, Refers, Linked, Linkable,
                        Definers, Defined
        <2>2. Doubted(db) => Doubted(db)'
            BY <1>3 DEF Doubted
        <2> QED  BY <1>1, <1>2, <1>3, <2>1, <2>2 DEF CompleteInv
    <1>4. CASE NothingToDo \/ \E light \in BOOLEAN : Start(light)
        <2>1. /\ saved' = saved /\ db' = db
              /\ run.pc \in {"idle", "detect"} /\ run'.pc \in {"idle", "detect"} /\ ~run.kept
            <3>1. CASE NothingToDo
                BY <3>1 DEF NothingToDo, Idle, IndexInv, AtWork
            <3>2. ASSUME NEW light \in BOOLEAN, Start(light)
                  PROVE  /\ saved' = saved /\ db' = db /\ run.pc = "idle" /\ run'.pc = "detect"
                         /\ ~run.kept
                BY <3>2 DEF Start, IndexInv, TypeOK, AtWork, Run
            <3> QED  BY <1>4, <3>1, <3>2
        <2> QED  BY <1>1, <1>2, <2>1 DEF CompleteInv
    <1>5. CASE Rebuild
        <2>1. /\ saved' = Empty /\ db' = Empty /\ run'.pc = "detect"
            BY <1>5 DEF Rebuild, IndexInv, TypeOK, Run
        <2>2. \A p \in Paths : Empty.rows[p] = None
            BY DEF Empty
        <2>3. Complete(saved)'
            BY <2>1, <2>2, EmptyFacts DEF Complete, Honest, Indexed, Refers, Linked, Linkable,
                                         Definers, Defined
        <2> QED  BY <2>1, <2>3 DEF CompleteInv
    <1>6. CASE Commit
        <2>1. /\ db' = db /\ run'.pc = "resolved" /\ run'.kept
            BY <1>6 DEF Commit, IndexInv, TypeOK, Run
        <2>2. Complete(db)
            BY <1>6 DEF Commit, CompleteInv
        <2> QED  BY <1>2, <2>1, <2>2 DEF CompleteInv
    <1>7. CASE Stop \/ Unhashed
        BY <1>7, EndComplete DEF Stop, Unhashed
    <1>8. ASSUME NEW p \in Paths, NEW content \in Contents \cup {Absent},
           NEW time \in {edits + 2, stamp[p]}, Edit(p, content, time)
          PROVE  UNCHANGED <<saved, db, run>>
        BY <1>8 DEF Edit
    <1> QED  BY <1>3, <1>4, <1>5, <1>6, <1>7, <1>8, DetectComplete, AdvanceComplete,
                HashComplete, ParseComplete, ResolveComplete, EndComplete DEF Next, vars

LEMMA AlwaysComplete == Spec => []CompleteInv
    <1>1. Init => CompleteInv
        <2>1. \A p \in Paths : Empty.rows[p] = None
            BY DEF Empty
        <2>2. Idle.pc = "idle"
            BY DEF Idle
        <2> QED  BY <2>1, <2>2, EmptyFacts DEF Init, CompleteInv, Complete, Honest, Refers
    <1> QED  BY <1>1, StepComplete, AlwaysInv, PTL DEF Spec

-----------------------------------------------------------------------------
(* What a run decides about files that are not edited meanwhile *)

\* A decision stands while the row, the file and the batch stay as they are, and
\* the file has not come out of the todo list but to be in hand.
LEMMA DecisionStands ==
    ASSUME NEW p \in Paths, Decided(p), disk'[p] = disk[p], stamp'[p] = stamp[p],
           db'.rows[p] = db.rows[p], run'.batch = run.batch,
           \/ p \notin run.batch
           \/ p \in run.todo /\ p \in run'.todo
           \/ p \notin run.todo /\ ~(run.pc = "hash" /\ p = run.path)
           \/ run'.pc = "hash" /\ p = run'.path
    PROVE  Decided(p)'
    <1>1. CASE p \notin run.batch
        BY <1>1 DEF Decided, Changed, Added, Removed, Modified, Indexed
    <1>2. CASE p \in run.batch
        BY <1>2 DEF Decided
    <1> QED  BY <1>1, <1>2

\* Files to process exist and have no row; every other file is as its row says, or
\* loses its row because it is gone.
LEMMA DetectDecides ==
    ASSUME IndexInv, NEW unread \in SUBSET Paths, Detect(unread)  PROVE RunDecides'
    <1> DEFINE gone == Removed(db, unread) \cup Modified(db, unread)
               work == Work(db, unread)
               w == WithoutRows(db, gone)
    <1>1. db \in Database /\ Sane(db) /\ run \in Run /\ edits \in Nat
        BY DEF IndexInv, TypeOK
    <1>2. gone \in SUBSET Paths
        BY DEF Removed, Modified, Indexed
    <1>3. w \in Database /\ \A p \in Paths : w.rows[p] = IF p \in gone THEN None ELSE db.rows[p]
        <2> HIDE DEF gone
        <2> QED  BY <1>1, <1>2, WithoutRowsFacts
    <1>4. /\ db' = [w EXCEPT !.fresh = FALSE]
          /\ run' = [run EXCEPT !.pc = "next", !.batch = work, !.todo = work,
                                !.affected = Affected(db, gone), !.waiting = Waiting(db),
                                !.since = edits, !.missed = unread]
          /\ UNCHANGED tree
        BY DEF Detect
    <1>5. \A p \in Paths : db'.rows[p] = IF p \in gone THEN None ELSE db.rows[p]
        <2> HIDE DEF gone, w
        <2> QED  BY <1>3, <1>4 DEF Database
    <1>6. run'.pc = "next" /\ run'.batch = work /\ run'.todo = work /\ run'.since = edits
          /\ run'.missed = unread
        <2> HIDE DEF gone, work
        <2> QED  BY <1>1, <1>4 DEF Run
    <1>7. ASSUME NEW p \in Paths, Untouched(p)'  PROVE Decided(p)'
        <2>1. disk' = disk /\ stamp' = stamp /\ p \notin unread
            BY <1>4, <1>6, <1>7 DEF tree, Untouched
        <2>2. CASE p \in work
            <3>1. disk[p] # Absent
                BY <2>2 DEF Work, Added, Modified, Removed, Indexed
            <3> HIDE DEF work
            <3> QED  BY <1>6, <2>1, <2>2, <3>1 DEF Decided
        <2>3. CASE p \notin work
            <3>1. p \notin gone => db'.rows[p] = db.rows[p]
                BY <1>5
            <3>2. p \in gone => db'.rows[p] = None /\ disk[p] = Absent
                <4>1. p \in gone => disk[p] = Absent
                    BY <2>1, <2>3 DEF Work, Removed, Modified, Indexed
                <4> HIDE DEF gone
                <4> QED  BY <1>5, <4>1
            <3>3. p \notin Added(db) \cup Modified(db, {})
                BY <2>1, <2>3 DEF Work, Modified, Removed
            <3>4. p \notin Changed(db, {})'
                BY <2>1, <3>1, <3>2, <3>3 DEF Changed, Added, Removed, Modified, Indexed
            <3>5. p \notin run'.batch
                BY <1>6, <2>3
            <3> QED  BY <3>4, <3>5 DEF Decided
        <2> QED  BY <2>2, <2>3
    <1>8. edits' = edits
        BY <1>4 DEF tree
    <1> QED  BY <1>1, <1>6, <1>7, <1>8 DEF RunDecides

\* A file that is passed over is one the run could not read.
LEMMA AdvanceDecides ==
    ASSUME IndexInv, RunDecides, NEW p \in Paths, Take(p) \/ Skip(p)  PROVE RunDecides'
    <1>1. /\ run.pc = "next" /\ p \in run.todo /\ p \in run.batch
          /\ disk' = disk /\ stamp' = stamp /\ last' = last /\ edits' = edits /\ db' = db
        BY DEF Take, Skip, IndexInv, AtWork, tree
    <1>2. run \in Run /\ CommitDue \in BOOLEAN
        BY DEF IndexInv, TypeOK, CommitDue
    <1>3. /\ run'.batch = run.batch /\ run'.todo = run.todo \ {p} /\ run'.since = run.since
          /\ run'.pc \in {"next", "hash"}
          /\ Take(p) => run'.pc = "hash" /\ run'.path = p /\ run'.missed = run.missed
          /\ ~Take(p) => run'.missed = run.missed \cup {p}
        <2>1. CASE Take(p)
            BY <1>2, <2>1 DEF Take, Advance, Run
        <2>2. CASE Skip(p) /\ ~Take(p)
            BY <1>1, <1>2, <2>2 DEF Skip, Advance, Run
        <2> QED  BY <2>1, <2>2
    <1>4. ASSUME NEW q \in Paths, Untouched(q)'  PROVE Decided(q)'
        <2>1. Decided(q)
            BY <1>1, <1>3, <1>4 DEF RunDecides, Untouched
        <2>2. q # p \/ Take(p)
            BY <1>3, <1>4 DEF Untouched
        <2> QED  BY <1>1, <1>3, <2>1, <2>2, DecisionStands
    <1> QED  BY <1>1, <1>3, <1>4 DEF RunDecides

\* The row that is inserted has the hash of what the file contains.
LEMMA HashDecides ==
    ASSUME IndexInv, RunDecides, Hash  PROVE RunDecides'
    <1> DEFINE row == [hash |-> disk[run.path], mtime |-> run.mtime, parsed |-> Absent]
    <1>1. /\ run.pc = "hash" /\ disk[run.path] # Absent
          /\ db' = [db EXCEPT !.rows[run.path] = row]
          /\ run' = [run EXCEPT !.pc = "parse"]
          /\ disk' = disk /\ stamp' = stamp /\ last' = last /\ edits' = edits
        BY DEF Hash, tree
    <1>2. run \in Run /\ db \in Database /\ disk \in [Paths -> Contents \cup {Absent}]
        BY DEF IndexInv, TypeOK
    <1>3. run.path \in Paths /\ run.path \in run.batch
        BY <1>1, <1>2 DEF IndexInv, AtWork, Run
    <1>4. /\ run'.pc = "parse" /\ run'.batch = run.batch /\ run'.todo = run.todo
          /\ run'.path = run.path /\ run'.since = run.since
          /\ run'.missed = run.missed
        BY <1>1, <1>2 DEF Run
    <1>5. \A p \in Paths : db'.rows[p] = IF p = run.path THEN row ELSE db.rows[p]
        <2> HIDE DEF row
        <2> QED  BY <1>1, <1>2, <1>3 DEF Database
    <1>6. row.hash = disk[run.path] /\ row # None
        <2>1. run.mtime \in Nat /\ disk[run.path] \in Contents
            BY <1>1, <1>2, <1>3 DEF Run
        <2>2. row \in Row
            BY <2>1 DEF Row
        <2>3. None \notin Row
            BY IndexAssumption
        <2> QED  BY <2>2, <2>3
    <1> HIDE DEF row
    <1>7. ASSUME NEW p \in Paths, Untouched(p)'  PROVE Decided(p)'
        <2>1. Decided(p)
            BY <1>1, <1>4, <1>7 DEF RunDecides, Untouched
        <2>2. CASE p = run.path
            BY <1>1, <1>3, <1>4, <1>5, <1>6, <2>2 DEF Decided
        <2>3. CASE p # run.path
            BY <1>1, <1>4, <1>5, <2>1, <2>3, DecisionStands
        <2> QED  BY <2>2, <2>3
    <1> QED  BY <1>1, <1>4, <1>7 DEF RunDecides

\* Storing the symbols leaves the hash.
LEMMA ParseDecides ==
    ASSUME IndexInv, RunDecides, NEW now \in Contents \cup {Absent}, Parse(now)
    PROVE  RunDecides'
    <1> DEFINE row == [db.rows[run.path] EXCEPT !.parsed = now]
    <1>1. /\ run.pc = "parse"
          /\ \E why : db' = [db EXCEPT !.rows[run.path] = row, !.causes = why]
          /\ \E found : run' = [run EXCEPT !.pc = "next", !.path = None, !.found = found]
          /\ disk' = disk /\ stamp' = stamp /\ last' = last /\ edits' = edits
        BY DEF Parse, tree
    <1>2. run \in Run /\ db \in Database
        BY DEF IndexInv, TypeOK
    <1>3. /\ run.path \in Paths /\ run.path \in run.batch /\ run.path \notin run.todo
          /\ db.rows[run.path] \in Row
        BY <1>1, <1>2 DEF IndexInv, AtWork, Run
    <1>4. /\ run'.pc = "next" /\ run'.batch = run.batch /\ run'.todo = run.todo
          /\ run'.since = run.since
          /\ run'.missed = run.missed
        BY <1>1, <1>2 DEF Run
    <1>5. \A p \in Paths : db'.rows[p] = IF p = run.path THEN row ELSE db.rows[p]
        <2> HIDE DEF row
        <2> QED  BY <1>1, <1>2, <1>3 DEF Database
    <1>6. row \in Row => row # None
        BY IndexAssumption
    <1>7. row.hash = db.rows[run.path].hash
        BY <1>3 DEF Row
    <1>8. ASSUME NEW p \in Paths, Untouched(p)'  PROVE Decided(p)'
        <2>1. Decided(p)
            BY <1>1, <1>4, <1>8 DEF RunDecides, Untouched
        <2>2. CASE p = run.path
            <3>1. db.rows[p].hash = disk[p] /\ disk[p] # Absent
                BY <1>1, <1>3, <2>1, <2>2 DEF Decided
            <3>3. row \in Row
                BY <1>3 DEF Row
            <3> HIDE DEF row
            <3> QED  BY <1>1, <1>3, <1>4, <1>5, <1>6, <1>7, <2>2, <3>1, <3>3 DEF Decided
        <2>3. CASE p # run.path
            BY <1>1, <1>4, <1>5, <2>1, <2>3, DecisionStands
        <2> QED  BY <2>2, <2>3
    <1> QED  BY <1>1, <1>4, <1>8 DEF RunDecides

\* References, edges and commits leave rows and lists alone.
LEMMA EndDecides ==
    ASSUME IndexInv, RunDecides,
           Commit \/ \E unread \in SUBSET Paths : Resolve(unread)
    PROVE  RunDecides'
    <1>1. run \in Run /\ db \in Database
        BY DEF IndexInv, TypeOK
    <1> DEFINE resolve == \E unread \in SUBSET Paths : Resolve(unread)
    <1>2. /\ disk' = disk /\ stamp' = stamp /\ last' = last /\ edits' = edits
          /\ run.pc \in {"next", "resolved"} /\ run'.pc = "resolved"
          /\ run.todo = {} /\ run'.todo = {} /\ run'.batch = run.batch /\ run'.since = run.since
          /\ run'.missed = run.missed
        <2>1. CASE resolve
            BY <1>1, <2>1 DEF Resolve, Run, tree
        <2>2. CASE Commit
            BY <1>1, <2>2 DEF Commit, RunDecides, Run, tree
        <2> QED  BY <2>1, <2>2
    <1>3. db'.rows = db.rows
        <2>1. CASE resolve
            <3>1. \E new, why :
                     db' = [WithEdges(WithoutEdgesFrom(db, run.affected), new) EXCEPT !.causes = why]
                BY <2>1 DEF Resolve
            <3> QED  BY <1>1, <3>1 DEF WithEdges, WithoutEdgesFrom, Database
        <2>2. CASE Commit
            BY <2>2 DEF Commit
        <2> QED  BY <2>1, <2>2
    <1>4. ASSUME NEW p \in Paths, Untouched(p)'  PROVE Decided(p)'
        <2>1. Decided(p)
            BY <1>2, <1>4 DEF RunDecides, Untouched
        <2> QED  BY <1>2, <1>3, <2>1, DecisionStands
    <1> QED  BY <1>2, <1>4 DEF RunDecides

\* An edit takes its file out of what the run answers for.
LEMMA EditDecides ==
    ASSUME IndexInv, RunDecides, NEW p \in Paths, NEW content \in Contents \cup {Absent},
           NEW time \in {edits + 2, stamp[p]}, Edit(p, content, time)
    PROVE  RunDecides'
    <1>1. /\ disk' = [disk EXCEPT ![p] = content] /\ edits' = edits + 1
          /\ stamp' = [stamp EXCEPT ![p] = time] /\ last' = [last EXCEPT ![p] = edits + 2]
          /\ db' = db /\ run' = run
        BY DEF Edit
    <1>2. /\ edits \in Nat /\ run.since \in Nat
          /\ disk \in [Paths -> Contents \cup {Absent}] /\ stamp \in [Paths -> Nat]
          /\ last \in [Paths -> Nat]
        BY DEF IndexInv, TypeOK, Run
    <1>3. SUFFICES ASSUME run.pc \in {"next", "hash", "parse", "resolved"}
                   PROVE  RunDecides'
        BY <1>1 DEF RunDecides
    <1>4. ASSUME NEW q \in Paths, Untouched(q)'  PROVE Decided(q)'
        <2>1. q # p
            BY <1>1, <1>2, <1>3, <1>4 DEF RunDecides, Untouched
        <2>2. disk'[q] = disk[q] /\ stamp'[q] = stamp[q] /\ last'[q] = last[q]
            BY <1>1, <1>2, <2>1
        <2>3. Decided(q)
            BY <1>1, <1>3, <1>4, <2>2 DEF RunDecides, Untouched
        <2> QED  BY <1>1, <2>2, <2>3 DEF Decided, Changed, Added, Removed, Modified, Indexed
    <1> QED  BY <1>1, <1>2, <1>3, <1>4 DEF RunDecides

LEMMA StepDecides == IndexInv /\ RunDecides /\ [Next]_vars => RunDecides'
    <1> SUFFICES ASSUME IndexInv, RunDecides, [Next]_vars  PROVE RunDecides'
        OBVIOUS
    <1>1. CASE UNCHANGED vars
        BY <1>1 DEF RunDecides, Untouched, Decided, Changed, Added, Removed, Modified, Indexed, vars
    <1>2. CASE NothingToDo \/ Finish \/ Stop \/ Unhashed
        <2>1. run' = Idle
            BY <1>2 DEF NothingToDo, Finish, Stop, Unhashed, RollBack
        <2> QED  BY <2>1 DEF RunDecides, Idle
    <1>3. CASE Rebuild \/ \E light \in BOOLEAN : Start(light)
        <2>1. run'.pc = "detect"
            BY <1>3 DEF Rebuild, Start, IndexInv, TypeOK, Run
        <2> QED  BY <2>1 DEF RunDecides
    <1> QED  BY <1>1, <1>2, <1>3, DetectDecides, AdvanceDecides, HashDecides, ParseDecides,
                EndDecides, EditDecides DEF Next

LEMMA AlwaysDecides == Spec => []RunDecides
    <1>1. Init => RunDecides
        BY DEF Init, Idle, RunDecides
    <1> QED  BY <1>1, StepDecides, AlwaysInv, PTL DEF Spec

-----------------------------------------------------------------------------
(* The theorems *)

\* Rows, edges and the run's own lists stay what their declarations say: the row of
\* the file in hand is there when its symbols are stored (indexer.py:1472-1490).
THEOREM TypeCorrect == Spec => []TypeOK
    <1>1. IndexInv => TypeOK
        BY DEF IndexInv
    <1> QED  BY <1>1, AlwaysInv, PTL

\* The fast path of get_index_changed_files passes over no changed file, whatever is
\* edited between the reads of time, hash and symbols, whichever of them fail, and
\* whenever runs die; but for an edit within a millisecond of the time it knows
\* (incremental.py:62), and for files whose symbols could not be read (indexer.py:1475).
THEOREM FastPathSoundHolds == Spec => []FastPathSound
    <1>1. IndexInv => FastPathSound
        BY DEF IndexInv, Current, Reads, Told, FastPathSound
    <1> QED  BY <1>1, AlwaysInv, PTL

\* No committed edge hangs in the air, not even between two commits of a run.
THEOREM EdgesJoinSymbolsHolds == Spec => []EdgesJoinSymbols
    <1>1. IndexInv => EdgesJoinSymbols
        BY DEF IndexInv, Sane, EdgesJoinSymbols
    <1> QED  BY <1>1, AlwaysInv, PTL

\* Re-extracting the neighbours of changed files stores no reference twice.
THEOREM EdgesUniqueHolds == Spec => []EdgesUnique
    <1>1. IndexInv => EdgesUnique
        BY DEF IndexInv, Sane, EdgesUnique
    <1> QED  BY <1>1, AlwaysInv, PTL

\* An index that says it is up to date has the metrics of its symbols and edges, unless
\* one of the named things got in the way.
THEOREM StaleMetricsHealHolds == Spec => []StaleMetricsHeal
    <1>1. IndexInv => StaleMetricsHeal
        <2> SUFFICES ASSUME IndexInv, Settled, saved.causes \subseteq {"arrival", "moved", "unread"},
                            ~saved.fresh
                     PROVE  FALSE
            BY DEF StaleMetricsHeal, IndexInv, TypeOK, Database
        <2>1. ~run.kept
            BY DEF IndexInv, AtWork, Settled
        <2>2. PICK p \in Indexed(saved) : saved.rows[p].hash = Pending /\ saved.rows[p].mtime = 0
            BY <2>1 DEF IndexInv, Heals
        <2>3. p \in Paths /\ stamp[p] # 0
            BY <2>2 DEF IndexInv, Clock, Indexed, TypeOK
        <2>4. disk[p] # Pending \/ disk[p] = Absent
            BY <2>3, IndexAssumption DEF IndexInv, TypeOK
        <2>5. p \in Changed(saved, {})
            BY <2>2, <2>3, <2>4 DEF Changed, Removed, Modified
        <2> QED  BY <2>5 DEF Settled, UpToDate
    <1> QED  BY <1>1, AlwaysInv, PTL

\* An index that says it is up to date has exactly the edges of the source tree's
\* references, unless a run was cut after a commit, a definition arrived that an
\* untouched file was waiting for, a file changed while it was read, or could not be
\* read or parsed, its edges being gone by then (indexer.py:1616, 1643).
THEOREM IncompleteHasCauseHolds == Spec => []IncompleteHasCause
    <1>1. IndexInv /\ CompleteInv => IncompleteHasCause
        <2> SUFFICES ASSUME IndexInv, CompleteInv, Settled, ~Doubted(saved)
                     PROVE  /\ EdgesComplete(saved)
                            /\ \A e \in saved.edges : Told(e.from) => e.name \in RefsOf(disk[e.from])
            BY DEF IncompleteHasCause, Doubted
        <2>1. /\ Honest(saved, {})
              /\ \A p \in Paths : \A name \in Refers(saved, p) :
                    Linkable(saved, p, name) => Linked(saved, p, name)
            BY DEF CompleteInv, Complete, IndexInv, AtWork, Settled
        <2>2. ASSUME NEW p \in Indexed(saved), Told(p)  PROVE Refers(saved, p) = RefsOf(disk[p])
            <3>1. p \in Paths /\ saved.rows[p] # None /\ disk[p] \in Contents \cup {Absent}
                BY DEF Indexed, IndexInv, TypeOK
            <3>2. disk[p] # Absent
                BY DEF Settled, UpToDate, Changed, Removed
            <3>3. saved.rows[p].mtime = stamp[p] \/ saved.rows[p].hash = disk[p]
                BY <3>2 DEF Settled, UpToDate, Changed, Modified, Removed
            <3>4. saved.rows[p].parsed = disk[p]
                BY <2>1, <2>2, <3>1, <3>2, <3>3, IndexAssumption DEF IndexInv, Current, Reads, Honest, Doubted
            <3> QED  BY <3>1, <3>4 DEF Refers
        <2>3. \A e \in saved.edges : e.from \in Indexed(saved)
            BY DEF IndexInv, TypeOK, Sane, Defined, Indexed, Database, Edge
        <2> QED  BY <2>1, <2>2, <2>3 DEF EdgesComplete, Honest, Linkable, Linked, Indexed
    <1> QED  BY <1>1, AlwaysInv, AlwaysComplete, PTL


\* After _do_run has finished in full, get_index_changed_files reports no file that was
\* not edited while it worked and that it could read.
THEOREM FullRunSettlesHolds == Spec => FullRunSettles
    <1>1. IndexInv /\ RunDecides /\ [Next]_vars =>
             [Finish /\ ~run.light =>
                \A p \in Paths : Untouched(p) =>
                    p \notin Changed(saved', {})]_vars
        <2> SUFFICES ASSUME IndexInv, RunDecides, Finish, ~run.light,
                            NEW p \in Paths, Untouched(p)
                     PROVE  p \notin Changed(saved', {})
            OBVIOUS
        <2>1. run.pc = "resolved" /\ run.todo = {} /\ Decided(p)
            BY DEF Finish, RunDecides
        <2>2. saved'.rows = db.rows
            <3>1. /\ db' \in Measured(db) \/ (memo # None /\ db' = Recalled(db))
                  /\ saved' = db' /\ db \in Database /\ memo \in Graph \cup {None}
                BY DEF Finish, IndexInv, TypeOK
            <3> QED  BY <3>1, MeasuredFacts
        <2>3. p \notin Changed(db, {})
            BY <2>1 DEF Decided, Changed, Added, Removed, Modified, Indexed
        <2> QED  BY <2>2, <2>3 DEF Changed, Added, Removed, Modified, Indexed
    <1> QED  BY <1>1, AlwaysInv, AlwaysDecides, PTL DEF Spec, FullRunSettles

=============================================================================
