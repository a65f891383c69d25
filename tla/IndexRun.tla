------------------------------- MODULE IndexRun -------------------------------
(***************************************************************************)
(* The incremental indexer: Indexer.run in roam/index/indexer.py and the   *)
(* change detection of roam/index/incremental.py.  A run compares the      *)
(* source tree with the files table, deletes the rows of changed and       *)
(* removed files (the database cascades to symbols, edges and metrics),    *)
(* parses what changed, resolves references to edges and recomputes the    *)
(* metrics, or leaves them for later (light).  It commits while it works:  *)
(* a run that dies leaves what it last committed.  Files are edited at any *)
(* time, and any read of a file may fail.                                  *)
(*                                                                         *)
(* One run at a time (index.lock).  An edit leaves a modification time of  *)
(* its own, or the one the file had: within a millisecond of it.           *)
(***************************************************************************)
EXTENDS Naturals, FiniteSets

CONSTANTS Paths,     \* files of the source tree
          Contents,  \* what a file can contain
          Names,     \* symbol names
          Defs,      \* the names a content defines
          Refs,      \* the names a content refers to, its own left aside
          Absent,    \* there is no such file
          None,      \* no row in the files table, no file in work
          Pending,   \* the hash 'roam-light-pending'
          Cadence,   \* files between two commits (100 in the code)
          MaxEdits,  \* bound: edits of the source tree
          MaxFaults  \* bound: runs interrupted or killed, and failed reads

\* A row of the files table, with the content its symbols were parsed from.
Row == [hash : Contents \cup {Pending}, mtime : Nat, parsed : Contents \cup {Absent}]

\* A symbol of one file refers by name to a symbol of another one.
Edge == [from : Paths, name : Names, to : Paths]

\* The signature of a graph: how many symbols and edges it has.
Graph == [symbols : Nat, edges : Nat]

ASSUME IndexAssumption ==
    /\ IsFiniteSet(Paths) /\ IsFiniteSet(Names)
    /\ Defs \in [Contents -> SUBSET Names] /\ Refs \in [Contents -> SUBSET Names]
    /\ \A c \in Contents : Defs[c] \cap Refs[c] = {}
    /\ Absent \notin Contents /\ Pending \notin Contents
    /\ None \notin Paths \cup Row \cup Graph
    /\ Cadence \in Nat \ {0} /\ MaxEdits \in Nat /\ MaxFaults \in Nat

VARIABLES
    disk,   \* content of each file of the source tree
    stamp,  \* modification time of each file
    last,   \* auxiliary: when each file was really edited last
    edits,  \* edits so far
    saved,  \* the committed database
    db,     \* the database as the run sees it
    run,    \* what the run is doing
    memo,   \* a graph the process keeps under the address of a connection
    faults  \* runs interrupted and reads failed so far

vars == <<disk, stamp, last, edits, saved, db, run, memo, faults>>
tree == <<disk, stamp, last, edits>>

\* Auxiliary: what kept the index from being what --force would build.
Causes == {"cut",       \* a run ended early after it had committed
           "arrival",   \* a definition appeared that an untouched file refers to
           "moved",     \* a file changed between two reads of one run
           "unread",    \* a file could not be read or parsed when it was needed
           "unmarked",  \* a light run left no row to come back to
           "reused",    \* a graph with the same signature passed for the same graph
           "recalled",  \* the graph of an earlier connection passed for this one's
           "failed"}    \* a metric pass failed, and the run went on

Database == [rows : [Paths -> Row \cup {None}],
             edges : SUBSET Edge,
             twice : SUBSET Edge,         \* edges stored more than once
             fresh : BOOLEAN,             \* the metrics are those of the symbols and edges
             signed : Graph \cup {None},  \* the signature the last run left
             causes : SUBSET Causes]

Empty == [rows |-> [p \in Paths |-> None], edges |-> {}, twice |-> {},
          fresh |-> TRUE, signed |-> None, causes |-> {}]

\* "batch" is files_to_process, "todo" what is left of it, "found" the references
\* extracted so far; "kept" says that the run has committed, "waiting" which
\* references led nowhere before it.  Auxiliary: "since" is how often the tree had
\* been edited when the run looked for changes, "missed" the files it could not read.
Run == [pc : {"idle", "detect", "next", "hash", "parse", "resolved"}, light : BOOLEAN,
        batch : SUBSET Paths, todo : SUBSET Paths, affected : SUBSET Paths,
        path : Paths \cup {None}, mtime : Nat, found : SUBSET (Paths \X Names),
        waiting : SUBSET (Paths \X Names), kept : BOOLEAN,
        since : Nat, missed : SUBSET Paths]

Idle == [pc |-> "idle", light |-> FALSE, batch |-> {}, todo |-> {}, affected |-> {},
         path |-> None, mtime |-> 0, found |-> {}, waiting |-> {}, kept |-> FALSE,
         since |-> 0, missed |-> {}]

TypeOK ==
    /\ disk \in [Paths -> Contents \cup {Absent}]
    /\ stamp \in [Paths -> Nat] /\ last \in [Paths -> Nat]
    /\ edits \in Nat
    /\ saved \in Database
    /\ db \in Database
    /\ run \in Run
    /\ memo \in Graph \cup {None}
    /\ faults \in Nat

Init ==
    /\ disk \in [Paths -> Contents \cup {Absent}]
    /\ stamp = [p \in Paths |-> 1] /\ last = stamp
    /\ edits = 0
    /\ saved = Empty
    /\ db = Empty
    /\ run = Idle
    /\ memo = None
    /\ faults = 0

-----------------------------------------------------------------------------
(* The database.  A definition named Bug... is the one that follows it with *)
(* a plausible mistake; the runs use it to show that a property notices     *)
(* the mistake.                                                             *)

DefsOf(content) == IF content = Absent THEN {} ELSE Defs[content]
RefsOf(content) == IF content = Absent THEN {} ELSE Refs[content]

Indexed(d) == {p \in Paths : d.rows[p] # None}
Defined(d, p) == IF d.rows[p] = None THEN {} ELSE DefsOf(d.rows[p].parsed)
Definers(d, name) == {p \in Paths : name \in Defined(d, p)}

\* resolve_references: an edge needs a symbol to start from and one to end at;
\* which of several definitions it ends at is left open.
Resolvable(d, found) == {f \in found : Defined(d, f[1]) # {} /\ Definers(d, f[2]) # {}}
Resolutions(d, found) ==
    { { [from |-> f[1], name |-> f[2], to |-> choice[f]] : f \in Resolvable(d, found) } :
        choice \in {c \in [Resolvable(d, found) -> Paths] :
                        \A f \in Resolvable(d, found) : c[f] \in Definers(d, f[2])} }

WithEdges(d, new) == [d EXCEPT !.edges = @ \cup new, !.twice = @ \cup (new \cap d.edges)]

BugWithoutEdgesFrom(d, ps) == d

WithoutEdgesFrom(d, ps) ==
    [d EXCEPT !.edges = {e \in @ : e.from \notin ps}, !.twice = {e \in @ : e.from \notin ps}]

BugWithoutRows(d, ps) ==
    [WithoutEdgesFrom(d, ps) EXCEPT !.rows = [p \in Paths |-> IF p \in ps THEN None ELSE @[p]]]

\* Deleting rows cascades to their symbols and the edges at either end.
WithoutRows(d, ps) ==
    [d EXCEPT !.rows = [p \in Paths |-> IF p \in ps THEN None ELSE @[p]],
              !.edges = {e \in @ : {e.from, e.to} \cap ps = {}},
              !.twice = {e \in @ : {e.from, e.to} \cap ps = {}}]

-----------------------------------------------------------------------------
(* get_index_changed_files *)

Added(d) == {p \in Paths : d.rows[p] = None /\ disk[p] # Absent}

\* A listed file whose time or hash cannot be read counts as removed, too.
Removed(d, unread) == {p \in Indexed(d) : disk[p] = Absent \/ p \in unread}

\* A modification time within a millisecond of the row's settles it; otherwise the
\* hash does.
Modified(d, unread) ==
    {p \in Indexed(d) \ Removed(d, unread) :
        d.rows[p].mtime # stamp[p] /\ d.rows[p].hash # disk[p]}

Changed(d, unread) == Added(d) \cup Removed(d, unread) \cup Modified(d, unread)

UpToDate(d) == Changed(d, {}) = {}

BugWork(d, unread) == Added(d)

\* files_to_process
Work(d, unread) == Added(d) \cup Modified(d, unread)

BugAffected(d, ps) == {e.from : e \in {f \in d.edges : f.to \in ps \cap Modified(d, {})}} \ ps

\* _find_affected_neighbor_files: files with edges into files about to change.
Affected(d, ps) == {e.from : e \in {f \in d.edges : f.to \in ps}} \ ps

Waiting(d) ==
    {x \in Indexed(d) \X Names :
        /\ x[2] \in RefsOf(d.rows[x[1]].parsed)
        /\ ~ \E e \in d.edges : e.from = x[1] /\ e.name = x[2]}

-----------------------------------------------------------------------------
(* A run *)

\* The reads of these files fail.
Failing(ps) ==
    /\ faults' = faults + Cardinality(ps)
    /\ faults' <= MaxFaults

Start(light) ==
    /\ run.pc = "idle"
    /\ run' = [run EXCEPT !.pc = "detect", !.light = light]
    /\ UNCHANGED <<tree, saved, db, memo, faults>>

\* --force deletes the database first; then everything is new.
Rebuild ==
    /\ run.pc = "idle"
    /\ run' = [run EXCEPT !.pc = "detect"]
    /\ saved' = Empty
    /\ db' = Empty
    /\ UNCHANGED <<tree, memo, faults>>

NothingToDo ==
    /\ run.pc = "detect"
    /\ UpToDate(db)
    /\ run' = Idle
    /\ UNCHANGED <<tree, saved, db, memo, faults>>

Detect(unread) ==
    LET gone == Removed(db, unread) \cup Modified(db, unread)
        work == Work(db, unread)
    IN
    /\ run.pc = "detect"
    /\ unread \subseteq Indexed(db) /\ Failing(unread)
    /\ Changed(db, unread) # {}
    /\ db' = [WithoutRows(db, gone) EXCEPT !.fresh = FALSE]
    /\ run' = [run EXCEPT !.pc = "next", !.batch = work, !.todo = work,
                          !.affected = Affected(db, gone), !.waiting = Waiting(db),
                          !.since = edits, !.missed = unread]
    /\ UNCHANGED <<tree, saved, memo>>

\* Before a file is processed: commit at the last one and at every Cadence-th.
CommitDue ==
    LET index == Cardinality(run.batch) - Cardinality(run.todo) + 1 IN
    index % Cadence = 0 \/ index = Cardinality(run.batch)

Advance(next) ==
    /\ saved' = IF CommitDue THEN db ELSE saved
    /\ run' = [next EXCEPT !.kept = @ \/ CommitDue]

\* The file's modification time is read first ...
Take(p) ==
    /\ run.pc = "next" /\ p \in run.todo
    /\ Advance([run EXCEPT !.pc = "hash", !.path = p, !.todo = @ \ {p},
                           !.mtime = IF disk[p] = Absent THEN 0 ELSE stamp[p]])
    /\ UNCHANGED <<tree, db, memo, faults>>

\* (a file that cannot be read at all is passed over)
Skip(p) ==
    /\ run.pc = "next" /\ p \in run.todo
    /\ Failing({p})
    /\ Advance([run EXCEPT !.todo = @ \ {p}, !.missed = @ \cup {p}])
    /\ UNCHANGED <<tree, db, memo>>

\* ... then its hash, and the row is inserted ...
Hash ==
    /\ run.pc = "hash"
    /\ disk[run.path] # Absent
    /\ db' = [db EXCEPT !.rows[run.path] =
                 [hash |-> disk[run.path], mtime |-> run.mtime, parsed |-> Absent]]
    /\ run' = [run EXCEPT !.pc = "parse"]
    /\ UNCHANGED <<tree, saved, memo, faults>>

BugParse(now) ==
    LET early == db.rows[run.path].hash IN
    /\ run.pc = "parse"
    /\ db' = [db EXCEPT !.rows[run.path].parsed = early,
                        !.rows[run.path].mtime = stamp[run.path]]
    /\ run' = [run EXCEPT !.pc = "next", !.path = None,
                          !.found = @ \cup ({run.path} \X RefsOf(early))]
    /\ UNCHANGED <<tree, saved, memo, faults>>

\* ... then the file is read once more and parsed, for its symbols and references.
\* When either fails the row stays as it is, without symbols.
Parse(now) ==
    /\ run.pc = "parse"
    /\ now \in {disk[run.path], Absent}
    /\ Failing({run.path} \cap {p \in Paths : disk[p] # now})
    /\ db' = [db EXCEPT !.rows[run.path].parsed = now,
                        !.causes = IF now # disk[run.path] THEN @ \cup {"unread"}
                                   ELSE IF now # db.rows[run.path].hash THEN @ \cup {"moved"}
                                   ELSE @]
    /\ run' = [run EXCEPT !.pc = "next", !.path = None,
                          !.found = @ \cup ({run.path} \X RefsOf(now))]
    /\ UNCHANGED <<tree, saved, memo>>

\* Definitions of this run that an untouched file was waiting for: its references
\* are extracted again only if it had an edge into a changed file.
Arrivals ==
    \E x \in run.waiting, q \in run.batch :
        x[1] \notin run.batch \cup run.affected /\ x[2] \in Defined(db, q)

Moved == \E p \in run.affected : disk[p] # db.rows[p].parsed

\* _re_extract_affected and _resolve_and_store_edges.  The edges from affected files
\* are gone, also of those that cannot be read or parsed again.
Resolve(unread) ==
    LET again == UNION { {p} \X RefsOf(disk[p]) : p \in run.affected \ unread } IN
    /\ run.pc = "next" /\ run.todo = {}
    /\ unread \subseteq run.affected /\ Failing(unread)
    /\ \E new \in Resolutions(db, run.found \cup again) :
         db' = [WithEdges(WithoutEdgesFrom(db, run.affected), new)
                   EXCEPT !.causes = @ \cup (IF Arrivals THEN {"arrival"} ELSE {})
                                       \cup (IF Moved THEN {"moved"} ELSE {})
                                       \cup (IF unread # {} THEN {"unread"} ELSE {})]
    /\ run' = [run EXCEPT !.pc = "resolved"]
    /\ UNCHANGED <<tree, saved, memo>>

\* The resolvers and the metric passes that follow commit on their own.
Commit ==
    /\ run.pc = "resolved"
    /\ saved' = db
    /\ run' = [run EXCEPT !.kept = TRUE]
    /\ UNCHANGED <<tree, db, memo, faults>>

BugMarked(d, ps) ==
    [d EXCEPT !.rows = [p \in Paths |->
        IF p \in ps THEN [@[p] EXCEPT !.hash = Pending] ELSE @[p]]]

\* _finalize_light_reindex: the next full run has to come back to these files.
Marked(d, ps) ==
    IF ps = {} THEN [d EXCEPT !.causes = @ \cup {"unmarked"}]
    ELSE [d EXCEPT !.rows = [p \in Paths |->
             IF p \in ps THEN [@[p] EXCEPT !.hash = Pending, !.mtime = 0] ELSE @[p]]]

GraphOf(d) == [symbols |-> Cardinality({x \in Paths \X Names : x[2] \in Defined(d, x[1])}),
               edges |-> Cardinality(d.edges)]

\* No signature is left of a graph without symbols.
Signed(d, graph) == [d EXCEPT !.signed = IF graph.symbols = 0 THEN None ELSE graph]

\* The metric passes: a failing one is passed over, and while the signature of the
\* graph is the last run's the stored metrics are used again.  (Whether the 64 symbols
\* of highest degree are the same ones, too, is left open.)
Measured(d) ==
    LET signed == Signed(d, GraphOf(d)) IN
    {[signed EXCEPT !.fresh = TRUE]}
    \cup {[signed EXCEPT !.causes = @ \cup {why}] :
             why \in {"failed"} \cup (IF d.signed = GraphOf(d) THEN {"reused"} ELSE {})}

\* build_symbol_graph: graphs are kept under the address of their connection, and no
\* one takes them away.  A connection at the address of an earlier one is given its
\* graph, and these are the metrics that are stored or taken for valid.
Recalled(d) == [Signed(d, memo) EXCEPT !.causes = @ \cup {"recalled"}]

\* Metrics for a full run, marks for a light one, which leaves no signature; the
\* last commit.
Finish ==
    /\ run.pc = "resolved"
    /\ \/ /\ run.light
          /\ db' = [Marked(db, run.batch \cap Indexed(db)) EXCEPT !.signed = None]
          /\ UNCHANGED memo
       \/ /\ ~run.light
          /\ db' \in Measured(db)
          /\ memo' \in {memo, GraphOf(db)}
       \/ /\ ~run.light /\ memo # None
          /\ db' = Recalled(db)
          /\ UNCHANGED memo
    /\ saved' = db'
    /\ run' = Idle
    /\ UNCHANGED <<tree, faults>>

\* The transaction is rolled back to the last commit.
RollBack ==
    /\ saved' = [saved EXCEPT !.causes = IF run.kept THEN @ \cup {"cut"} ELSE @]
    /\ db' = saved'
    /\ run' = Idle
    /\ UNCHANGED tree

\* Ctrl-C, a kill, an error of the database.
Stop ==
    /\ run.pc # "idle"
    /\ faults < MaxFaults
    /\ faults' = faults + 1
    /\ RollBack
    /\ memo' \in {memo, None}

\* The hash of a file cannot be read, for one because it has vanished since it was
\* found: the run raises.
Unhashed ==
    /\ run.pc = "hash"
    /\ Failing({run.path} \cap {p \in Paths : disk[p] # Absent})
    /\ RollBack
    /\ UNCHANGED memo

-----------------------------------------------------------------------------
\* Someone writes, touches, creates or deletes a file.
Edit(p, content, time) ==
    /\ edits < MaxEdits
    /\ {content, disk[p]} # {Absent}
    /\ time \in {edits + 2, stamp[p]}
    /\ disk' = [disk EXCEPT ![p] = content]
    /\ edits' = edits + 1
    /\ stamp' = [stamp EXCEPT ![p] = time]
    /\ last' = [last EXCEPT ![p] = edits + 2]
    /\ UNCHANGED <<saved, db, run, memo, faults>>

Next ==
    \/ \E light \in BOOLEAN : Start(light)
    \/ Rebuild
    \/ NothingToDo
    \/ \E unread \in SUBSET Paths : Detect(unread) \/ Resolve(unread)
    \/ \E p \in Paths : Take(p) \/ Skip(p)
    \/ Hash
    \/ \E now \in Contents \cup {Absent} : Parse(now)
    \/ Commit \/ Finish
    \/ Stop \/ Unhashed
    \/ \E p \in Paths, content \in Contents \cup {Absent} :
          \E time \in {edits + 2, stamp[p]} : Edit(p, content, time)

Spec == Init /\ [][Next]_vars

-----------------------------------------------------------------------------
(* Safety *)

\* The last edit of p left a modification time that tells it from the one before.
Told(p) == last[p] = stamp[p]

\* The fast path of the change check is sound: a row whose modification time is
\* that of the file has the symbols of what the file contains now, although time,
\* hash and symbols are read one after the other while files change.  Two rows may
\* pass for current and are not: that of a file whose last edit came within a
\* millisecond of its time, and one without symbols, because the file could not be
\* read or parsed when its turn came.
FastPathSound ==
    \A p \in Indexed(saved) :
        saved.rows[p].mtime = stamp[p] /\ disk[p] # Absent /\ Told(p) =>
            \/ saved.rows[p].parsed = disk[p]
            \/ saved.rows[p].parsed = Absent /\ "unread" \in saved.causes

\* Every committed edge, at any moment, leads from an indexed file to a symbol
\* that its target file still has.
EdgesJoinSymbols ==
    \A e \in saved.edges : Defined(saved, e.from) # {} /\ e.name \in Defined(saved, e.to)

\* However runs follow each other, no reference is stored twice.
EdgesUnique == saved.twice = {}

\* Between runs, with nothing left to do for the next one.
Settled == run.pc = "idle" /\ UpToDate(saved)

EdgesComplete(d) ==
    \A p \in Indexed(d), name \in Names :
        /\ Told(p) /\ name \in RefsOf(disk[p])
        /\ Defined(d, p) # {} /\ Definers(d, name) # {}
        => \E e \in d.edges : e.from = p /\ e.name = name

\* When the index says it is up to date, its references are exactly those of the
\* source tree, unless one of four things has happened since the last --force: a
\* run was cut after a commit, a definition arrived that an untouched file was
\* waiting for, a file changed back and forth while it was read, a file could not
\* be read or parsed.  (No such thing is said of the references of a file whose last
\* edit its time does not tell.)
IncompleteHasCause ==
    Settled /\ saved.causes \cap {"cut", "arrival", "moved", "unread"} = {} =>
        /\ EdgesComplete(saved)
        /\ \A e \in saved.edges : Told(e.from) => e.name \in RefsOf(disk[e.from])

\* When the index says it is up to date its metrics are those of its symbols and
\* edges: what a light run leaves out, the next full run makes up for, unless since
\* the last --force a run was cut, a light run had no row to mark, a metric pass
\* failed, a graph with the same signature passed for the same graph, or the graph
\* of an earlier connection for this one's.
StaleMetricsHeal ==
    Settled /\ saved.causes \subseteq {"arrival", "moved", "unread"} => saved.fresh

\* No edit of p since the run looked for changes, and no read of it has failed.
Untouched(p) == last[p] <= run.since + 1 /\ p \notin run.missed

\* A full run that finishes leaves nothing to do: whatever state earlier runs
\* left, cut, light or complete, the change check finds no work in a file that was
\* not edited while the run worked and that it could read.
FullRunSettles ==
    [][Finish /\ ~run.light =>
         \A p \in Paths : Untouched(p) => p \notin Changed(saved', {})]_vars

-----------------------------------------------------------------------------
(* The part of the inductive invariant behind FullRunSettles *)

\* What a run has decided about a file that it reads and no one edits: files
\* outside its batch are as their rows say, files of the batch exist, and have
\* a row with the hash of what they contain once they are done.
Decided(p) ==
    IF p \notin run.batch THEN p \notin Changed(db, {})
    ELSE /\ disk[p] # Absent
         /\ p \notin run.todo /\ ~(run.pc = "hash" /\ p = run.path) =>
               db.rows[p] # None /\ db.rows[p].hash = disk[p]

RunDecides ==
    run.pc \in {"next", "hash", "parse", "resolved"} =>
        /\ run.since <= edits
        /\ run.pc = "resolved" => run.todo = {}
        /\ \A p \in Paths : Untouched(p) => Decided(p)

-----------------------------------------------------------------------------
(* What the source says and the code does not do *)

\* "we keep what's been processed; the indexer is incremental and resumes
\* safely": after interruptions alone the next runs still find every edge.
ResumesSafely == Settled /\ saved.causes \subseteq {"cut"} => EdgesComplete(saved)

=============================================================================
