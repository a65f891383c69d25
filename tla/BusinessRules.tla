---------------------------- MODULE BusinessRules ----------------------------
(***************************************************************************)
(* The business-rule tables of one project and the commands on them:       *)
(* roam/business_rules/.  extract scans source files for rules and         *)
(* replaces the rule table; graph joins rules that are alike; summarize    *)
(* has a language model describe rules, sort them into business flows and  *)
(* merge them; snapshot records what was added and removed.                *)
(*                                                                         *)
(* Each command is a process.  It reads the database or the sources, works *)
(* for as long as it takes (a summary waits for a network service), then   *)
(* writes in one SQLite transaction; what it read is not locked meanwhile. *)
(***************************************************************************)
EXTENDS Naturals, Sequences, FiniteSets

CONSTANTS Procs,
          NumRules,   \* rule identifiers (file, line and kind)
          Files,
          Java,       \* files in Java, the others are front-end files
          FileOf,     \* the file of each rule identifier
          Versions,   \* what a rule may say: its parameters and their hash
          Flows,      \* business flows a rule may be sorted into
          NoFlow,     \* the empty flow
          FlowOf,     \* the flow extract gives each rule, from its method name
          Absent,     \* no rule, no row
          Unknown,    \* a name that is none of the rules summarize asked about
          MaxEdits,   \* bound: changes of source files
          MaxStores,  \* bound: extractions stored
          MaxAsks,    \* bound: summaries begun
          MaxSnaps    \* bound: snapshots

Rules == 1..NumRules

AllFlows == Flows \cup {NoFlow}
Targets == Rules \cup {Absent, Unknown}

\* A row of business_rules.  "text" is the version its description is about,
\* "merge" the rule merge_with names; "late" is auxiliary: a summary made from
\* an older table was written into the row.
Row == [id : Nat, version : Versions, text : Versions, flow : AllFlows, merge : Targets,
        late : BOOLEAN]

ASSUME RulesAssumption ==
    /\ NumRules \in Nat
    /\ FileOf \in [Rules -> Files]
    /\ Java \subseteq Files
    /\ FlowOf \in [Rules -> AllFlows]
    /\ Absent \notin Versions \cup Rules \cup Row
    /\ Unknown \notin Rules
    /\ MaxEdits \in Nat /\ MaxStores \in Nat /\ MaxAsks \in Nat /\ MaxSnaps \in Nat

Tables == [Rules -> Row \cup {Absent}]

\* Edges that tell of a conflict are found like those by field.
Kinds == {"same_field", "same_flow"}

\* A row of business_rule_edges; "a" and "b" are auxiliary: the rules it is for.
Edge == [from : Nat, to : Nat, kind : Kinds, a : Rules, b : Rules]

\* A snapshot; "seen" and "base" are auxiliary: the rules it read and the
\* snapshot it compared them with.
Snapshot == [added : SUBSET Rules, removed : SUBSET Rules, seen : SUBSET Rules, base : Nat]

VARIABLES
    source,    \* what each rule says in the source files now
    touched,   \* files changed since the index recorded their mtime
    table,     \* business_rules
    last,      \* its AUTOINCREMENT counter
    edges,     \* business_rule_edges
    snapshots, \* business_rule_snapshots
    proc,      \* the command each process runs and what it has read
    edited,    \* changes of source files so far
    stores,    \* extractions stored so far
    asked,     \* summaries begun so far
    stored,    \* auxiliary: what the last of them scanned
    current    \* auxiliary: parameters and flows in the table are what the last
               \* graph read

vars == <<source, touched, table, last, edges, snapshots, proc, edited, stores,
          asked, stored, current>>

Scans == [Rules -> Versions \cup {Absent}]
Present(t) == {r \in Rules : t[r] # Absent}
Found(scan) == {r \in Rules : scan[r] # Absent}

EmptyScan == [r \in Rules |-> Absent]
EmptyTable == [r \in Rules |-> Absent]

Jobs == {"idle", "extract", "graph", "summarize", "snapshot", "compare"}
Idle == [job |-> "idle", scan |-> EmptyScan, skipped |-> {}, read |-> EmptyTable,
         base |-> 0, at |-> 0]

\* What a command has read: the rules a scan found and the files it skipped as
\* unchanged, the rows, the number of the newest snapshot; "at" is auxiliary.
Activity == [job : Jobs, scan : Scans, skipped : SUBSET Files, read : Tables,
             base : Nat, at : Nat]

TypeOK ==
    /\ source \in Scans
    /\ touched \subseteq Files
    /\ table \in Tables
    /\ last \in Nat
    /\ edges \subseteq Edge
    /\ snapshots \in Seq(Snapshot)
    /\ proc \in [Procs -> Activity]
    /\ edited \in Nat /\ stores \in Nat /\ asked \in Nat /\ current \in BOOLEAN
    /\ stored \in Scans

Init ==
    /\ source \in [Rules -> Versions]
    /\ touched = {}
    /\ table = EmptyTable
    /\ last = 0
    /\ edges = {}
    /\ snapshots = <<>>
    /\ proc = [p \in Procs |-> Idle]
    /\ edited = 0 /\ stores = 0 /\ asked = 0 /\ current = FALSE
    /\ stored = EmptyScan

Become(p, activity) == proc' = [proc EXCEPT ![p] = activity]

-----------------------------------------------------------------------------
(* The sources and the index.  A definition named Bug... is the one that    *)
(* follows it with a plausible mistake; the runs use it to show that a      *)
(* property notices the mistake.                                            *)

EditSource(r, v) ==
    /\ edited < MaxEdits
    /\ source[r] # v
    /\ source' = [source EXCEPT ![r] = v]
    /\ touched' = touched \cup {FileOf[r]}
    /\ edited' = edited + 1
    /\ UNCHANGED <<table, last, edges, snapshots, proc, stores, asked, stored, current>>

\* roam index records the files as they are.
Reindex ==
    /\ touched # {}
    /\ touched' = {}
    /\ UNCHANGED <<source, table, last, edges, snapshots, proc, edited, stores,
                   asked, stored, current>>

-----------------------------------------------------------------------------
(* extract *)

\* With --update the Java extractor skips files whose mtime is the index's.
Skipped(update) == IF update THEN Java \ touched ELSE {}

\* The front-end extractor, which only the workspace form runs, scans all files.
InScope(r, workspace, update) ==
    FileOf[r] \in (IF workspace THEN Files ELSE Java) \ Skipped(update)

Scan(p, workspace, update) ==
    /\ proc[p] = Idle
    /\ stores < MaxStores
    /\ Become(p, [Idle EXCEPT
         !.job = "extract",
         !.skipped = Skipped(update),
         !.scan = [r \in Rules |-> IF InScope(r, workspace, update) THEN source[r] ELSE Absent]])
    /\ UNCHANGED <<source, touched, table, last, edges, snapshots, edited, stores,
                   asked, stored, current>>

\* The place of rule r among those a scan found.
Place(scan, r) == Cardinality({s \in Found(scan) : s <= r})

BugFresh(scan, r) == Place(scan, r)

\* AUTOINCREMENT: rows are numbered in the order of the scan, beyond every row
\* there has ever been.
Fresh(scan, r) == last + Place(scan, r)

BugNewRow(scan, r) ==
    [id |-> Fresh(scan, r), version |-> scan[r], text |-> scan[r], flow |-> FlowOf[r],
     merge |-> IF table[r] = Absent THEN Absent ELSE table[r].merge, late |-> FALSE]

\* The columns summarize fills start anew.
NewRow(scan, r) ==
    [id |-> Fresh(scan, r), version |-> scan[r], text |-> scan[r], flow |-> FlowOf[r],
     merge |-> Absent, late |-> FALSE]

\* The table is emptied and filled in one transaction.  Edges stay: no
\* connection of these commands turns foreign keys on.  A scan without rules
\* returns before the table is touched.
Store(p) ==
    LET scan == proc[p].scan IN
    /\ proc[p].job = "extract"
    /\ \/ /\ Found(scan) = {}
          /\ UNCHANGED <<table, last, stores, stored, current>>
       \/ /\ Found(scan) # {}
          /\ stores < MaxStores
          /\ table' = [r \in Rules |-> IF scan[r] = Absent THEN Absent ELSE NewRow(scan, r)]
          /\ last' = last + Cardinality(Found(scan))
          /\ stores' = stores + 1
          /\ stored' = scan
          /\ current' = FALSE
    /\ Become(p, Idle)
    /\ UNCHANGED <<source, touched, edges, snapshots, edited, asked>>

-----------------------------------------------------------------------------
(* graph and summarize *)

\* load_rules, or the SELECT of summarize.
Load(p, job) ==
    /\ proc[p] = Idle
    /\ Become(p, [Idle EXCEPT !.job = job, !.read = table, !.at = stores])
    /\ IF job = "summarize"
       THEN Present(table) # {} /\ asked < MaxAsks /\ asked' = asked + 1
       ELSE UNCHANGED asked
    /\ UNCHANGED <<source, touched, table, last, edges, snapshots, edited, stores,
                   stored, current>>

Key(row, kind) == IF kind = "same_field" THEN row.version ELSE row.flow

\* Pairs of rules, in the order they were loaded, whose parameters agree or which
\* are sorted into the same flow.
Alike(t) ==
    {q \in Present(t) \X Present(t) \X Kinds :
        /\ q[1] < q[2]
        /\ Key(t[q[1]], q[3]) = Key(t[q[2]], q[3])
        /\ q[3] = "same_flow" => t[q[1]].flow # NoFlow}

EdgeFor(t, q) == [from |-> t[q[1]].id, to |-> t[q[2]].id, kind |-> q[3], a |-> q[1], b |-> q[2]]

\* Two tables give the same pairs.
SameRules(t, u) ==
    /\ Present(t) = Present(u)
    /\ \A r \in Present(t) : t[r].version = u[r].version /\ t[r].flow = u[r].flow

BugJoined(t, pairs) ==
    {EdgeFor(t, q) : q \in {x \in pairs : {x[1], x[2]} \subseteq Present(t) /\ x[2] > x[1] + 1}}

\* INSERT ... SELECT looks both rules up again by rule_id; a pair of which one
\* is gone adds no row.
Joined(t, pairs) ==
    {EdgeFor(t, q) : q \in {x \in pairs : {x[1], x[2]} \subseteq Present(t)}}

Build(p) ==
    /\ proc[p].job = "graph"
    /\ edges' = Joined(table, Alike(proc[p].read))
    /\ current' = SameRules(proc[p].read, table)
    /\ Become(p, Idle)
    /\ UNCHANGED <<source, touched, table, last, snapshots, edited, stores, asked, stored>>

\* What summarize makes of a rule: a description of what was read or the one there
\* was, any flow, and as merge_with what the language model or the agent's file
\* says, unchecked.  A rule passed over in the answer, and one described from the
\* template when the service fails, keeps what it has.
Answer == [described : BOOLEAN, flow : AllFlows, merge : Targets]

Answers(read) ==
    {answer \in [Present(read) -> Answer] :
        \A r \in Present(read) :
            answer[r].merge \in Present(read) \cup {Absent, Unknown, read[r].merge}}

\* The row of rule r after the UPDATE.
Summary(p, r, answer) ==
    LET row == proc[p].read[r] IN
    [id |-> table[r].id, version |-> table[r].version,
     text |-> IF answer.described THEN row.version ELSE row.text,
     flow |-> answer.flow, merge |-> answer.merge,
     late |-> proc[p].at # stores \/ row.late]

\* UPDATE ... WHERE rule_id: rules that were read and are still there.
Updated(p) == Present(proc[p].read) \cap Present(table)

BugSummarize(p) ==
    /\ proc[p].job = "summarize"
    /\ table' = [r \in Rules |-> IF proc[p].read[r] # Absent THEN proc[p].read[r] ELSE table[r]]
    /\ Become(p, Idle)
    /\ UNCHANGED <<source, touched, last, edges, snapshots, edited, stores, asked, stored, current>>

\* Every rule that was read is written back, also one nothing was answered about.
Summarize(p) ==
    /\ proc[p].job = "summarize"
    /\ \E answer \in Answers(proc[p].read) :
         table' = [r \in Rules |-> IF r \in Updated(p) THEN Summary(p, r, answer[r])
                                   ELSE table[r]]
    /\ current' = (current /\ \A r \in Present(table) : table'[r].flow = table[r].flow)
    /\ Become(p, Idle)
    /\ UNCHANGED <<source, touched, last, edges, snapshots, edited, stores, asked, stored>>

-----------------------------------------------------------------------------
(* snapshot *)

\* create reads the rules, then the newest snapshot, each on its own.
ReadRules(p) ==
    /\ proc[p] = Idle
    /\ Len(snapshots) < MaxSnaps
    /\ Become(p, [Idle EXCEPT !.job = "snapshot", !.read = table])
    /\ UNCHANGED <<source, touched, table, last, edges, snapshots, edited, stores,
                   asked, stored, current>>

Newest == Len(snapshots)

ReadNewest(p) ==
    /\ proc[p].job = "snapshot"
    /\ Become(p, [proc[p] EXCEPT !.job = "compare", !.base = Newest])
    /\ UNCHANGED <<source, touched, table, last, edges, snapshots, edited, stores,
                   asked, stored, current>>

BugPrevious(base) ==
    IF base = 0 THEN {} ELSE snapshots[base].added \cup snapshots[base].removed

\* prev_ids: what the newest snapshot added, nothing when there is none.
Previous(base) == IF base = 0 THEN {} ELSE snapshots[base].added

SaveSnapshot(p) ==
    LET seen == Present(proc[p].read)
        base == proc[p].base
    IN
    /\ proc[p].job = "compare"
    /\ Len(snapshots) < MaxSnaps
    /\ snapshots' = Append(snapshots,
         [added |-> seen \ Previous(base), removed |-> Previous(base) \ seen,
          seen |-> seen, base |-> base])
    /\ Become(p, Idle)
    /\ UNCHANGED <<source, touched, table, last, edges, edited, stores, asked, stored, current>>

\* The database stays locked, the sources cannot be read, the process dies.
Fail(p) ==
    /\ proc[p] # Idle
    /\ Become(p, Idle)
    /\ UNCHANGED <<source, touched, table, last, edges, snapshots, edited, stores,
                   asked, stored, current>>

Next ==
    \/ \E r \in Rules, v \in Versions \cup {Absent} : EditSource(r, v)
    \/ Reindex
    \/ \E p \in Procs :
        \/ \E workspace, update \in BOOLEAN : Scan(p, workspace, update)
        \/ Store(p)
        \/ \E job \in {"graph", "summarize"} : Load(p, job)
        \/ Build(p) \/ Summarize(p)
        \/ ReadRules(p) \/ ReadNewest(p) \/ SaveSnapshot(p)
        \/ Fail(p)

Spec == Init /\ [][Next]_vars

-----------------------------------------------------------------------------
(* Safety *)

\* However commands overlap, the table holds the rules of exactly one
\* extraction, the last one stored: summarize brings back no rule that an
\* extraction dropped while the language model was thinking.
TableIsOneExtraction ==
    \A r \in Rules : IF table[r] = Absent THEN stored[r] = Absent
                     ELSE table[r].version = stored[r]

\* Edges outlive the rows they were built for; since row numbers are never used
\* again, an end of an edge that still finds a row finds that of its rule.
EdgesTrue ==
    \A e \in edges, r \in Present(table) :
        (table[r].id = e.from => r = e.a) /\ (table[r].id = e.to => r = e.b)

\* As long as parameters and flows are what graph read, which an extraction or a
\* summary may change before it writes and after, the edges join every two rules
\* that are alike.
GraphComplete ==
    current => \A q \in Alike(table) : EdgeFor(table, q) \in edges

\* Rows whose description is about what the rule says and whose merge target, when
\* the answer named a rule it was asked about, exists; but for those a summary of
\* an older table was written into.
Fits(t) ==
    \A r \in Present(t) :
        ~t[r].late => /\ t[r].text = t[r].version
                      /\ t[r].merge \in Present(t) \cup {Absent, Unknown}

\* A description is about what the rule says now, and a merge target exists that
\* was one of the rules asked about, except in a row that a summary of an older
\* table was written into.
SummariesFit == Fits(table)

\* No rule that is new since the snapshot it was compared with is missing from
\* a snapshot, and what it calls removed had been there and is gone.
SnapshotsCover ==
    \A n \in DOMAIN snapshots :
        LET s == snapshots[n]
            before == IF s.base = 0 THEN {} ELSE snapshots[s.base].seen
        IN s.seen \ before \subseteq s.added /\ s.removed \subseteq before \ s.seen

-----------------------------------------------------------------------------
\* What extract --update is documented to do: only changed files are extracted
\* again, so the rules of the files it skips stay in the table.
SkippedFilesKeepRules ==
    [][\A p \in Procs, r \in Rules :
         FileOf[r] \in proc[p].skipped /\ table[r] # Absent /\ proc'[p] = Idle
           => table'[r] # Absent]_vars

-----------------------------------------------------------------------------
(* The inductive invariant *)

\* Row numbers are distinct and none is beyond the counter.
IdsDistinct ==
    /\ \A r \in Present(table) : table[r].id \in 1..last
    /\ \A r, s \in Present(table) : table[r].id = table[s].id => r = s

\* No edge is ahead of the counter.
EdgesPast == \A e \in edges : e.from \in 1..last /\ e.to \in 1..last

\* Rules summarize read since the last extraction was stored are those in the table.
ReadCurrent(activity) ==
    activity.job = "summarize" =>
        /\ activity.at <= stores
        /\ activity.at = stores =>
              /\ Present(activity.read) = Present(table)
              /\ \A r \in Present(table) : activity.read[r].version = table[r].version

Knows(activity) ==
    /\ ReadCurrent(activity)
    /\ activity.job = "summarize" => Fits(activity.read)
    /\ activity.job = "compare" => activity.base <= Len(snapshots)

\* What a snapshot says it added was there, what it says it removed was not.
SnapshotsHonest ==
    \A n \in DOMAIN snapshots :
        /\ snapshots[n].base < n
        /\ snapshots[n].added \subseteq snapshots[n].seen
        /\ snapshots[n].removed \cap snapshots[n].seen = {}

RuleInv ==
    /\ TypeOK
    /\ IdsDistinct
    /\ EdgesTrue
    /\ EdgesPast
    /\ TableIsOneExtraction
    /\ \A p \in Procs : Knows(proc[p])
    /\ SummariesFit
    /\ GraphComplete
    /\ SnapshotsHonest
    /\ SnapshotsCover
=============================================================================
