------------------------- MODULE BusinessRulesProofs -------------------------
(***************************************************************************)
(* TLAPS proofs about the business-rule tables, for any rules, files,      *)
(* processes and bounds.  The argument: row numbers only grow, so nothing  *)
(* written for an older table fits a newer row; a summary that read its    *)
(* rules before the last extraction is told apart by the number of         *)
(* extractions it saw, and a graph by whether the table changed.           *)
(***************************************************************************)
EXTENDS BusinessRules, FiniteSetTheorems, TLAPS

LEMMA Constants ==
    /\ NumRules \in Nat
    /\ Absent \notin Row /\ Absent \notin Versions /\ Absent \notin Rules
    /\ MaxStores \in Nat
    /\ FlowOf \in [Rules -> AllFlows]
BY RulesAssumption

LEMMA IdleTyped == Idle \in Activity
BY DEF Idle, Activity, Jobs, EmptyScan, EmptyTable, Scans, Tables

-----------------------------------------------------------------------------
(* Row numbers *)

LEMMA FoundFinite ==
    ASSUME NEW scan
    PROVE  IsFiniteSet(Found(scan)) /\ Cardinality(Found(scan)) \in Nat
<1>1. IsFiniteSet(Rules)
  BY Constants, FS_Interval DEF Rules
<1>2. Found(scan) \in SUBSET Rules
  BY DEF Found
<1> QED BY <1>1, <1>2, FS_Subset, FS_CardinalityType

\* A rule found has a place among those found, and no two the same.
LEMMA PlaceFacts ==
    ASSUME NEW scan, NEW r \in Found(scan)
    PROVE  /\ Place(scan, r) \in 1..Cardinality(Found(scan))
           /\ \A s \in Found(scan) : r < s => Place(scan, r) < Place(scan, s)
<1> DEFINE UpTo(s) == {x \in Found(scan) : x <= s}
<1>1. \A s \in Found(scan) : /\ IsFiniteSet(UpTo(s))
                             /\ Cardinality(UpTo(s)) \in Nat
                             /\ Cardinality(UpTo(s)) <= Cardinality(Found(scan))
  <2> TAKE s \in Found(scan)
  <2>1. UpTo(s) \in SUBSET Found(scan)
    OBVIOUS
  <2> QED BY <2>1, FoundFinite, FS_Subset, FS_CardinalityType
<1>2. Found(scan) \subseteq Nat
  BY Constants DEF Found, Rules
<1>3. Cardinality(UpTo(r)) # 0
  <2>1. r \in UpTo(r)
    BY <1>2
  <2> QED BY <2>1, <1>1, FS_EmptySet
<1>4. ASSUME NEW s \in Found(scan), r < s
      PROVE  Cardinality(UpTo(r)) < Cardinality(UpTo(s))
  <2>1. UpTo(r) \in SUBSET UpTo(s)
    BY <1>2, <1>4
  <2>2. s \in UpTo(s) /\ s \notin UpTo(r)
    BY <1>2, <1>4
  <2>3. Cardinality(UpTo(r)) <= Cardinality(UpTo(s))
        /\ Cardinality(UpTo(r)) # Cardinality(UpTo(s))
    BY <2>1, <2>2, <1>1, FS_Subset
  <2> QED BY <2>3, <1>1
<1>5. \A s \in Found(scan) : Place(scan, s) = Cardinality(UpTo(s))
  BY DEF Place
<1> HIDE DEF UpTo
<1> QED BY <1>1, <1>3, <1>4, <1>5, FoundFinite

\* New rows are numbered beyond the old ones, each with a number of its own.
LEMMA FreshFacts ==
    ASSUME last \in Nat, NEW scan, NEW r \in Found(scan)
    PROVE  /\ Fresh(scan, r) \in Nat
           /\ last < Fresh(scan, r)
           /\ Fresh(scan, r) <= last + Cardinality(Found(scan))
           /\ \A s \in Found(scan) : Fresh(scan, r) = Fresh(scan, s) => r = s
<1>1. Cardinality(Found(scan)) \in Nat
  BY FoundFinite
<1>2. Place(scan, r) \in 1..Cardinality(Found(scan))
  BY PlaceFacts
<1>3. ASSUME NEW s \in Found(scan), Fresh(scan, r) = Fresh(scan, s)
      PROVE  r = s
  <2>1. Place(scan, s) \in 1..Cardinality(Found(scan))
    BY PlaceFacts
  <2>2. Place(scan, r) = Place(scan, s)
    BY <1>1, <1>2, <1>3, <2>1 DEF Fresh
  <2>3. ~(r < s) /\ ~(s < r)
    BY <2>2, <2>1, <1>2, <1>1, PlaceFacts
  <2>4. r \in Nat /\ s \in Nat
    BY Constants DEF Found, Rules
  <2> QED BY <2>3, <2>4
<1> QED BY <1>1, <1>2, <1>3 DEF Fresh

\* A new row says what the scan found, and nothing of an older row.
LEMMA NewRowFacts ==
    ASSUME last \in Nat, NEW scan \in Scans, NEW r \in Found(scan)
    PROVE  /\ NewRow(scan, r) \in Row /\ NewRow(scan, r) # Absent
           /\ NewRow(scan, r).id = Fresh(scan, r)
           /\ NewRow(scan, r).version = scan[r]
           /\ NewRow(scan, r).text = scan[r]
           /\ NewRow(scan, r).merge = Absent
<1>1. Fresh(scan, r) \in Nat
  BY FreshFacts
<1>2. scan[r] \in Versions
  BY DEF Found, Scans
<1>3. NewRow(scan, r) \in Row
  BY <1>1, <1>2, Constants DEF NewRow, Row, Found, Targets
<1>4. NewRow(scan, r) # Absent
  BY <1>3, Constants
<1> QED BY <1>3, <1>4 DEF NewRow

-----------------------------------------------------------------------------
(* Steps that leave the tables alone *)

LEMMA BecomeTyped ==
    ASSUME TypeOK, NEW p \in Procs, NEW a \in Activity, Become(p, a)
    PROVE  /\ proc' \in [Procs -> Activity]
           /\ proc'[p] = a
           /\ \A q \in Procs : q # p => proc'[q] = proc[q]
BY DEF TypeOK, Become

\* What was known stays known when one process turns to something it knows.
LEMMA QuietStep ==
    ASSUME RuleInv, TypeOK',
           UNCHANGED <<table, last, edges, snapshots, stores, stored, current>>,
           \A q \in Procs : proc'[q] = proc[q] \/ Knows(proc'[q])
    PROVE  RuleInv'
<1>1. \A q \in Procs : Knows(proc'[q])
  BY DEF RuleInv
<1>2. \A q \in Procs : Knows(proc[q])'
  BY <1>1 DEF Knows, ReadCurrent
<1>3. /\ IdsDistinct' /\ EdgesTrue' /\ EdgesPast' /\ TableIsOneExtraction'
      /\ SummariesFit' /\ GraphComplete'
  BY DEF RuleInv, IdsDistinct, EdgesTrue, EdgesPast, TableIsOneExtraction, SummariesFit,
         Fits, GraphComplete
<1>4. SnapshotsHonest' /\ SnapshotsCover'
  BY DEF RuleInv, SnapshotsHonest, SnapshotsCover
<1> QED BY <1>2, <1>3, <1>4 DEF RuleInv

LEMMA QuietProc ==
    ASSUME RuleInv, NEW p \in Procs, NEW a \in Activity, Become(p, a), Knows(a),
           UNCHANGED <<source, touched, table, last, edges, snapshots, edited, stores,
                       asked, stored, current>>
    PROVE  RuleInv'
<1>1. TypeOK
  BY DEF RuleInv
<1>2. TypeOK'
  BY <1>1, BecomeTyped DEF TypeOK
<1>3. \A q \in Procs : proc'[q] = proc[q] \/ Knows(proc'[q])
  BY <1>1, BecomeTyped
<1> QED BY <1>2, <1>3, QuietStep

LEMMA IdleKnows == Knows(Idle)
BY DEF Knows, ReadCurrent, Idle

LEMMA EditStep ==
    ASSUME RuleInv, NEW r \in Rules, NEW v \in Versions \cup {Absent}, EditSource(r, v)
    PROVE  RuleInv'
<1>1. TypeOK
  BY DEF RuleInv
<1>2. source' \in Scans
  BY <1>1 DEF EditSource, TypeOK, Scans
<1>3. FileOf[r] \in Files
  BY RulesAssumption
<1>4. TypeOK'
  BY <1>1, <1>2, <1>3 DEF EditSource, TypeOK
<1> QED BY <1>4, QuietStep DEF EditSource

LEMMA ReindexStep ==
    ASSUME RuleInv, Reindex
    PROVE  RuleInv'
<1>1. TypeOK'
  BY DEF RuleInv, TypeOK, Reindex
<1> QED BY <1>1, QuietStep DEF Reindex

LEMMA ScanStep ==
    ASSUME RuleInv, NEW p \in Procs, NEW workspace \in BOOLEAN, NEW update \in BOOLEAN,
           Scan(p, workspace, update)
    PROVE  RuleInv'
<1> DEFINE found == [r \in Rules |->
                       IF InScope(r, workspace, update) THEN source[r] ELSE Absent]
           a == [Idle EXCEPT !.job = "extract", !.skipped = Skipped(update), !.scan = found]
<1>1. found \in Scans
  BY DEF RuleInv, TypeOK, Scans
<1>2. Skipped(update) \subseteq Files
  BY RulesAssumption DEF Skipped
<1>3. a \in Activity /\ a.job = "extract"
  <2> HIDE DEF found
  <2> QED BY <1>1, <1>2, IdleTyped DEF Activity, Jobs, Idle
<1>4. Knows(a)
  BY <1>3 DEF Knows, ReadCurrent
<1>5. Become(p, a)
  BY DEF Scan
<1> HIDE DEF a
<1> QED BY <1>3, <1>4, <1>5, QuietProc DEF Scan

LEMMA LoadStep ==
    ASSUME RuleInv, NEW p \in Procs, NEW job \in {"graph", "summarize"}, Load(p, job)
    PROVE  RuleInv'
<1> DEFINE a == [Idle EXCEPT !.job = job, !.read = table, !.at = stores]
<1>1. TypeOK
  BY DEF RuleInv
<1>2. a \in Activity
  BY <1>1, IdleTyped DEF TypeOK, Activity, Jobs, Idle
<1>3. a.job = job /\ a.read = table /\ a.at = stores
  BY DEF Idle
<1>4. Fits(table)
  BY DEF RuleInv, SummariesFit
<1> HIDE DEF a
<1>5. ReadCurrent(a)
  BY <1>1, <1>3 DEF ReadCurrent, TypeOK
<1>6. Knows(a)
  BY <1>3, <1>4, <1>5 DEF Knows
<1>7. Become(p, a)
  BY DEF Load, a
<1>8. TypeOK'
  BY <1>1, <1>2, <1>7, BecomeTyped DEF Load, TypeOK
<1>9. \A q \in Procs : proc'[q] = proc[q] \/ Knows(proc'[q])
  BY <1>1, <1>2, <1>6, <1>7, BecomeTyped
<1> QED BY <1>8, <1>9, QuietStep DEF Load

LEMMA ReadRulesStep ==
    ASSUME RuleInv, NEW p \in Procs, ReadRules(p)
    PROVE  RuleInv'
<1> DEFINE a == [Idle EXCEPT !.job = "snapshot", !.read = table]
<1>1. a \in Activity
  BY IdleTyped DEF RuleInv, TypeOK, Activity, Jobs, Idle
<1>2. a.job = "snapshot"
  BY DEF Idle
<1>3. Become(p, a)
  BY DEF ReadRules
<1> HIDE DEF a
<1>4. Knows(a)
  BY <1>2 DEF Knows, ReadCurrent
<1> QED BY <1>1, <1>3, <1>4, QuietProc DEF ReadRules

LEMMA ReadNewestStep ==
    ASSUME RuleInv, NEW p \in Procs, ReadNewest(p)
    PROVE  RuleInv'
<1> DEFINE a == [proc[p] EXCEPT !.job = "compare", !.base = Newest]
<1>1. TypeOK
  BY DEF RuleInv
<1>2. proc[p] \in Activity /\ Newest \in Nat
  BY <1>1 DEF TypeOK, Newest
<1>3. a \in Activity
  BY <1>2 DEF Activity, Jobs
<1>4. a.job = "compare" /\ a.base = Len(snapshots)
  BY <1>2 DEF Activity, Newest
<1>5. Become(p, a)
  BY DEF ReadNewest
<1> HIDE DEF a
<1>6. Knows(a)
  BY <1>4, <1>1 DEF Knows, ReadCurrent, TypeOK
<1> QED BY <1>3, <1>5, <1>6, QuietProc DEF ReadNewest

LEMMA FailStep ==
    ASSUME RuleInv, NEW p \in Procs, Fail(p)
    PROVE  RuleInv'
BY IdleTyped, IdleKnows, QuietProc DEF Fail

-----------------------------------------------------------------------------
(* Steps that write *)

\* A store replaces the table: new numbers, and no command that read before it
\* passes for one that read after it.
LEMMA StoreStep ==
    ASSUME RuleInv, NEW p \in Procs, Store(p)
    PROVE  RuleInv'
<1> DEFINE scan == proc[p].scan
<1>1. TypeOK /\ Knows(Idle)
  BY IdleKnows DEF RuleInv
<1>2. proc[p] \in Activity /\ scan \in Scans
  BY <1>1 DEF TypeOK, Activity
<1>3. /\ proc' \in [Procs -> Activity]
      /\ \A q \in Procs : proc'[q] = proc[q] \/ proc'[q] = Idle
  BY <1>1, IdleTyped, BecomeTyped DEF Store
<1>4. CASE Found(scan) = {}
  <2>1. UNCHANGED <<source, touched, table, last, edges, snapshots, edited, stores, asked, stored, current>>
    BY <1>4 DEF Store
  <2>2. TypeOK'
    BY <1>1, <1>3, <2>1 DEF TypeOK
  <2> QED BY <1>1, <1>3, <2>1, <2>2, QuietStep
<1>5. CASE Found(scan) # {}
  <2>1. /\ table' = [r \in Rules |-> IF scan[r] = Absent THEN Absent ELSE NewRow(scan, r)]
        /\ last' = last + Cardinality(Found(scan))
        /\ stores < MaxStores /\ stores' = stores + 1
        /\ stored' = scan
        /\ current' = FALSE
        /\ UNCHANGED <<source, touched, edges, snapshots, edited, asked>>
    BY <1>5 DEF Store
  <2>2. last \in Nat /\ stores \in Nat /\ Cardinality(Found(scan)) \in Nat
    BY <1>1, FoundFinite DEF TypeOK
  <2>3. \A r \in Found(scan) : /\ NewRow(scan, r) \in Row /\ NewRow(scan, r) # Absent
                                /\ NewRow(scan, r).id = Fresh(scan, r)
                                /\ NewRow(scan, r).version = scan[r]
                                /\ NewRow(scan, r).text = scan[r]
                                /\ NewRow(scan, r).merge = Absent
    BY <1>2, <2>2, NewRowFacts
  <2>4. Present(table') = Found(scan) /\ \A r \in Found(scan) : table'[r] = NewRow(scan, r)
    BY <2>1, <2>3 DEF Present, Found
  <2>5. TypeOK'
    <3>1. table' \in Tables
      BY <2>1, <2>3 DEF Tables, Found
    <3>2. stores' \in Nat /\ last' \in Nat
      BY <2>1, <2>2
    <3> QED BY <1>1, <1>2, <1>3, <2>1, <3>1, <3>2 DEF TypeOK
  <2>6. \A r \in Present(table') :
           /\ table'[r].id \in Nat /\ last < table'[r].id /\ table'[r].id <= last'
           /\ \A s \in Present(table') : table'[r].id = table'[s].id => r = s
    BY <2>1, <2>2, <2>3, <2>4, FreshFacts
  <2>7. IdsDistinct'
    BY <2>1, <2>2, <2>6 DEF IdsDistinct
  <2>8. EdgesTrue' /\ EdgesPast'
    <3>1. \A e \in edges : e.from \in 1..last /\ e.to \in 1..last
      BY DEF RuleInv, EdgesPast
    <3> QED BY <2>1, <2>2, <2>6, <3>1 DEF EdgesTrue, EdgesPast
  <2>9. TableIsOneExtraction'
    BY <2>1, <2>3, <2>4 DEF TableIsOneExtraction, Present, Found
  <2>10. SummariesFit'
    BY <2>3, <2>4 DEF SummariesFit, Fits
  <2>12. GraphComplete'
    BY <2>1 DEF GraphComplete
  <2>13. ASSUME NEW q \in Procs
         PROVE  Knows(proc[q])'
    <3>1. Knows(proc'[q])
      BY <1>1, <1>3 DEF RuleInv
    <3>2. proc'[q].at \in Nat
      BY <1>3 DEF Activity
    <3>3. ReadCurrent(proc[q])'
      BY <2>1, <2>2, <3>1, <3>2 DEF Knows, ReadCurrent
    <3> QED BY <2>1, <3>1, <3>3 DEF Knows
  <2>14. SnapshotsHonest' /\ SnapshotsCover'
    BY <2>1 DEF RuleInv, SnapshotsHonest, SnapshotsCover
  <2> QED BY <2>5, <2>7, <2>8, <2>9, <2>10, <2>12, <2>13, <2>14 DEF RuleInv
<1> QED BY <1>4, <1>5

\* Edges are written for rows of the table as it is, and for all alike pairs
\* when what was read is still what the table says.
LEMMA BuildStep ==
    ASSUME RuleInv, NEW p \in Procs, Build(p)
    PROVE  RuleInv'
<1> DEFINE read == proc[p].read
<1>1. TypeOK /\ IdsDistinct /\ Knows(proc[p])
  BY DEF RuleInv
<1>2. /\ edges' = Joined(table, Alike(read)) /\ proc[p].job = "graph"
      /\ current' = SameRules(read, table)
      /\ UNCHANGED <<source, touched, table, last, snapshots, edited, stores, asked, stored>>
  BY DEF Build
<1>3. /\ proc' \in [Procs -> Activity]
      /\ \A q \in Procs : proc'[q] = proc[q] \/ proc'[q] = Idle
  BY <1>1, IdleTyped, BecomeTyped DEF Build
<1>4. ASSUME NEW e \in edges'
      PROVE  \E a, b \in Present(table) :
                \E kind \in Kinds : e = [from |-> table[a].id, to |-> table[b].id, kind |-> kind,
                                        a |-> a, b |-> b]
  <2>1. PICK q \in Alike(read) : {q[1], q[2]} \subseteq Present(table) /\ e = EdgeFor(table, q)
    BY <1>2 DEF Joined
  <2> QED BY <2>1 DEF EdgeFor, Alike
<1>5. \A r \in Present(table) : r \in Rules /\ table[r] \in Row /\ table[r].id \in Nat
  BY <1>1 DEF TypeOK, Tables, Present, Row
<1>6. edges' \subseteq Edge
  BY <1>4, <1>5 DEF Edge
<1>7. TypeOK'
  <2>1. SameRules(read, table) \in BOOLEAN
    BY DEF SameRules
  <2> QED BY <1>1, <1>2, <1>3, <1>6, <2>1 DEF TypeOK
<1>8. EdgesTrue' /\ EdgesPast'
  <2> SUFFICES ASSUME NEW e \in edges'
               PROVE  /\ e.from \in 1..last /\ e.to \in 1..last
                      /\ \A r \in Present(table) : /\ (table[r].id = e.from => r = e.a)
                                                    /\ (table[r].id = e.to => r = e.b)
    BY <1>2 DEF EdgesTrue, EdgesPast
  <2>1. PICK a, b \in Present(table), kind \in Kinds :
           e = [from |-> table[a].id, to |-> table[b].id, kind |-> kind, a |-> a, b |-> b]
    BY <1>4
  <2> QED BY <2>1, <1>1 DEF IdsDistinct
<1>10. GraphComplete'
  <2> SUFFICES ASSUME SameRules(read, table), NEW q \in Alike(table)
               PROVE  EdgeFor(table, q) \in edges'
    BY <1>2 DEF GraphComplete
  <2>1. q \in Alike(read) /\ {q[1], q[2]} \subseteq Present(table)
    BY DEF Alike, SameRules, Key
  <2> QED BY <2>1, <1>2 DEF Joined
<1>11. \A q \in Procs : Knows(proc[q])'
  BY <1>2, <1>3, IdleKnows DEF RuleInv, Knows, ReadCurrent
<1>12. /\ IdsDistinct' /\ TableIsOneExtraction' /\ SummariesFit'
       /\ SnapshotsHonest' /\ SnapshotsCover'
  BY <1>2 DEF RuleInv, IdsDistinct, TableIsOneExtraction, SummariesFit, Fits,
              SnapshotsHonest, SnapshotsCover
<1> QED BY <1>7, <1>8, <1>10, <1>11, <1>12 DEF RuleInv

\* A summary changes neither which rules there are nor what they say.
LEMMA SummarizeStep ==
    ASSUME RuleInv, NEW p \in Procs, Summarize(p)
    PROVE  RuleInv'
<1> DEFINE read == proc[p].read
<1>1. TypeOK /\ Knows(proc[p])
  BY DEF RuleInv
<1>2. proc[p] \in Activity /\ read \in Tables /\ table \in Tables /\ proc[p].job = "summarize"
  BY <1>1 DEF TypeOK, Activity, Summarize
<1>3. PICK answer \in Answers(read) :
         table' = [r \in Rules |-> IF r \in Updated(p) THEN Summary(p, r, answer[r]) ELSE table[r]]
  BY DEF Summarize
<1>4. /\ UNCHANGED <<source, touched, last, edges, snapshots, edited, stores, asked, stored>>
      /\ current' = (current /\ \A r \in Present(table) : table'[r].flow = table[r].flow)
  BY DEF Summarize
<1>5. /\ proc' \in [Procs -> Activity]
      /\ \A q \in Procs : proc'[q] = proc[q] \/ proc'[q] = Idle
  BY <1>1, IdleTyped, BecomeTyped DEF Summarize
<1>6. Updated(p) = Present(read) \cap Present(table) /\ Present(table) \subseteq Rules
      /\ Present(read) \subseteq Rules
  BY DEF Updated, Present
<1>7. ASSUME NEW r \in Updated(p)
      PROVE  /\ table'[r] = Summary(p, r, answer[r])
             /\ table'[r] \in Row /\ table'[r] # Absent
             /\ table'[r].id = table[r].id /\ table'[r].version = table[r].version
  <2>1. table'[r] = Summary(p, r, answer[r])
    BY <1>3, <1>6
  <2>2. table[r] \in Row /\ read[r] \in Row /\ answer[r] \in Answer
    BY <1>2, <1>6 DEF Present, Tables, Answers
  <2>4. Summary(p, r, answer[r]) \in Row
    <3>1. /\ table[r].id \in Nat /\ table[r].version \in Versions
          /\ read[r].version \in Versions /\ read[r].text \in Versions
          /\ answer[r].flow \in AllFlows /\ answer[r].merge \in Targets
          /\ read[r].late \in BOOLEAN
      BY <2>2 DEF Row, Answer
    <3>2. /\ (IF answer[r].described THEN read[r].version ELSE read[r].text) \in Versions
          /\ (proc[p].at # stores \/ read[r].late) \in BOOLEAN
      BY <3>1
    <3> QED BY <3>1, <3>2 DEF Summary, Row
  <2>5. Summary(p, r, answer[r]) # Absent
    BY <2>4, Constants
  <2>6. /\ Summary(p, r, answer[r]).id = table[r].id
        /\ Summary(p, r, answer[r]).version = table[r].version
    BY DEF Summary
  <2> QED BY <2>1, <2>4, <2>5, <2>6
<1>8. \A r \in Rules \ Updated(p) : table'[r] = table[r]
  BY <1>3
<1>9. Present(table') = Present(table)
  BY <1>6, <1>7, <1>8 DEF Present
<1>10. \A r \in Present(table) : table'[r].id = table[r].id /\ table'[r].version = table[r].version
  BY <1>6, <1>7, <1>8
<1>11. TypeOK'
  <2>1. \A r \in Rules : table'[r] \in Row \cup {Absent}
    BY <1>2, <1>7, <1>8 DEF Tables
  <2>2. table' \in Tables
    BY <2>1, <1>3 DEF Tables
  <2>3. current' \in BOOLEAN
    BY <1>4
  <2> QED BY <1>1, <1>4, <1>5, <2>2, <2>3 DEF TypeOK
<1>12. SummariesFit'
  <2> SUFFICES ASSUME NEW r \in Present(table'), ~table'[r].late
               PROVE  /\ table'[r].text = table'[r].version
                      /\ table'[r].merge \in Present(table') \cup {Absent, Unknown}
    BY DEF SummariesFit, Fits
  <2>1. CASE r \in Updated(p)
    <3>1. table'[r] = Summary(p, r, answer[r])
      BY <1>7, <2>1
    <3>2. proc[p].at = stores /\ ~read[r].late
      <4>1. table'[r].late = (proc[p].at # stores \/ read[r].late)
        BY <3>1 DEF Summary
      <4> QED BY <4>1, Zenon
    <3>3. Present(read) = Present(table) /\ read[r].version = table[r].version
      BY <3>2, <1>1, <1>2, <1>9 DEF Knows, ReadCurrent
    <3>4. /\ r \in Present(read)
          /\ read[r].text = read[r].version /\ read[r].merge \in Present(read) \cup {Absent, Unknown}
      BY <3>2, <1>1, <1>2, <1>6, <2>1 DEF Knows, Fits
    <3>5. table'[r].text = read[r].version /\ table'[r].merge = answer[r].merge
      BY <3>1, <3>4 DEF Summary
    <3>6. answer[r].merge \in Present(read) \cup {Absent, Unknown}
      BY <3>4, <1>3 DEF Answers
    <3> QED BY <3>3, <3>5, <3>6, <1>7, <1>9, <2>1
  <2>2. CASE r \notin Updated(p)
    <3>1. r \in Present(table) /\ table'[r] = table[r]
      BY <1>6, <1>8, <1>9, <2>2
    <3> QED BY <3>1, <1>9 DEF RuleInv, SummariesFit, Fits
  <2> QED BY <2>1, <2>2
<1>13. IdsDistinct'
  BY <1>4, <1>9, <1>10 DEF RuleInv, IdsDistinct
<1>14. EdgesTrue' /\ EdgesPast'
  BY <1>4, <1>9, <1>10 DEF RuleInv, EdgesTrue, EdgesPast
<1>15. TableIsOneExtraction'
  BY <1>4, <1>6, <1>9, <1>10 DEF RuleInv, TableIsOneExtraction, Present
<1>16. GraphComplete'
  <2> SUFFICES ASSUME current', NEW q \in Alike(table')
               PROVE  EdgeFor(table', q) \in edges
    BY <1>4 DEF GraphComplete
  <2>1. current /\ \A r \in Present(table) : table'[r].flow = table[r].flow
    BY <1>4
  <2>2. q[1] \in Present(table) /\ q[2] \in Present(table) /\ q \in Alike(table)
    BY <1>9, <1>10, <2>1 DEF Alike, Key
  <2>3. EdgeFor(table', q) = EdgeFor(table, q)
    BY <1>10, <2>2 DEF EdgeFor
  <2> QED BY <2>1, <2>2, <2>3 DEF RuleInv, GraphComplete
<1>17. ASSUME NEW q \in Procs
       PROVE  Knows(proc[q])'
  <2>1. Knows(proc'[q])
    BY <1>5, IdleKnows DEF RuleInv
  <2> QED BY <2>1, <1>4, <1>9, <1>10 DEF Knows, ReadCurrent
<1>18. SnapshotsHonest' /\ SnapshotsCover'
  BY <1>4 DEF RuleInv, SnapshotsHonest, SnapshotsCover
<1> QED BY <1>11, <1>12, <1>13, <1>14, <1>15, <1>16, <1>17, <1>18 DEF RuleInv

\* A new snapshot is compared with one that exists, and the old ones stay.
LEMMA SaveSnapshotStep ==
    ASSUME RuleInv, NEW p \in Procs, SaveSnapshot(p)
    PROVE  RuleInv'
<1> DEFINE seen == Present(proc[p].read)
           base == proc[p].base
           new == [added |-> seen \ Previous(base), removed |-> Previous(base) \ seen,
                   seen |-> seen, base |-> base]
<1>1. TypeOK /\ SnapshotsHonest /\ SnapshotsCover /\ Knows(proc[p])
  BY DEF RuleInv
<1>2. /\ snapshots' = Append(snapshots, new) /\ proc[p].job = "compare"
      /\ UNCHANGED <<source, touched, table, last, edges, edited, stores, asked, stored, current>>
  BY DEF SaveSnapshot
<1>3. /\ proc' \in [Procs -> Activity]
      /\ \A q \in Procs : proc'[q] = proc[q] \/ proc'[q] = Idle
  BY <1>1, IdleTyped, BecomeTyped DEF SaveSnapshot
<1>4. /\ snapshots \in Seq(Snapshot) /\ Len(snapshots) \in Nat
      /\ base \in Nat /\ base <= Len(snapshots) /\ seen \subseteq Rules
  BY <1>1, <1>2 DEF TypeOK, Knows, Activity, Present
<1>5. base # 0 => /\ base \in DOMAIN snapshots
                  /\ snapshots[base].added \subseteq snapshots[base].seen
                  /\ snapshots[base].added \subseteq Rules
  <2> SUFFICES ASSUME base # 0
               PROVE  /\ base \in DOMAIN snapshots
                      /\ snapshots[base].added \subseteq snapshots[base].seen
                      /\ snapshots[base].added \subseteq Rules
    OBVIOUS
  <2>1. base \in 1..Len(snapshots)
    BY <1>4
  <2>2. snapshots[base] \in Snapshot
    BY <1>4, <2>1
  <2> QED BY <1>1, <1>4, <2>1, <2>2 DEF SnapshotsHonest, Snapshot
<1>6. Previous(base) \subseteq Rules
  BY <1>5 DEF Previous
<1>7. new \in Snapshot
  BY <1>4, <1>6 DEF Snapshot
<1> HIDE DEF new
<1>8. /\ snapshots' \in Seq(Snapshot) /\ Len(snapshots') = Len(snapshots) + 1
      /\ DOMAIN snapshots' = 1..(Len(snapshots) + 1)
      /\ snapshots'[Len(snapshots) + 1] = new
      /\ \A n \in 1..Len(snapshots) : snapshots'[n] = snapshots[n]
  BY <1>2, <1>4, <1>7
<1>9. /\ new.added = seen \ Previous(base) /\ new.removed = Previous(base) \ seen
      /\ new.seen = seen /\ new.base = base
  BY DEF new
<1> HIDE DEF seen, base
<1>10. TypeOK'
  BY <1>1, <1>2, <1>3, <1>8 DEF TypeOK
<1>11. SnapshotsHonest'
  <2> SUFFICES ASSUME NEW n \in DOMAIN snapshots'
               PROVE  /\ snapshots'[n].base < n
                      /\ snapshots'[n].added \subseteq snapshots'[n].seen
                      /\ snapshots'[n].removed \cap snapshots'[n].seen = {}
    BY DEF SnapshotsHonest
  <2>1. CASE n \in 1..Len(snapshots)
    BY <2>1, <1>1, <1>4, <1>8 DEF SnapshotsHonest
  <2>2. CASE n = Len(snapshots) + 1
    BY <2>2, <1>4, <1>8, <1>9
  <2> QED BY <2>1, <2>2, <1>4, <1>8
<1>12. SnapshotsCover'
  <2> DEFINE before(n) == IF snapshots'[n].base = 0 THEN {} ELSE snapshots'[snapshots'[n].base].seen
  <2> SUFFICES ASSUME NEW n \in DOMAIN snapshots'
               PROVE  /\ snapshots'[n].seen \ before(n) \subseteq snapshots'[n].added
                      /\ snapshots'[n].removed \subseteq before(n) \ snapshots'[n].seen
    BY DEF SnapshotsCover
  <2>1. CASE n \in 1..Len(snapshots)
    <3>1. snapshots[n].base \in Nat /\ n \in DOMAIN snapshots
      <4>1. snapshots[n] \in Snapshot /\ n \in DOMAIN snapshots
        BY <2>1, <1>4
      <4> QED BY <4>1 DEF Snapshot
    <3>2. snapshots[n].base < n /\ snapshots'[n] = snapshots[n]
      BY <2>1, <3>1, <1>1, <1>8 DEF SnapshotsHonest
    <3>3. snapshots[n].base # 0 => snapshots'[snapshots[n].base] = snapshots[snapshots[n].base]
      BY <2>1, <3>1, <3>2, <1>4, <1>8
    <3> QED BY <3>1, <3>2, <3>3, <1>1 DEF SnapshotsCover
  <2>2. CASE n = Len(snapshots) + 1
    <3>1. snapshots'[n] = new
      BY <2>2, <1>8
    <3>2. CASE base = 0
      BY <3>1, <3>2, <1>9 DEF Previous
    <3>3. CASE base # 0
      <4>1. base \in 1..Len(snapshots)
        BY <3>3, <1>4
      <4>2. snapshots'[base] = snapshots[base] /\ Previous(base) = snapshots[base].added
        BY <3>3, <4>1, <1>8 DEF Previous
      <4> QED BY <3>1, <3>3, <4>2, <1>5, <1>9
    <3> QED BY <3>2, <3>3
  <2> QED BY <2>1, <2>2, <1>4, <1>8
<1>13. ASSUME NEW q \in Procs
       PROVE  Knows(proc[q])'
  <2>1. Knows(proc'[q]) /\ proc'[q].base \in Nat
    BY <1>3, IdleKnows DEF RuleInv, Activity
  <2> QED BY <2>1, <1>2, <1>4, <1>8 DEF Knows, ReadCurrent
<1>14. /\ IdsDistinct' /\ EdgesTrue' /\ EdgesPast' /\ TableIsOneExtraction'
       /\ SummariesFit' /\ GraphComplete'
  BY <1>2 DEF RuleInv, IdsDistinct, EdgesTrue, EdgesPast, TableIsOneExtraction, SummariesFit,
              Fits, GraphComplete
<1> QED BY <1>10, <1>11, <1>12, <1>13, <1>14 DEF RuleInv

-----------------------------------------------------------------------------
(* The theorems *)

LEMMA InitInv == Init => RuleInv
<1> SUFFICES ASSUME Init PROVE RuleInv
  OBVIOUS
<1>1. Present(table) = {} /\ edges = {} /\ snapshots = <<>> /\ stores = 0
  BY DEF Init, Present, EmptyTable
<1>2. TypeOK
  <2>1. EmptyScan \in Scans /\ EmptyTable \in Tables
    BY DEF EmptyScan, Scans, EmptyTable, Tables
  <2>2. source \in Scans
    BY DEF Init, Scans
  <2>3. snapshots \in Seq(Snapshot)
    BY <1>1
  <2> QED BY <2>1, <2>2, <2>3, IdleTyped DEF Init, TypeOK
<1>3. IdsDistinct /\ EdgesTrue /\ EdgesPast /\ SummariesFit /\ SnapshotsHonest /\ SnapshotsCover
  BY <1>1 DEF IdsDistinct, EdgesTrue, EdgesPast, SummariesFit, Fits, SnapshotsHonest, SnapshotsCover
<1>4. TableIsOneExtraction
  BY DEF Init, TableIsOneExtraction, EmptyTable, EmptyScan
<1>5. GraphComplete
  BY <1>1 DEF GraphComplete, Alike
<1>7. \A p \in Procs : Knows(proc[p])
  BY IdleKnows DEF Init
<1> QED BY <1>2, <1>3, <1>4, <1>5, <1>7 DEF RuleInv

LEMMA NextInv == RuleInv /\ [Next]_vars => RuleInv'
<1> SUFFICES ASSUME RuleInv, [Next]_vars PROVE RuleInv'
  OBVIOUS
<1>1. CASE UNCHANGED vars
  <2>1. TypeOK'
    BY <1>1 DEF RuleInv, TypeOK, vars
  <2> QED BY <1>1, <2>1, QuietStep DEF vars
<1>2. ASSUME NEW r \in Rules, NEW v \in Versions \cup {Absent}, EditSource(r, v)
      PROVE  RuleInv'
  BY <1>2, EditStep
<1>3. CASE Reindex
  BY <1>3, ReindexStep
<1>4. ASSUME NEW p \in Procs, NEW workspace \in BOOLEAN, NEW update \in BOOLEAN,
             Scan(p, workspace, update)
      PROVE  RuleInv'
  BY <1>4, ScanStep
<1>5. ASSUME NEW p \in Procs, NEW job \in {"graph", "summarize"}, Load(p, job)
      PROVE  RuleInv'
  BY <1>5, LoadStep
<1>6. ASSUME NEW p \in Procs,
             \/ Store(p) \/ Build(p) \/ Summarize(p)
             \/ ReadRules(p) \/ ReadNewest(p) \/ SaveSnapshot(p) \/ Fail(p)
      PROVE  RuleInv'
  BY <1>6, StoreStep, BuildStep, SummarizeStep, ReadRulesStep, ReadNewestStep,
     SaveSnapshotStep, FailStep
<1> HIDE DEF RuleInv
<1> QED BY <1>1, <1>2, <1>3, <1>4, <1>5, <1>6 DEF Next

LEMMA RuleInvHolds == Spec => []RuleInv
BY InitInv, NextInv, PTL DEF Spec

\* The commands keep tables, snapshots and what they have read well typed.
THEOREM TypeCorrect == Spec => []TypeOK
<1>1. RuleInv => TypeOK
  BY DEF RuleInv
<1> QED BY <1>1, RuleInvHolds, PTL

\* Whatever summaries and graphs overlap it, the table of extract is always one
\* whole extraction, the last one stored.
THEOREM TableIsOneExtractionHolds == Spec => []TableIsOneExtraction
<1>1. RuleInv => TableIsOneExtraction
  BY DEF RuleInv
<1> QED BY <1>1, RuleInvHolds, PTL

\* No edge left over from an older table joins rules it was not built for,
\* since AUTOINCREMENT uses no row number twice.
THEOREM EdgesTrueHolds == Spec => []EdgesTrue
<1>1. RuleInv => EdgesTrue
  BY DEF RuleInv
<1> QED BY <1>1, RuleInvHolds, PTL

\* However extractions and summaries overlap it, graph joins every two rules that
\* are alike by field or by flow as long as the table shows what it read.
THEOREM GraphCompleteHolds == Spec => []GraphComplete
<1>1. RuleInv => GraphComplete
  BY DEF RuleInv
<1> QED BY <1>1, RuleInvHolds, PTL

\* Descriptions fit the table, and so do merge targets that were among the rules
\* summarize asked about, but where a summary of an older table was written into a
\* row.
THEOREM SummariesFitHolds == Spec => []SummariesFit
<1>1. RuleInv => SummariesFit
  BY DEF RuleInv
<1> QED BY <1>1, RuleInvHolds, PTL

\* Snapshots miss no rule that is new and call none removed that was not there.
THEOREM SnapshotsCoverHolds == Spec => []SnapshotsCover
<1>1. RuleInv => SnapshotsCover
  BY DEF RuleInv
<1> QED BY <1>1, RuleInvHolds, PTL
=============================================================================
