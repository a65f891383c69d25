--------------------------- MODULE RunLedgerProofs ---------------------------
(***************************************************************************)
(* TLAPS proofs about the signed run ledger, for any sets of commands,     *)
(* tool calls and runs, and any number of events and manipulations.        *)
(***************************************************************************)
EXTENDS RunLedger, SequenceTheorems, FiniteSetTheorems, TLAPS

(* Operators on ledgers *)

\* A junk line is a line, no metadata is metadata, idling is an activity.
LEMMA Constants == Junk \in Line /\ NoMeta \in Metas /\ Idle \in Activity
BY DEF Junk, Line, NoMeta, Metas, Idle, Activity, Pcs, Jobs

\* The tip an append chains to is an event number or the seed.
LEMMA TipType ==
    ASSUME NEW lines \in Seq(Line) PROVE TipOf(lines) \in Nat
<1>1. CASE lines = <<>>
  BY <1>1 DEF TipOf
<1>2. CASE lines # <<>>
  <2>1. lines[Len(lines)] \in Line
    BY <1>2
  <2> QED BY <1>2, <2>1 DEF TipOf, Line
<1> QED BY <1>1, <1>2

\* An append leaves a ledger, longer by one line unless the last one was torn.
LEMMA ExtendedType ==
    ASSUME TypeOK, Phases, NEW r \in Runs, NEW line \in Line
    PROVE  /\ Extended(r, line) \in Seq(Line)
           /\ Extended(r, line) # <<>>
           /\ r \in open =>
                /\ Len(Extended(r, line)) = Len(file[r])
                /\ \A i \in 1..Len(file[r]) : Extended(r, line)[i] =
                       IF i = Len(file[r]) THEN Junk ELSE file[r][i]
           /\ r \notin open =>
                /\ Len(Extended(r, line)) = Len(file[r]) + 1
                /\ \A i \in 1..Len(file[r]) : Extended(r, line)[i] = file[r][i]
                /\ Extended(r, line)[Len(file[r]) + 1] = line
<1>1. file[r] \in Seq(Line)
  BY DEF TypeOK
<1>2. CASE r \in open
  <2>1. Len(file[r]) \in 1..Len(file[r])
    BY <1>1, <1>2 DEF Phases
  <2>2. /\ [file[r] EXCEPT ![Len(file[r])] = Junk] \in Seq(Line)
        /\ Len([file[r] EXCEPT ![Len(file[r])] = Junk]) = Len(file[r])
        /\ \A j \in 1 .. Len(file[r]) : [file[r] EXCEPT ![Len(file[r])] = Junk][j] =
                IF j = Len(file[r]) THEN Junk ELSE file[r][j]
    BY <1>1, <2>1, Constants, ExceptSeq
  <2> QED BY <1>1, <1>2, <2>1, <2>2 DEF Extended
<1>3. CASE r \notin open
  BY <1>1, <1>3 DEF Extended
<1> QED BY <1>2, <1>3

\* Taking a line out leaves a ledger, with one line less.
LEMMA RemoveAtType ==
    ASSUME NEW lines \in Seq(Line), NEW i \in DOMAIN lines
    PROVE  /\ RemoveAt(lines, i) \in Seq(Line)
           /\ Len(RemoveAt(lines, i)) = Len(lines) - 1
<1>1. i \in 1..Len(lines) /\ Len(lines) \in Nat
  OBVIOUS
<1> DEFINE front == SubSeq(lines, 1, i - 1)
           back == SubSeq(lines, i + 1, Len(lines))
<1>2. front \in Seq(Line) /\ Len(front) = i - 1
  BY <1>1, SubSeqProperties
<1>3. back \in Seq(Line) /\ Len(back) = Len(lines) - i
  BY <1>1, SubSeqProperties
<1> HIDE DEF front, back
<1>4. front \o back \in Seq(Line) /\ Len(front \o back) = Len(front) + Len(back)
  BY <1>2, <1>3, ConcatProperties
<1>5. RemoveAt(lines, i) = front \o back
  BY DEF RemoveAt, front, back
<1> QED BY <1>1, <1>2, <1>3, <1>4, <1>5

\* Rewriting the body of an event keeps every other line.
LEMMA EditType ==
    ASSUME NEW lines \in Seq(Line), NEW i \in DOMAIN lines
    PROVE  /\ [lines EXCEPT ![i].edited = TRUE] \in Seq(Line)
           /\ Len([lines EXCEPT ![i].edited = TRUE]) = Len(lines)
<1> DEFINE line == [lines[i] EXCEPT !.edited = TRUE]
<1>1. i \in 1..Len(lines)
  OBVIOUS
<1>2. line \in Line
  <2>1. lines[i] \in Line
    OBVIOUS
  <2> QED BY <2>1 DEF Line
<1>3. [lines EXCEPT ![i].edited = TRUE] = [lines EXCEPT ![i] = line]
  OBVIOUS
<1> HIDE DEF line
<1>4. [lines EXCEPT ![i] = line] \in Seq(Line) /\ Len([lines EXCEPT ![i] = line]) = Len(lines)
  BY <1>1, <1>2, ExceptSeq
<1> QED BY <1>3, <1>4

-----------------------------------------------------------------------------
(* Type correctness *)

\* The state a step of one process leaves the processes in.
LEMMA NowSound ==
    ASSUME TypeOK, Phases, NEW p \in Procs, NEW activity \in Activity,
           Now(p, activity), Proper(p, activity)
    PROVE  /\ proc' \in [Procs -> Activity]
           /\ proc'[p] = activity
           /\ \A q \in Procs \ {p} : proc'[q] = proc[q]
           /\ \A q \in Procs : Proper(q, proc'[q])
<1>1. proc' \in [Procs -> Activity] /\ proc'[p] = activity
      /\ \A q \in Procs \ {p} : proc'[q] = proc[q]
  BY DEF TypeOK, Now
<1> QED BY <1>1 DEF Phases

\* The invariant of every later proof: types, and what holds at each point.
Sound == TypeOK /\ Phases

\* A step that touches nothing but one process.
LEMMA LocalStep ==
    ASSUME TypeOK, Phases, NEW p \in Procs, NEW activity \in Activity,
           Now(p, activity), Proper(p, activity), UNCHANGED <<disk, aux>>
    PROVE  Sound'
<1>1. proc' \in [Procs -> Activity] /\ \A q \in Procs : Proper(q, proc'[q])
  BY NowSound
<1> QED BY <1>1 DEF Sound, TypeOK, Phases, disk, aux

LEMMA SoundInvariant == Spec => []Sound
<1>1. Init => Sound
  BY Constants, LedgerAssumption DEF Init, Sound, TypeOK, Phases, Proper, Idle
<1>2. Sound /\ [Next]_vars => Sound'
  <2> SUFFICES ASSUME Sound, [Next]_vars PROVE Sound'
    OBVIOUS
  <2> TypeOK /\ Phases
    BY DEF Sound
  <2>1. CASE UNCHANGED vars
    BY <2>1 DEF Sound, TypeOK, Phases, vars
  <2> Procs = Clis \cup Calls
    BY DEF Procs
  <2>2. ASSUME NEW p \in Clis, NEW r \in Runs, BeginStart(p, r) PROVE Sound'
    <3> DEFINE a == Begin(p, "start", r, "mkdir")
    <3>1. a \in Activity /\ Proper(p, a)
      BY Constants DEF Begin, Activity, Pcs, Jobs, Idle, Proper
    <3> QED BY <2>2, <3>1, LocalStep DEF BeginStart
  <2>3. ASSUME NEW p \in Clis, NEW r \in Runs, BeginLog(p, r) PROVE Sound'
    <3> DEFINE a == [Begin(p, "log", r, "tip") EXCEPT !.seq = Len(file[r]) + 1]
    <3>1. Len(file[r]) + 1 \in Nat
      BY DEF TypeOK
    <3>2. a \in Activity /\ Proper(p, a)
      BY <3>1, Constants DEF Begin, Activity, Pcs, Jobs, Idle, Proper
    <3> QED BY <2>3, <3>2, LocalStep DEF BeginLog
  <2>4. ASSUME NEW p \in Clis, NEW r \in Runs, BeginEnd(p, r) PROVE Sound'
    <3> DEFINE a == [Begin(p, "end", r, "endtip") EXCEPT !.seq = Len(file[r])]
    <3>1. Len(file[r]) \in Nat
      BY DEF TypeOK
    <3>2. a \in Activity /\ Proper(p, a)
      BY <3>1, Constants DEF Begin, Activity, Pcs, Jobs, Idle, Proper
    <3> QED BY <2>4, <3>2, LocalStep DEF BeginEnd
  <2>5. ASSUME NEW p \in Clis, NEW r \in Runs, BeginVerify(p, r) PROVE Sound'
    <3> DEFINE a == Begin(p, "verify", r, "key")
    <3>1. a \in Activity /\ Proper(p, a)
      BY Constants DEF Begin, Activity, Pcs, Jobs, Idle, Proper
    <3> QED BY <2>5, <3>1, LocalStep DEF BeginVerify
  <2>6. ASSUME NEW p \in Calls, NEW r \in Runs, BeginReceipt(p, r) PROVE Sound'
    <3> DEFINE a == [Begin(p, "receipt", r, "bound") EXCEPT !.mine = key, !.bound = meta[r]]
    <3>1. key \in Keys \cup {NoKey} /\ meta[r] \in Metas
      BY DEF TypeOK
    <3>2. a \in Activity /\ Proper(p, a)
      BY <3>1, Constants DEF Begin, Activity, Pcs, Jobs, Idle, Proper
    <3> QED BY <2>6, <3>2, LocalStep DEF BeginReceipt
  <2>7. ASSUME NEW p \in Procs,
               ReadKey(p) \/ GenerateKey(p) \/ CaptureKey(p) \/ KeyFails(p)
        PROVE Sound'
    <3>1. proc[p] \in Activity /\ Proper(p, proc[p]) /\ key \in Keys \cup {NoKey}
      BY DEF TypeOK, Phases
    <3>2. CASE ReadKey(p)
      <4> DEFINE a == [proc[p] EXCEPT !.pc = KeyUse(p), !.mine = key]
      <4>1. a \in Activity /\ Proper(p, a)
        BY <3>1, <3>2 DEF ReadKey, At, KeyUse, Activity, Pcs, Proper
      <4> QED BY <3>2, <4>1, LocalStep DEF ReadKey
    <3>3. CASE GenerateKey(p)
      <4> DEFINE a == [proc[p] EXCEPT !.pc = "capture", !.mine = p]
      <4>1. a \in Activity /\ Proper(p, a)
        BY <3>1, <3>3 DEF GenerateKey, At, Activity, Pcs, Proper, Keys
      <4> QED BY <3>3, <4>1, LocalStep DEF GenerateKey
    <3>4. CASE CaptureKey(p)
      <4> DEFINE a == [proc[p] EXCEPT !.pc = "install", !.want = key]
      <4>1. a \in Activity /\ Proper(p, a)
        BY <3>1, <3>4 DEF CaptureKey, At, Activity, Pcs, Proper
      <4> QED BY <3>4, <4>1, LocalStep DEF CaptureKey
    <3>5. CASE KeyFails(p)
      <4> DEFINE a == [proc[p] EXCEPT !.pc = KeyUse(p), !.mine = NoKey]
      <4>1. a \in Activity /\ Proper(p, a)
        BY <3>1, <3>5 DEF KeyFails, At, KeyUse, Activity, Pcs, Proper
      <4> QED BY <3>5, <4>1, LocalStep DEF KeyFails
    <3> QED BY <2>7, <3>2, <3>3, <3>4, <3>5
  <2>8. ASSUME NEW p \in Procs, InstallKey(p) PROVE Sound'
    <3>1. proc[p] \in Activity /\ Proper(p, proc[p])
      BY DEF TypeOK, Phases
    <3>2. PICK a \in Activity : Now(p, a) /\ Proper(p, a)
      <4>1. CASE proc[p].job = "receipt"
        <5> DEFINE a == [proc[p] EXCEPT !.pc = "key", !.mine = NoKey]
        <5>1. a \in Activity /\ Proper(p, a)
          BY <2>8, <3>1, <4>1 DEF InstallKey, At, Activity, Pcs, Proper
        <5> QED BY <2>8, <4>1, <5>1 DEF InstallKey
      <4>2. CASE proc[p].job # "receipt"
        <5> DEFINE a == [proc[p] EXCEPT !.pc = KeyUse(p)]
        <5>1. a \in Activity /\ Proper(p, a)
          BY <2>8, <3>1, <4>2 DEF InstallKey, At, Activity, Pcs, Proper, KeyUse
        <5> QED BY <2>8, <4>2, <5>1 DEF InstallKey, Goto
      <4> QED BY <4>1, <4>2
    <3>3. proc' \in [Procs -> Activity] /\ \A q \in Procs : Proper(q, proc'[q])
      BY <3>2, NowSound
    <3>4. key' \in Keys \cup {NoKey}
      BY <2>8, <3>1 DEF InstallKey, Activity
    <3>5. causes' \in [Runs -> SUBSET Causes]
      BY <2>8 DEF InstallKey, TypeOK, Causes
    <3> QED BY <2>8, <3>3, <3>4, <3>5 DEF InstallKey, Sound, TypeOK, Phases
  <2>9. ASSUME NEW p \in Procs, MakeDir(p) \/ WriteMeta(p) PROVE Sound'
    <3>1. proc[p] \in Activity /\ Proper(p, proc[p])
      BY DEF TypeOK, Phases
    <3>2. CASE MakeDir(p)
      <4> DEFINE a == [proc[p] EXCEPT !.pc = "key"]
      <4>1. a \in Activity /\ Proper(p, a)
        BY <3>1, <3>2 DEF MakeDir, At, Activity, Pcs, Proper
      <4>2. proc' \in [Procs -> Activity] /\ \A q \in Procs : Proper(q, proc'[q])
        BY <3>2, <4>1, NowSound DEF MakeDir, Goto
      <4> QED BY <3>1, <3>2, <4>2 DEF MakeDir, At, Sound, TypeOK, Phases, Proper
    <3>3. CASE WriteMeta(p)
      <4>1. proc' \in [Procs -> Activity] /\ \A q \in Procs : Proper(q, proc'[q])
        BY <3>3, Constants, NowSound DEF WriteMeta, Proper, Idle
      <4>2. meta' \in [Runs -> Metas]
        BY <3>3, Constants DEF WriteMeta, TypeOK, Metas
      <4> QED BY <3>3, <4>1, <4>2 DEF WriteMeta, aux, Sound, TypeOK, Phases
    <3> QED BY <2>9, <3>2, <3>3
  <2>10. ASSUME NEW p \in Procs, ReadTip(p) \/ EndTip(p) \/ ReadLedger(p) PROVE Sound'
    <3>1. /\ proc[p] \in Activity /\ Proper(p, proc[p])
          /\ proc[p].run \in Runs /\ file[proc[p].run] \in Seq(Line)
      BY <2>10 DEF TypeOK, Phases, Proper, ReadTip, EndTip, ReadLedger, At
    <3> DEFINE lines == file[proc[p].run]
    <3>2. TipOf(lines) \in Nat /\ Len(lines) + 1 \in Nat
      BY <3>1, TipType
    <3>3. CASE ReadTip(p)
      <4> DEFINE a == [proc[p] EXCEPT !.pc = "key", !.prev = TipOf(lines)]
      <4>1. a \in Activity /\ Proper(p, a)
        BY <3>1, <3>2, <3>3 DEF ReadTip, At, Activity, Pcs, Proper
      <4> QED BY <3>3, <4>1, LocalStep DEF ReadTip
    <3>4. CASE EndTip(p)
      <4> DEFINE a == [proc[p] EXCEPT !.pc = "endwrite", !.prev = TipOf(lines), !.seen = lines]
      <4>1. a \in Activity /\ Proper(p, a)
        BY <3>1, <3>2, <3>4 DEF EndTip, At, Activity, Pcs, Proper
      <4> QED BY <3>4, <4>1, LocalStep DEF EndTip
    <3>5. CASE ReadLedger(p)
      <4> DEFINE a == [proc[p] EXCEPT !.pc = "check", !.seen = lines,
                                      !.seq = Len(lines) + 1, !.prev = TipOf(lines)]
      <4>1. a \in Activity /\ Proper(p, a)
        BY <3>1, <3>2, <3>5 DEF ReadLedger, At, Activity, Pcs, Proper
      <4> QED BY <3>5, <4>1, LocalStep DEF ReadLedger
    <3> QED BY <2>10, <3>3, <3>4, <3>5
  <2>11. ASSUME NEW p \in Procs, TakeLock(p) \/ CheckLedger(p) \/ Abandon(p) PROVE Sound'
    <3>1. proc[p] \in Activity /\ Proper(p, proc[p])
      BY DEF TypeOK, Phases
    <3>2. CASE TakeLock(p)
      <4> DEFINE a == [proc[p] EXCEPT !.pc = "key"]
      <4>1. a \in Activity /\ Proper(p, a)
        BY <3>1, <3>2 DEF TakeLock, At, Activity, Pcs, Proper
      <4> QED BY <3>2, <4>1, LocalStep DEF TakeLock, Goto
    <3>3. CASE CheckLedger(p)
      <4> DEFINE a == [proc[p] EXCEPT !.pc = "append"]
      <4>1. a \in Activity /\ Proper(p, a)
        BY <3>1, <3>3 DEF CheckLedger, At, Activity, Pcs, Proper
      <4> QED BY <3>3, <4>1, LocalStep DEF CheckLedger, Goto
    <3>4. CASE Abandon(p)
      BY <3>4, Constants, LocalStep DEF Abandon, Proper, Idle
    <3> QED BY <2>11, <3>2, <3>3, <3>4
  <2>12. ASSUME NEW p \in Procs, AppendLine(p) \/ CutAppend(p) PROVE Sound'
    <3> DEFINE r == proc[p].run
    <3>1. proc[p] \in Activity /\ r \in Runs /\ NewLine(p) \in Line
      <4>1. proc[p] \in Activity /\ Proper(p, proc[p]) /\ events \in Nat /\ At(p, "append")
        BY <2>12 DEF TypeOK, Phases, AppendLine, CutAppend
      <4>2. r \in Runs /\ proc[p].job \in {"log", "receipt"}
        BY <4>1 DEF Proper, At
      <4> QED BY <4>1, <4>2 DEF NewLine, Activity, Line
    <3>2. PICK part \in {NewLine(p), Junk} : file' = [file EXCEPT ![r] = Extended(r, part)]
      BY <2>12 DEF AppendLine, CutAppend
    <3>3. Extended(r, part) \in Seq(Line) /\ Extended(r, part) # <<>>
      BY <3>1, <3>2, Constants, ExtendedType
    <3>4. file' \in [Runs -> Seq(Line)] /\ file'[r] # <<>>
          /\ \A s \in Runs \ {r} : file'[s] = file[s]
      BY <3>1, <3>2, <3>3 DEF TypeOK
    <3>5. proc' \in [Procs -> Activity] /\ \A q \in Procs : Proper(q, proc'[q])
      BY <2>12, Constants, NowSound DEF AppendLine, CutAppend, Proper, Idle
    <3>6. open' \subseteq Runs /\ \A s \in open' : file'[s] # <<>>
      BY <2>12, <3>1, <3>4 DEF AppendLine, CutAppend, TypeOK, Phases
    <3>7. causes' \in [Runs -> SUBSET Causes]
      <4>1. PICK more \in SUBSET Causes : causes' = [causes EXCEPT ![r] = @ \cup more]
        <5>1. Disturbance(p) \in SUBSET Causes /\ {"cut"} \in SUBSET Causes
          BY DEF Disturbance, Causes
        <5> QED BY <2>12, <5>1 DEF AppendLine, CutAppend
      <4> QED BY <3>1, <4>1 DEF TypeOK
    <3>8. events' \in Nat /\ logged' \subseteq Runs \X Nat
      BY <2>12, <3>1 DEF AppendLine, CutAppend, TypeOK
    <3>9. UNCHANGED <<key, made, meta, edits, reported, closed>>
      BY <2>12 DEF AppendLine, CutAppend
    <3> QED BY <3>4, <3>5, <3>6, <3>7, <3>8, <3>9 DEF Sound, TypeOK, Phases
  <2>13. ASSUME NEW p \in Procs, EndWrite(p) \/ Scan(p) PROVE Sound'
    <3>1. proc[p] \in Activity /\ proc[p].run \in Runs
      BY <2>13 DEF TypeOK, Phases, Proper, EndWrite, Scan, At
    <3>2. proc' \in [Procs -> Activity] /\ \A q \in Procs : Proper(q, proc'[q])
      BY <2>13, Constants, NowSound DEF EndWrite, Scan, Proper, Idle
    <3>3. CASE EndWrite(p)
      BY <3>1, <3>2, <3>3 DEF EndWrite, Sound, TypeOK, Phases, Activity, Metas
    <3>4. CASE Scan(p)
      BY <3>1, <3>2, <3>4 DEF Scan, disk, Sound, TypeOK, Phases
    <3> QED BY <2>13, <3>3, <3>4
  <2>14. ASSUME NEW r \in Runs, NEW i \in DOMAIN file[r],
                EditLine(r, i) \/ RemoveLine(r, i)
         PROVE Sound'
    <3>1. file[r] \in Seq(Line)
      BY DEF TypeOK
    <3>2. PICK lines \in Seq(Line) :
             /\ Edited(r, lines)
             /\ \/ Len(lines) = Len(file[r]) /\ open' = open
                \/ Len(lines) = Len(file[r]) - 1 /\ (i = Len(file[r]) => r \notin open')
                   /\ open' \subseteq open
      <4>1. CASE EditLine(r, i)
        BY <3>1, <4>1, EditType DEF EditLine
      <4>2. CASE RemoveLine(r, i)
        BY <3>1, <4>2, RemoveAtType DEF RemoveLine
      <4> QED BY <2>14, <4>1, <4>2
    <3>3. i \in 1..Len(file[r])
      BY <3>1
    <3>4. r \in open' => lines # <<>>
      BY <3>1, <3>2, <3>3
    <3>5. file' \in [Runs -> Seq(Line)] /\ file'[r] = lines
          /\ \A s \in Runs \ {r} : file'[s] = file[s]
      BY <3>2 DEF Edited, TypeOK
    <3>6. causes' \in [Runs -> SUBSET Causes] /\ edits' \in Nat
      BY <3>2 DEF Edited, TypeOK, Causes
    <3> QED BY <3>2, <3>4, <3>5, <3>6 DEF Edited, Sound, TypeOK, Phases
  <2> QED BY <2>1, <2>2, <2>3, <2>4, <2>5, <2>6, <2>7, <2>8, <2>9, <2>10, <2>11,
             <2>12, <2>13, <2>14 DEF Next
<1> QED BY <1>1, <1>2, PTL DEF Spec

\* Type correctness of the run ledger: every command and tool call leaves key,
\* ledgers, metadata and processes in their sets.
THEOREM TypeCorrect == Spec => []TypeOK
<1>1. Sound => TypeOK
  BY DEF Sound
<1> QED BY <1>1, SoundInvariant, PTL

-----------------------------------------------------------------------------
(* No alarm without a cause *)

\* What an undisturbed ledger looks like.
Chained(lines, k) ==
    \A i \in DOMAIN lines :
        /\ lines[i].id # 0 /\ lines[i].seq = i
        /\ lines[i].key = k /\ k # NoKey /\ ~lines[i].edited
        /\ lines[i].prev = IF i = 1 THEN 0 ELSE lines[i - 1].id

\* A process that holds a position in the ledger, and one that holds its tip.
Counting(a) == \/ a.job = "log" /\ a.pc \in {"tip", "key", "capture", "install", "append"}
               \/ a.job = "receipt" /\ a.pc \in {"check", "append"}
Linked(a) == Counting(a) /\ a.pc # "tip"

\* What a process knows of a ledger that nothing has disturbed: its key is the
\* key, its position is none beyond the end, and at the end its tip is the tip.
Steady(a) ==
    /\ a.pc = "append" => a.mine \in {NoKey, key}
    /\ a.pc = "scan" => a.mine = key /\ key # NoKey
    /\ Counting(a) => a.seq <= Len(file[a.run]) + 1
    /\ Linked(a) /\ a.seq = Len(file[a.run]) + 1 => a.prev = TipOf(file[a.run])

Working(a) == a.pc \notin {"idle", "mkdir"}

\* The inductive invariant.
Quiet ==
    /\ \A r \in Runs : r \notin made => file[r] = <<>> /\ meta[r].status = "none"
    /\ \A r \in Runs : causes[r] = {} => r \notin open /\ Chained(file[r], key)
    /\ \A r \in reported : causes[r] # {}
    /\ \A p \in Procs : Working(proc[p]) =>
         /\ proc[p].run \in made
         /\ causes[proc[p].run] = {} => Steady(proc[p])

\* Where every line can be read, the event before a line is that of the last one.
LEMMA BeforeIsPrevious ==
    ASSUME NEW lines \in Seq(Line), Readable(lines) = 1..Len(lines), NEW i \in 1..Len(lines)
    PROVE  Before(lines, i) = IF i = 1 THEN 0 ELSE lines[i - 1].id
<1>1. Len(lines) \in Nat
  OBVIOUS
<1> DEFINE earlier == {j \in Readable(lines) : j < i}
<1>2. CASE i = 1
  <2>1. earlier = {}
    BY <1>1, <1>2
  <2> QED BY <1>2, <2>1 DEF Before
<1>3. CASE i # 1
  <2>1. i - 1 \in earlier /\ \A j \in earlier : j <= i - 1 /\ j \in Nat
    BY <1>1, <1>3
  <2>2. (CHOOSE j \in earlier : \A l \in earlier : l <= j) = i - 1
    BY <1>1, <1>3, <2>1
  <2>3. Before(lines, i) = lines[CHOOSE j \in earlier : \A l \in earlier : l <= j].id
    BY <2>1 DEF Before
  <2> QED BY <1>3, <2>2, <2>3
<1> QED BY <1>2, <1>3

\* An undisturbed ledger verifies.
LEMMA ChainedVerifies ==
    ASSUME NEW lines \in Seq(Line), NEW k \in Keys \cup {NoKey}, Chained(lines, k)
    PROVE  Verdict(lines, k) # "tampered"
<1>1. DOMAIN lines = 1..Len(lines) /\ Len(lines) \in Nat
  OBVIOUS
<1>2. Readable(lines) = 1..Len(lines)
  BY <1>1 DEF Readable, Chained
<1>3. \A i \in 1..Len(lines) : Before(lines, i) = IF i = 1 THEN 0 ELSE lines[i - 1].id
  BY <1>1, <1>2, BeforeIsPrevious
<1>4. \A i \in Readable(lines) : lines[i].key # NoKey /\ SignatureValid(lines, i, k)
  BY <1>1, <1>2, <1>3 DEF Chained, SignatureValid
<1> QED BY <1>4 DEF Verdict

\* A step that touches nothing but one process, and leaves it in order.
LEMMA LocalQuiet ==
    ASSUME TypeOK, Quiet, NEW p \in Procs, NEW a, Now(p, a),
           UNCHANGED <<disk, aux>>,
           Working(a) => a.run \in made /\ (causes[a.run] = {} => Steady(a))
    PROVE  Quiet'
<1>1. proc'[p] = a /\ \A q \in Procs \ {p} : proc'[q] = proc[q]
  BY DEF TypeOK, Now
<1>2. \A q \in Procs : Working(proc'[q]) =>
         /\ proc'[q].run \in made
         /\ causes[proc'[q].run] = {} => Steady(proc'[q])
  BY <1>1 DEF Quiet
<1>3. \A q \in Procs : Steady(proc'[q]) => Steady(proc[q])'
  BY DEF disk, Steady
<1>4. \A q \in Procs : Working(proc[q])' = Working(proc'[q])
  BY DEF Working
<1> QED BY <1>2, <1>3, <1>4 DEF Quiet, disk, aux

\* What a working process is known to keep.
LEMMA Known ==
    ASSUME TypeOK, Phases, Quiet, NEW p \in Procs, Working(proc[p])
    PROVE  /\ proc[p] \in Activity /\ Proper(p, proc[p])
           /\ proc[p].run \in Runs /\ proc[p].run \in made
           /\ causes[proc[p].run] = {} => Steady(proc[p])
BY DEF TypeOK, Phases, Quiet, Proper, Working

\* The beginnings of an operation keep the invariant.
LEMMA BeginningsQuiet ==
    ASSUME TypeOK, Phases, Quiet, NEW p \in Procs, NEW r \in Runs,
           BeginStart(p, r) \/ BeginLog(p, r) \/ BeginEnd(p, r)
             \/ BeginVerify(p, r) \/ BeginReceipt(p, r)
    PROVE  Quiet'
<1> USE DEF Begin, Idle
<1>1. CASE BeginStart(p, r)
  BY <1>1, LocalQuiet DEF BeginStart, Working
<1>2. CASE BeginLog(p, r)
  <2> DEFINE a == [Begin(p, "log", r, "tip") EXCEPT !.seq = Len(file[r]) + 1]
  <2>1. Len(file[r]) + 1 \in Nat
    BY DEF TypeOK
  <2>2. a.run \in made /\ Steady(a)
    BY <1>2, <2>1 DEF BeginLog, Steady, Counting, Linked
  <2> QED BY <1>2, <2>2, LocalQuiet DEF BeginLog
<1>3. CASE BeginEnd(p, r)
  <2> DEFINE a == [Begin(p, "end", r, "endtip") EXCEPT !.seq = Len(file[r])]
  <2>1. a.run \in made /\ Steady(a)
    BY <1>3 DEF BeginEnd, Steady, Counting, Linked, Quiet
  <2> QED BY <1>3, <2>1, LocalQuiet DEF BeginEnd
<1>4. CASE BeginVerify(p, r)
  <2> DEFINE a == Begin(p, "verify", r, "key")
  <2>1. a.run \in made /\ Steady(a)
    BY <1>4 DEF BeginVerify, Steady, Counting, Linked, Quiet
  <2> QED BY <1>4, <2>1, LocalQuiet DEF BeginVerify
<1>5. CASE BeginReceipt(p, r)
  <2> DEFINE a == [Begin(p, "receipt", r, "bound") EXCEPT !.mine = key, !.bound = meta[r]]
  <2>1. a.run \in made /\ Steady(a)
    BY <1>5 DEF BeginReceipt, Steady, Counting, Linked, Quiet
  <2> QED BY <1>5, <2>1, LocalQuiet DEF BeginReceipt
<1> QED BY <1>1, <1>2, <1>3, <1>4, <1>5

\* So do the steps to a key that leave the key file alone.
LEMMA KeyStepsQuiet ==
    ASSUME TypeOK, Phases, Quiet, NEW p \in Procs,
           ReadKey(p) \/ GenerateKey(p) \/ CaptureKey(p) \/ KeyFails(p)
    PROVE  Quiet'
<1>1. Working(proc[p])
  BY DEF ReadKey, GenerateKey, CaptureKey, KeyFails, At, Working
<1>2. /\ proc[p] \in Activity /\ Proper(p, proc[p]) /\ proc[p].run \in made
      /\ causes[proc[p].run] = {} => Steady(proc[p])
  BY <1>1, Known
<1> USE DEF Steady, Counting, Linked, Activity
<1>3. CASE ReadKey(p)
  <2> DEFINE a == [proc[p] EXCEPT !.pc = KeyUse(p), !.mine = key]
  <2>1. a.run \in made /\ (causes[a.run] = {} => Steady(a))
    BY <1>2, <1>3 DEF ReadKey, At, KeyUse, Proper
  <2> QED BY <1>3, <2>1, LocalQuiet DEF ReadKey
<1>4. CASE GenerateKey(p)
  <2> DEFINE a == [proc[p] EXCEPT !.pc = "capture", !.mine = p]
  <2>1. a.run \in made /\ (causes[a.run] = {} => Steady(a))
    BY <1>2, <1>4 DEF GenerateKey, At
  <2> QED BY <1>4, <2>1, LocalQuiet DEF GenerateKey
<1>5. CASE CaptureKey(p)
  <2> DEFINE a == [proc[p] EXCEPT !.pc = "install", !.want = key]
  <2>1. a.run \in made /\ (causes[a.run] = {} => Steady(a))
    BY <1>2, <1>5 DEF CaptureKey, At
  <2> QED BY <1>5, <2>1, LocalQuiet DEF CaptureKey
<1>6. CASE KeyFails(p)
  <2> DEFINE a == [proc[p] EXCEPT !.pc = KeyUse(p), !.mine = NoKey]
  <2>1. a.run \in made /\ (causes[a.run] = {} => Steady(a))
    BY <1>2, <1>6 DEF KeyFails, At, KeyUse
  <2> QED BY <1>6, <2>1, LocalQuiet DEF KeyFails
<1> QED BY <1>3, <1>4, <1>5, <1>6

\* And the steps that read a ledger, take the lock or give up.
LEMMA ReadingsQuiet ==
    ASSUME TypeOK, Phases, Quiet, NEW p \in Procs,
           ReadTip(p) \/ EndTip(p) \/ ReadLedger(p) \/ TakeLock(p) \/ CheckLedger(p)
             \/ Abandon(p)
    PROVE  Quiet'
<1>1. CASE Abandon(p)
  BY <1>1, LocalQuiet DEF Abandon, Working, Idle
<1> SUFFICES ASSUME ReadTip(p) \/ EndTip(p) \/ ReadLedger(p) \/ TakeLock(p) \/ CheckLedger(p)
             PROVE  Quiet'
  BY <1>1
<1>2. Working(proc[p])
  BY DEF ReadTip, EndTip, ReadLedger, TakeLock, CheckLedger, At, Working
<1>3. /\ proc[p] \in Activity /\ Proper(p, proc[p])
      /\ proc[p].run \in made /\ proc[p].run \in Runs
      /\ causes[proc[p].run] = {} => Steady(proc[p])
  BY <1>2, Known
<1> DEFINE lines == file[proc[p].run]
<1>4. Len(lines) + 1 \in Nat
  BY <1>3 DEF TypeOK
<1> USE DEF Steady, Counting, Linked, Activity
<1>5. CASE ReadTip(p)
  <2> DEFINE a == [proc[p] EXCEPT !.pc = "key", !.prev = TipOf(lines)]
  <2>1. a.run \in made /\ (causes[a.run] = {} => Steady(a))
    BY <1>3, <1>5 DEF ReadTip, At, Proper
  <2> QED BY <1>5, <2>1, LocalQuiet DEF ReadTip
<1>6. CASE EndTip(p)
  <2> DEFINE a == [proc[p] EXCEPT !.pc = "endwrite", !.prev = TipOf(lines), !.seen = lines]
  <2>1. a.run \in made /\ (causes[a.run] = {} => Steady(a))
    BY <1>3, <1>6 DEF EndTip, At
  <2> QED BY <1>6, <2>1, LocalQuiet DEF EndTip
<1>7. CASE ReadLedger(p)
  <2> DEFINE a == [proc[p] EXCEPT !.pc = "check", !.seen = lines,
                                  !.seq = Len(lines) + 1, !.prev = TipOf(lines)]
  <2>1. a.run \in made /\ (causes[a.run] = {} => Steady(a))
    BY <1>3, <1>4, <1>7 DEF ReadLedger, At
  <2> QED BY <1>7, <2>1, LocalQuiet DEF ReadLedger
<1>8. CASE TakeLock(p)
  <2> DEFINE a == [proc[p] EXCEPT !.pc = "key"]
  <2>1. a.run \in made /\ (causes[a.run] = {} => Steady(a))
    BY <1>3, <1>8 DEF TakeLock, At, Proper
  <2> QED BY <1>8, <2>1, LocalQuiet DEF TakeLock, Goto
<1>9. CASE CheckLedger(p)
  <2> DEFINE a == [proc[p] EXCEPT !.pc = "append"]
  <2>1. a.run \in made /\ (causes[a.run] = {} => Steady(a))
    BY <1>3, <1>9 DEF CheckLedger, Unchanged, At, Proper
  <2> QED BY <1>9, <2>1, LocalQuiet DEF CheckLedger, Goto
<1> QED BY <1>5, <1>6, <1>7, <1>8, <1>9

\* A new key either starts the chains or is a cause for every existing run.
LEMMA InstallQuiet ==
    ASSUME TypeOK, Phases, Quiet, NEW p \in Procs, InstallKey(p)
    PROVE  Quiet'
<1>1. Working(proc[p]) /\ At(p, "install")
  BY DEF InstallKey, At, Working
<1>2. /\ proc[p] \in Activity /\ Proper(p, proc[p])
      /\ proc[p].run \in Runs /\ proc[p].run \in made
      /\ causes[proc[p].run] = {} => Steady(proc[p])
  BY <1>1, Known
<1>3. key' = p /\ p # NoKey
  BY <1>1, <1>2, LedgerAssumption DEF InstallKey, Proper, At, Procs
<1>4. UNCHANGED <<made, file, open, meta, reported>>
  BY DEF InstallKey
<1>5. \A r \in Runs : causes'[r] = {} => causes[r] = {} /\ (key = NoKey \/ r \notin made)
  BY DEF InstallKey
<1>6. \A r \in Runs : causes'[r] = {} => r \notin open' /\ Chained(file'[r], key')
  <2> SUFFICES ASSUME NEW r \in Runs, causes'[r] = {}
               PROVE  r \notin open' /\ Chained(file'[r], key')
    OBVIOUS
  <2>1. r \notin open /\ Chained(file[r], key) /\ file[r] \in Seq(Line)
    BY <1>5 DEF Quiet, TypeOK
  <2>2. file[r] = <<>> \/ key # NoKey
    <3>1. file[r] # <<>> => 1 \in DOMAIN file[r]
      BY <2>1
    <3> QED BY <2>1, <3>1 DEF Chained
  <2>3. file[r] = <<>>
    BY <1>5, <2>2 DEF Quiet
  <2> QED BY <1>4, <2>1, <2>3 DEF Chained
<1>7. \A q \in Procs \ {p} : proc'[q] = proc[q]
  BY DEF InstallKey, Now, Goto, TypeOK
<1>8. Working(proc'[p]) /\ proc'[p].run = proc[p].run
      /\ (causes'[proc[p].run] = {} => Steady(proc[p])' )
  <2> USE DEF Steady, Counting, Linked, Activity
  <2>1. proc[p].job \in {"start", "log", "verify", "receipt"}
    BY <1>1, <1>2 DEF Proper, At
  <2>2. CASE proc[p].job = "receipt"
    <3>1. proc'[p] = [proc[p] EXCEPT !.pc = "key", !.mine = NoKey]
      BY <2>2 DEF InstallKey, Now, TypeOK
    <3> QED BY <1>2, <2>2, <3>1 DEF Working
  <2>3. CASE proc[p].job # "receipt"
    <3>1. proc'[p] = [proc[p] EXCEPT !.pc = KeyUse(p)]
      BY <2>3 DEF InstallKey, Now, Goto, TypeOK
    <3>2. proc'[p].mine = key' /\ key' # NoKey
      BY <1>1, <1>2, <1>3, <3>1 DEF Proper, At
    <3> QED BY <1>1, <1>2, <1>4, <1>5, <2>1, <2>3, <3>1, <3>2 DEF Working, KeyUse, At
  <2> QED BY <2>2, <2>3
<1>9. \A q \in Procs : Working(proc'[q]) =>
         /\ proc'[q].run \in made'
         /\ causes'[proc'[q].run] = {} => Steady(proc[q])'
  <2> SUFFICES ASSUME NEW q \in Procs, Working(proc'[q])
               PROVE  /\ proc'[q].run \in made'
                      /\ causes'[proc'[q].run] = {} => Steady(proc[q])'
    OBVIOUS
  <2>1. CASE q = p
    BY <1>2, <1>4, <1>8, <2>1
  <2>2. CASE q # p
    <3>1. /\ proc[q].run \in Runs /\ proc[q].run \in made
          /\ causes[proc[q].run] = {} => Steady(proc[q])
      BY <1>7, <2>2, Known
    <3>2. causes'[proc[q].run] = {} => causes[proc[q].run] = {} /\ key = NoKey
      BY <1>5, <3>1
    <3> QED BY <1>4, <1>7, <2>2, <3>1, <3>2 DEF Steady
  <2> QED BY <2>1, <2>2
<1>10. \A r \in reported' : causes'[r] # {}
  BY <1>4, <1>5 DEF Quiet, TypeOK
<1>11. \A q \in Procs : Working(proc[q])' = Working(proc'[q])
  BY DEF Working
<1> QED BY <1>4, <1>6, <1>9, <1>10, <1>11 DEF Quiet

\* A step that may disturb one ledger only, and does no other harm.
LEMMA OneLedgerQuiet ==
    ASSUME TypeOK, Phases, Quiet, NEW r \in Runs, r \in made,
           NEW lines \in Seq(Line), file' = [file EXCEPT ![r] = lines],
           UNCHANGED <<key, made, meta, reported>>,
           \A s \in Runs : causes'[s] = {} => causes[s] = {},
           \A s \in Runs \ {r} : s \in open' => s \in open,
           causes'[r] = {} => /\ r \notin open' /\ Chained(lines, key)
                              /\ Len(lines) = Len(file[r]) + 1,
           \A q \in Procs : proc'[q] \in {proc[q], Idle}
    PROVE  Quiet'
<1>1. file'[r] = lines /\ \A s \in Runs \ {r} : file'[s] = file[s]
  BY DEF TypeOK
<1>2. \A s \in Runs : s \notin made' => file'[s] = <<>> /\ meta'[s].status = "none"
  BY <1>1 DEF Quiet
<1>3. \A s \in Runs : causes'[s] = {} => s \notin open' /\ Chained(file'[s], key')
  BY <1>1 DEF Quiet
<1>4. \A s \in reported' : causes'[s] # {}
  BY DEF Quiet, TypeOK
<1>5. ASSUME NEW q \in Procs, Working(proc'[q])
      PROVE  /\ proc'[q].run \in made'
             /\ causes'[proc'[q].run] = {} => Steady(proc[q])'
  <2>1. proc'[q] = proc[q]
    BY <1>5 DEF Working, Idle
  <2>2. /\ proc[q] \in Activity /\ proc[q].run \in Runs /\ proc[q].run \in made
        /\ causes[proc[q].run] = {} => Steady(proc[q])
    BY <1>5, <2>1, Known
  <2>3. CASE proc[q].run # r
    BY <1>1, <2>1, <2>2, <2>3 DEF Steady
  <2>4. CASE proc[q].run = r
    <3>1. proc[q].seq \in Nat /\ Len(file[r]) \in Nat
      BY <2>2 DEF Activity, TypeOK
    <3> QED BY <1>1, <2>1, <2>2, <2>4, <3>1 DEF Steady, Counting, Linked
  <2> QED BY <2>3, <2>4
<1>6. \A q \in Procs : Working(proc[q])' = Working(proc'[q])
  BY DEF Working
<1> QED BY <1>2, <1>3, <1>4, <1>5, <1>6 DEF Quiet

\* An append by a process whose view is current extends the chain; any other
\* append leaves a cause behind.
LEMMA AppendQuiet ==
    ASSUME TypeOK, Phases, Quiet, NEW p \in Procs, AppendLine(p) \/ CutAppend(p)
    PROVE  Quiet'
<1> DEFINE r == proc[p].run
<1>1. Working(proc[p]) /\ At(p, "append")
  BY DEF AppendLine, CutAppend, At, Working
<1>2. /\ proc[p] \in Activity /\ Proper(p, proc[p]) /\ r \in Runs /\ r \in made
      /\ causes[r] = {} => Steady(proc[p])
  BY <1>1, Known
<1>3. NewLine(p) \in Line
  <2>1. proc[p].job \in {"log", "receipt"} /\ events \in Nat
    BY <1>1, <1>2 DEF Proper, At, TypeOK
  <2> QED BY <1>2, <2>1 DEF NewLine, Activity, Line
<1>4. PICK part \in {NewLine(p), Junk} : file' = [file EXCEPT ![r] = Extended(r, part)]
  BY DEF AppendLine, CutAppend
<1> DEFINE lines == Extended(r, part)
<1>5. lines \in Seq(Line)
  BY <1>2, <1>3, <1>4, Constants, ExtendedType
<1>6. PICK more : /\ causes' = [causes EXCEPT ![r] = @ \cup more]
                   /\ \/ AppendLine(p) /\ more = Disturbance(p)
                      \/ CutAppend(p) /\ more = {"cut"}
  BY DEF AppendLine, CutAppend
<1>7. /\ \A s \in Runs : causes'[s] = {} => causes[s] = {}
      /\ causes'[r] = {} => AppendLine(p) /\ Disturbance(p) = {}
  <2>1. causes'[r] = causes[r] \cup more /\ \A s \in Runs \ {r} : causes'[s] = causes[s]
    BY <1>2, <1>6 DEF TypeOK
  <2> QED BY <1>6, <2>1
<1>8. \A q \in Procs : proc'[q] \in {proc[q], Idle}
  BY DEF AppendLine, CutAppend, Now, TypeOK
<1>9. causes'[r] = {} => r \notin open' /\ Chained(lines, key) /\ Len(lines) = Len(file[r]) + 1
  <2> SUFFICES ASSUME causes'[r] = {}
               PROVE  r \notin open' /\ Chained(lines, key) /\ Len(lines) = Len(file[r]) + 1
    OBVIOUS
  <2>1. AppendLine(p) /\ Disturbance(p) = {} /\ causes[r] = {}
    BY <1>2, <1>7
  <2>2. proc[p].seq = Len(file[r]) + 1 /\ proc[p].mine # NoKey
    BY <2>1 DEF Disturbance
  <2>3. /\ r \notin open /\ Chained(file[r], key) /\ Steady(proc[p])
        /\ file[r] \in Seq(Line) /\ Len(file[r]) \in Nat
        /\ DOMAIN file[r] = 1..Len(file[r])
    <3>1. file[r] \in Seq(Line)
      BY <1>2 DEF TypeOK
    <3> QED BY <1>2, <2>1, <3>1 DEF Quiet
  <2>4. proc[p].mine = key /\ proc[p].prev = TipOf(file[r])
    <3>1. Linked(proc[p])
      BY <1>1, <1>2 DEF Counting, Linked, At, Proper
    <3> QED BY <1>1, <2>2, <2>3, <3>1 DEF Steady, At
  <2>5. lines = Append(file[r], NewLine(p))
    <3>1. file'[r] = lines /\ file'[r] = Extended(r, NewLine(p))
      BY <1>2, <1>4, <2>1 DEF AppendLine, TypeOK
    <3> QED BY <2>3, <3>1 DEF Extended
  <2>6. Len(lines) = Len(file[r]) + 1 /\ lines[Len(file[r]) + 1] = NewLine(p)
        /\ \A i \in 1..Len(file[r]) : lines[i] = file[r][i]
    BY <1>3, <2>3, <2>5
  <2>7. TipOf(file[r]) = IF Len(file[r]) = 0 THEN 0 ELSE file[r][Len(file[r])].id
    BY <2>3 DEF TipOf, Chained
  <2>8. events \in Nat
    BY DEF TypeOK
  <2>9. Chained(lines, key)
    <3> SUFFICES ASSUME NEW i \in 1..(Len(file[r]) + 1)
                 PROVE  /\ lines[i].id # 0 /\ lines[i].seq = i
                        /\ lines[i].key = key /\ key # NoKey /\ ~lines[i].edited
                        /\ lines[i].prev = IF i = 1 THEN 0 ELSE lines[i - 1].id
      BY <1>5, <2>6 DEF Chained
    <3>1. CASE i \in 1..Len(file[r])
      <4>1. lines[i] = file[r][i] /\ (i # 1 => lines[i - 1] = file[r][i - 1])
        BY <2>3, <2>6, <3>1
      <4> QED BY <2>3, <3>1, <4>1 DEF Chained
    <3>2. CASE i = Len(file[r]) + 1
      <4>1. lines[i] = NewLine(p) /\ (i # 1 => lines[i - 1] = file[r][Len(file[r])])
        BY <2>3, <2>6, <3>2
      <4> QED BY <2>2, <2>3, <2>4, <2>7, <2>8, <3>2, <4>1 DEF NewLine
    <3> QED BY <2>3, <3>1, <3>2
  <2> QED BY <2>1, <2>6, <2>9 DEF AppendLine
<1>10. UNCHANGED <<key, made, meta, reported>>
      /\ \A s \in Runs \ {r} : s \in open' => s \in open
  BY DEF AppendLine, CutAppend
<1> HIDE DEF lines
<1> QED BY <1>2, <1>4, <1>5, <1>7, <1>8, <1>9, <1>10, OneLedgerQuiet DEF lines

\* A manipulation is a cause.
LEMMA ManipulationQuiet ==
    ASSUME TypeOK, Phases, Quiet, NEW r \in Runs, NEW i \in DOMAIN file[r],
           EditLine(r, i) \/ RemoveLine(r, i)
    PROVE  Quiet'
<1>1. file[r] \in Seq(Line)
  BY DEF TypeOK
<1>2. PICK lines \in Seq(Line) : Edited(r, lines) /\ open' \subseteq open
  <2>1. CASE EditLine(r, i)
    BY <1>1, <2>1, EditType DEF EditLine
  <2>2. CASE RemoveLine(r, i)
    BY <1>1, <2>2, RemoveAtType DEF RemoveLine
  <2> QED BY <2>1, <2>2
<1>3. r \in made
  <2>1. file[r] # <<>>
    BY <1>1
  <2> QED BY <2>1 DEF Quiet
<1>4. causes'[r] # {} /\ \A s \in Runs : causes'[s] = {} => causes[s] = {}
  BY <1>2 DEF Edited, TypeOK
<1>5. \A q \in Procs : proc'[q] \in {proc[q], Idle}
  BY <1>2 DEF Edited
<1> QED BY <1>2, <1>3, <1>4, <1>5, OneLedgerQuiet DEF Edited

\* Steps on directories, metadata and reports.
LEMMA BookkeepingQuiet ==
    ASSUME TypeOK, Phases, Quiet, NEW p \in Procs,
           MakeDir(p) \/ WriteMeta(p) \/ EndWrite(p) \/ Scan(p)
    PROVE  Quiet'
<1>1. ~At(p, "idle") /\ proc[p] \in Activity /\ Proper(p, proc[p])
  BY DEF MakeDir, WriteMeta, EndWrite, Scan, At, TypeOK, Phases
<1>2. UNCHANGED <<key, file, open, causes>> /\ made \subseteq made'
  BY DEF MakeDir, WriteMeta, EndWrite, Scan, disk, aux
<1>3. \A q \in Procs : Working(proc'[q]) =>
         proc'[q].run \in made' /\ (causes'[proc'[q].run] = {} => Steady(proc'[q]))
  <2> SUFFICES ASSUME NEW q \in Procs, Working(proc'[q])
               PROVE  /\ proc'[q].run \in made'
                      /\ causes'[proc'[q].run] = {} => Steady(proc'[q])
    OBVIOUS
  <2>1. CASE proc'[q] = proc[q]
    BY <1>2, <2>1 DEF Quiet
  <2>2. CASE proc'[q] # proc[q]
    <3>1. q = p /\ MakeDir(p)
      BY <2>2 DEF MakeDir, WriteMeta, EndWrite, Scan, Now, Goto, TypeOK, Working, Idle
    <3>2. proc[p].job = "start" /\ proc[p].run \in made'
      BY <1>1, <3>1 DEF MakeDir, At, Proper
    <3>3. proc'[q] = [proc[q] EXCEPT !.pc = "key"]
      BY <3>1 DEF MakeDir, Now, Goto, TypeOK
    <3>4. /\ proc'[q].run = proc[q].run /\ proc'[q].job = "start" /\ proc'[q].pc = "key"
      BY <1>1, <3>1, <3>2, <3>3 DEF Activity
    <3> QED BY <3>1, <3>2, <3>4 DEF Steady, Counting, Linked
  <2> QED BY <2>1, <2>2
<1>4. \A q \in Procs : (Steady(proc'[q]) <=> Steady(proc[q])')
                    /\ (Working(proc'[q]) <=> Working(proc[q])')
  BY <1>2 DEF Steady, Working
<1>5. \A r \in Runs : r \notin made' => file'[r] = <<>> /\ meta'[r].status = "none"
  <2>1. CASE MakeDir(p) \/ Scan(p)
    BY <1>2, <2>1 DEF MakeDir, Scan, disk, Quiet
  <2>2. CASE WriteMeta(p) \/ EndWrite(p)
    <3>1. proc[p].run \in made
      BY <2>2, Known DEF WriteMeta, EndWrite, At, Working
    <3>2. \A r \in Runs : r # proc[p].run => meta'[r] = meta[r]
      BY <2>2 DEF WriteMeta, EndWrite, TypeOK
    <3> QED BY <1>2, <3>1, <3>2 DEF Quiet
  <2> QED BY <2>1, <2>2
<1>6. \A r \in reported' : causes'[r] # {}
  <2>1. CASE ~Scan(p)
    BY <1>2, <2>1 DEF MakeDir, WriteMeta, EndWrite, aux, Quiet
  <2>2. CASE Scan(p)
    <3> DEFINE r == proc[p].run
    <3>1. r \in Runs /\ (causes[r] = {} => Steady(proc[p])) /\ At(p, "scan")
      BY <2>2, Known DEF Scan, At, Working
    <3>2. causes[r] = {} => Verdict(file[r], proc[p].mine) # "tampered"
      <4>1. causes[r] = {} => proc[p].mine = key /\ Chained(file[r], key)
        BY <3>1 DEF Steady, At, Quiet
      <4>2. file[r] \in Seq(Line) /\ key \in Keys \cup {NoKey}
        BY <3>1 DEF TypeOK
      <4> QED BY <4>1, <4>2, ChainedVerifies
    <3> QED BY <1>2, <2>2, <3>2 DEF Scan, Quiet
  <2> QED BY <2>1, <2>2
<1>7. \A r \in Runs : causes'[r] = {} => r \notin open' /\ Chained(file'[r], key')
  BY <1>2 DEF Quiet
<1> QED BY <1>3, <1>4, <1>5, <1>6, <1>7 DEF Quiet

LEMMA QuietInvariant == Spec => []Quiet
<1>1. Init => Quiet
  BY DEF Init, Quiet, Chained, NoMeta, Idle, Working
<1>2. Sound /\ Quiet /\ [Next]_vars => Quiet'
  <2> SUFFICES ASSUME Sound, Quiet, [Next]_vars PROVE Quiet'
    OBVIOUS
  <2> TypeOK /\ Phases /\ Procs = Clis \cup Calls
    BY DEF Sound, Procs
  <2>1. CASE UNCHANGED vars
    BY <2>1 DEF vars, Quiet, Steady, Working
  <2>2. CASE Next
    BY <2>2, BeginningsQuiet, KeyStepsQuiet, ReadingsQuiet, InstallQuiet, AppendQuiet,
       ManipulationQuiet, BookkeepingQuiet DEF Next
  <2> QED BY <2>1, <2>2
<1> QED BY <1>1, <1>2, SoundInvariant, PTL DEF Spec

\* No false alarm: runs verify calls a run tampered only after an append that
\* raced another, a torn or an unsigned append, a second key or a manipulation.
THEOREM AlarmHasCauseHolds == Spec => []AlarmHasCause
<1>1. Sound /\ Quiet => AlarmHasCause
  <2> SUFFICES ASSUME Sound, Quiet, NEW r \in Runs, causes[r] = {}
               PROVE  r \notin reported /\ Verdict(file[r], key) # "tampered"
    BY DEF AlarmHasCause
  <2>1. file[r] \in Seq(Line) /\ key \in Keys \cup {NoKey}
    BY DEF Sound, TypeOK
  <2> QED BY <2>1, ChainedVerifies DEF Quiet
<1> QED BY <1>1, SoundInvariant, QuietInvariant, PTL

-----------------------------------------------------------------------------
(* No returned event is lost *)

\* The inductive invariant: a torn tail has its cause.
Surviving ==
    /\ \A r \in open : causes[r] \cap {"cut", "edit"} # {}
    /\ ReturnedEventsSurvive

LEMMA SurvivingInvariant == Spec => []Surviving
<1>1. Init => Surviving
  BY DEF Init, Surviving, ReturnedEventsSurvive
<1>2. Sound /\ Surviving /\ [Next]_vars => Surviving'
  <2> SUFFICES ASSUME Sound, Surviving, [Next]_vars PROVE Surviving'
    OBVIOUS
  <2> TypeOK /\ Phases /\ Procs = Clis \cup Calls
    BY DEF Sound, Procs
  <2> USE DEF Surviving, ReturnedEventsSurvive
  <2>1. CASE UNCHANGED <<file, open, logged, causes>>
    BY <2>1
  <2>2. ASSUME NEW p \in Procs, InstallKey(p) PROVE Surviving'
    <3>1. UNCHANGED <<file, open, logged>> /\ \A r \in Runs : causes[r] \subseteq causes'[r]
      BY <2>2 DEF InstallKey
    <3> QED BY <3>1 DEF TypeOK
  <2>3. ASSUME NEW p \in Procs, AppendLine(p) \/ CutAppend(p) PROVE Surviving'
    <3> DEFINE r == proc[p].run
    <3>1. proc[p] \in Activity /\ Proper(p, proc[p]) /\ At(p, "append") /\ events \in Nat
      BY <2>3 DEF AppendLine, CutAppend, TypeOK, Phases
    <3>2. r \in Runs /\ NewLine(p) \in Line
      <4>1. r \in Runs /\ proc[p].job \in {"log", "receipt"}
        BY <3>1 DEF Proper, At
      <4> QED BY <3>1, <4>1 DEF NewLine, Activity, Line
    <3>3. CASE CutAppend(p)
      <4>1. "cut" \in causes'[r] /\ \A s \in Runs \ {r} :
               causes'[s] = causes[s] /\ file'[s] = file[s]
        BY <3>2, <3>3 DEF CutAppend, TypeOK
      <4>2. open' = open \cup {r} /\ logged' = logged
        BY <3>3 DEF CutAppend
      <4> QED BY <3>2, <4>1, <4>2 DEF TypeOK
    <3>4. CASE AppendLine(p)
      <4>1. /\ file'[r] = Extended(r, NewLine(p)) /\ causes[r] \subseteq causes'[r]
            /\ \A s \in Runs \ {r} : causes'[s] = causes[s] /\ file'[s] = file[s]
        BY <3>2, <3>4 DEF AppendLine, TypeOK
      <4>2. open' = open \ {r} /\ logged' = logged \cup {<<r, events + 1>>}
        BY <3>4 DEF AppendLine
      <4>3. ASSUME NEW e \in logged', causes'[e[1]] \cap {"cut", "edit"} = {}
            PROVE  \E i \in DOMAIN file'[e[1]] : file'[e[1]][i].id = e[2]
        <5>1. e[1] \in Runs
          BY <3>2, <4>2 DEF TypeOK
        <5>2. CASE e[1] # r
          BY <4>1, <4>2, <4>3, <5>1, <5>2
        <5>3. CASE e[1] = r
          <6>1. r \notin open
            BY <4>1, <4>3, <5>3
          <6>2. /\ file'[r] = Append(file[r], NewLine(p)) /\ file[r] \in Seq(Line)
            BY <3>2, <4>1, <6>1 DEF Extended, TypeOK
          <6>3. /\ DOMAIN file'[r] = 1..(Len(file[r]) + 1)
                /\ \A i \in DOMAIN file[r] : file'[r][i] = file[r][i]
                /\ DOMAIN file[r] = 1..Len(file[r]) /\ Len(file[r]) \in Nat
                /\ file'[r][Len(file[r]) + 1] = NewLine(p)
            BY <3>2, <6>2
          <6>4. CASE e = <<r, events + 1>>
            <7>1. NewLine(p).id = e[2]
              BY <6>4 DEF NewLine
            <7>2. Len(file[r]) + 1 \in DOMAIN file'[e[1]]
              BY <5>3, <6>3
            <7> QED BY <5>3, <6>3, <7>1, <7>2
          <6>5. CASE e \in logged
            <7>1. PICK i \in DOMAIN file[r] : file[r][i].id = e[2]
              BY <4>1, <4>3, <5>3, <6>5
            <7>2. i \in DOMAIN file'[r] /\ file'[r][i].id = e[2]
              BY <6>3, <7>1
            <7> QED BY <5>3, <7>2
          <6> QED BY <4>2, <6>4, <6>5
        <5> QED BY <5>2, <5>3
      <4>4. \A s \in open' : causes'[s] \cap {"cut", "edit"} # {}
        BY <4>1, <4>2 DEF TypeOK
      <4> QED BY <4>3, <4>4
    <3> QED BY <2>3, <3>3, <3>4
  <2>4. ASSUME NEW r \in Runs, NEW i \in DOMAIN file[r], EditLine(r, i) \/ RemoveLine(r, i)
        PROVE  Surviving'
    <3>1. PICK lines : Edited(r, lines)
      BY <2>4 DEF EditLine, RemoveLine
    <3>2. "edit" \in causes'[r] /\ \A s \in Runs \ {r} :
             causes'[s] = causes[s] /\ file'[s] = file[s]
      BY <3>1 DEF Edited, TypeOK
    <3>3. open' \subseteq open /\ logged' = logged
      BY <2>4, <3>1 DEF EditLine, RemoveLine, Edited
    <3> QED BY <3>2, <3>3 DEF TypeOK
  <2>5. ASSUME NEW p \in Procs,
               \/ \E r \in Runs : \/ BeginStart(p, r) \/ BeginLog(p, r) \/ BeginEnd(p, r)
                                  \/ BeginVerify(p, r) \/ BeginReceipt(p, r)
               \/ ReadKey(p) \/ GenerateKey(p) \/ CaptureKey(p) \/ KeyFails(p)
               \/ ReadTip(p) \/ EndTip(p) \/ TakeLock(p) \/ ReadLedger(p) \/ CheckLedger(p)
               \/ Abandon(p) \/ MakeDir(p) \/ WriteMeta(p) \/ EndWrite(p) \/ Scan(p)
        PROVE  UNCHANGED <<file, open, logged, causes>>
    BY <2>5 DEF BeginStart, BeginLog, BeginEnd, BeginVerify, BeginReceipt, ReadKey,
       GenerateKey, CaptureKey, KeyFails, ReadTip, EndTip, TakeLock, ReadLedger,
       CheckLedger, Abandon, MakeDir, WriteMeta, EndWrite, Scan, disk, aux
  <2> QED BY <2>1, <2>2, <2>3, <2>4, <2>5 DEF Next, vars
<1> QED BY <1>1, <1>2, SoundInvariant, PTL DEF Spec

\* Overlapping appends lose nothing: an event whose append returned is on a
\* line of its own until a torn append or a manipulation strikes its run.
THEOREM ReturnedEventsSurviveHolds == Spec => []ReturnedEventsSurvive
<1>1. Surviving => ReturnedEventsSurvive
  BY DEF Surviving
<1> QED BY <1>1, SurvivingInvariant, PTL

-----------------------------------------------------------------------------
(* Receipts of one server keep their sequence numbers apart *)

\* The lock has one holder; a receipt's number is at most the place of its line,
\* and what the holder has read is past every receipt there is.
Ordered(r) ==
    \A i \in Readable(file[r]) : file[r][i].by = "receipt" => file[r][i].seq <= i

Ahead(p) ==
    LET r == proc[p].run IN
    /\ proc[p].seq <= Len(file[r]) + 1
    /\ \A i \in Readable(file[r]) : file[r][i].by = "receipt" => file[r][i].seq < proc[p].seq

Served ==
    /\ \A p \in Calls : ~At(p, "idle") => proc[p].job = "receipt"
    /\ \A p, q \in Calls : Locked(p) /\ Locked(q) => p = q
    /\ \A r \in Runs : "edit" \notin causes[r] => Ordered(r)
    /\ \A p \in Calls :
         proc[p].pc \in {"check", "append"} /\ "edit" \notin causes[proc[p].run] => Ahead(p)
    /\ ReceiptSeqsDistinct

\* What a step that leaves the ledgers alone does to the tool call that takes it.
Orderly(p) ==
    /\ proc'[p].pc # "idle" => proc'[p].job = "receipt"
    /\ Locked(p)' => Locked(p) \/ \A q \in Calls : ~Locked(q)
    /\ proc'[p].pc \in {"check", "append"} =>
         \/ /\ proc[p].pc \in {"check", "append"}
            /\ proc'[p].run = proc[p].run /\ proc'[p].seq = proc[p].seq
         \/ proc'[p].run \in Runs /\ proc'[p].seq = Len(file[proc'[p].run]) + 1

LEMMA OrderlyStep ==
    ASSUME Sound, Served, NEW p \in Procs, p \in Calls => Orderly(p),
           file' = file, proc' = [proc EXCEPT ![p] = proc'[p]],
           \A r \in Runs : "edit" \in causes[r] => "edit" \in causes'[r]
    PROVE  Served'
<1>1. /\ proc \in [Procs -> Activity] /\ Calls \subseteq Procs
      /\ \A q \in Procs \ {p} : proc'[q] = proc[q]
      /\ \A r \in Runs : file[r] \in Seq(Line)
      /\ \A q \in Procs : ~At(q, "idle") => proc[q].run \in Runs
  BY DEF Sound, TypeOK, Procs, Phases, Proper, At
<1>2. \A q \in Calls : At(q, "idle")' \/ proc'[q].job = "receipt"
  BY <1>1 DEF Served, Orderly, At
<1>3. \A q, s \in Calls : Locked(q)' /\ Locked(s)' => q = s
  BY <1>1 DEF Served, Orderly, Locked
<1>4. \A r \in Runs : "edit" \notin causes'[r] => Ordered(r)'
  BY DEF Served, Ordered
<1>5. ASSUME NEW q \in Calls, proc'[q].pc \in {"check", "append"},
             "edit" \notin causes'[proc'[q].run]
      PROVE  Ahead(q)'
  <2>1. CASE /\ proc[q].pc \in {"check", "append"}
             /\ proc'[q].run = proc[q].run /\ proc'[q].seq = proc[q].seq
    <3>1. "edit" \notin causes[proc[q].run]
      BY <1>1, <1>5, <2>1 DEF At
    <3>2. Ahead(q)
      BY <2>1, <3>1 DEF Served
    <3> QED BY <2>1, <3>2 DEF Ahead
  <2>2. CASE proc'[q].run \in Runs /\ proc'[q].seq = Len(file[proc'[q].run]) + 1
    <3> DEFINE r == proc'[q].run
    <3>1. Ordered(r) /\ file[r] \in Seq(Line)
      BY <1>1, <1>5, <2>2 DEF Served
    <3>2. ASSUME NEW i \in Readable(file[r]), file[r][i].by = "receipt"
          PROVE  file[r][i].seq < proc'[q].seq
      <4>1. i \in 1..Len(file[r]) /\ file[r][i] \in Line
        BY <3>1 DEF Readable
      <4>2. file[r][i].seq \in Nat /\ file[r][i].seq <= i
        BY <3>1, <3>2, <4>1 DEF Ordered, Line
      <4> QED BY <2>2, <4>1, <4>2
    <3>3. Len(file[r]) \in Nat
      BY <3>1
    <3> QED BY <2>2, <3>2, <3>3 DEF Ahead
  <2> QED BY <1>1, <1>5, <2>1, <2>2 DEF Orderly
<1>6. ReceiptSeqsDistinct'
  BY DEF Served, ReceiptSeqsDistinct
<1> QED BY <1>2, <1>3, <1>4, <1>5, <1>6 DEF Served, At

\* What an append adds to the lines that can be read.
LEMMA ExtendedReadable ==
    ASSUME TypeOK, Phases, NEW r \in Runs, NEW line \in Line
    PROVE  /\ Len(file[r]) \in Nat /\ Len(file[r]) <= Len(Extended(r, line))
           /\ \A i \in Readable(Extended(r, line)) :
                \/ i \in Readable(file[r]) /\ Extended(r, line)[i] = file[r][i]
                \/ i = Len(file[r]) + 1 /\ Extended(r, line)[i] = line /\ line.id # 0
<1>1. file[r] \in Seq(Line) /\ Extended(r, line) \in Seq(Line)
  BY ExtendedType DEF TypeOK
<1>2. /\ DOMAIN file[r] = 1..Len(file[r]) /\ Len(file[r]) \in Nat
      /\ DOMAIN Extended(r, line) = 1..Len(Extended(r, line))
  BY <1>1
<1>3. CASE r \in open
  <2>1. /\ Len(Extended(r, line)) = Len(file[r])
        /\ \A i \in 1..Len(file[r]) : Extended(r, line)[i] =
               IF i = Len(file[r]) THEN Junk ELSE file[r][i]
    BY <1>3, ExtendedType
  <2>2. Junk.id = 0
    BY DEF Junk
  <2> QED BY <1>2, <2>1, <2>2 DEF Readable
<1>4. CASE r \notin open
  <2>1. /\ Len(Extended(r, line)) = Len(file[r]) + 1
        /\ \A i \in 1..Len(file[r]) : Extended(r, line)[i] = file[r][i]
        /\ Extended(r, line)[Len(file[r]) + 1] = line
    BY <1>4, ExtendedType
  <2>2. ASSUME NEW i \in Readable(Extended(r, line))
        PROVE  \/ i \in Readable(file[r]) /\ Extended(r, line)[i] = file[r][i]
               \/ i = Len(file[r]) + 1 /\ Extended(r, line)[i] = line /\ line.id # 0
    <3>1. i \in 1..(Len(file[r]) + 1) /\ Extended(r, line)[i].id # 0
      BY <1>2, <2>1, <2>2 DEF Readable
    <3>2. i \in 1..Len(file[r]) \/ i = Len(file[r]) + 1
      BY <1>2, <3>1
    <3> QED BY <1>2, <2>1, <3>1, <3>2 DEF Readable
  <2> QED BY <1>2, <2>1, <2>2
<1> QED BY <1>3, <1>4

\* An append: what no line of the ledger is past, and the line that is added.
LEMMA OrderlyAppend ==
    ASSUME Sound, Served, NEW p \in Procs, AppendLine(p) \/ CutAppend(p)
    PROVE  Served'
<1> DEFINE r == proc[p].run
<1> TypeOK /\ Phases /\ Calls \subseteq Procs
  BY DEF Sound, Procs
<1>1. proc[p] \in Activity /\ Proper(p, proc[p]) /\ At(p, "append") /\ events \in Nat
  BY DEF AppendLine, CutAppend, TypeOK, Phases
<1>2. r \in Runs /\ NewLine(p) \in Line /\ proc[p].job \in {"log", "receipt"}
  <2>1. r \in Runs /\ proc[p].job \in {"log", "receipt"}
    BY <1>1 DEF Proper, At
  <2> QED BY <1>1, <2>1 DEF NewLine, Activity, Line
<1>3. PICK part \in {NewLine(p), Junk} : file' = [file EXCEPT ![r] = Extended(r, part)]
  BY DEF AppendLine, CutAppend
<1>4. part \in Line
  BY <1>2, <1>3, Constants
<1>5. /\ file'[r] = Extended(r, part) /\ file[r] \in Seq(Line) /\ file'[r] \in Seq(Line)
      /\ \A s \in Runs \ {r} : file'[s] = file[s]
  BY <1>2, <1>3, <1>4, ExtendedType DEF TypeOK
<1>6. \A s \in Runs : causes[s] \subseteq causes'[s]
  <2>1. \E more : causes' = [causes EXCEPT ![r] = @ \cup more]
    BY DEF AppendLine, CutAppend
  <2> QED BY <1>2, <2>1 DEF TypeOK
<1>7. /\ \A q \in Procs \ {p} : proc'[q] = proc[q]
      /\ proc'[p] = Idle
  BY DEF AppendLine, CutAppend, Now, TypeOK
<1>8. Len(file[r]) \in Nat /\ Len(file[r]) <= Len(file'[r])
  BY <1>2, <1>4, <1>5, ExtendedReadable
<1>9. \A i \in Readable(file'[r]) :
         \/ i \in Readable(file[r]) /\ file'[r][i] = file[r][i]
         \/ i = Len(file[r]) + 1 /\ file'[r][i] = NewLine(p)
  <2>1. part = Junk => part.id = 0
    BY DEF Junk
  <2> QED BY <1>2, <1>3, <1>4, <1>5, <2>1, ExtendedReadable
<1>10. ASSUME NewLine(p).by = "receipt", "edit" \notin causes[r]
       PROVE  p \in Calls /\ Ahead(p)
  <2>1. proc[p].job = "receipt"
    BY <1>10 DEF NewLine
  <2>2. p \in Calls
    BY <1>1, <2>1 DEF Proper
  <2> QED BY <1>1, <1>10, <2>2 DEF Served, At
<1>11. NewLine(p).seq = proc[p].seq /\ proc[p].seq \in Nat
  BY <1>1 DEF NewLine, Activity
<1>12. ASSUME NEW s \in Runs, "edit" \notin causes'[s]
       PROVE  /\ Ordered(s)'
              /\ \A i, j \in Readable(file'[s]) :
                    i # j /\ file'[s][i].by = "receipt" /\ file'[s][j].by = "receipt"
                      => file'[s][i].seq # file'[s][j].seq
  <2>1. "edit" \notin causes[s]
    BY <1>6, <1>12
  <2>2. /\ Ordered(s)
        /\ \A i, j \in Readable(file[s]) :
              i # j /\ file[s][i].by = "receipt" /\ file[s][j].by = "receipt"
                => file[s][i].seq # file[s][j].seq
    BY <2>1 DEF Served, ReceiptSeqsDistinct
  <2>3. CASE s # r
    BY <1>5, <2>2, <2>3 DEF Ordered
  <2>4. CASE s = r
    <3>1. ASSUME NEW i \in Readable(file'[r]), file'[r][i].by = "receipt"
          PROVE  file'[r][i].seq <= i
      <4>1. CASE i \in Readable(file[r]) /\ file'[r][i] = file[r][i]
        BY <2>2, <2>4, <3>1, <4>1 DEF Ordered
      <4>2. CASE i = Len(file[r]) + 1 /\ file'[r][i] = NewLine(p)
        BY <1>10, <1>11, <2>1, <2>4, <3>1, <4>2 DEF Ahead
      <4> QED BY <1>9, <4>1, <4>2
    <3>2. ASSUME NEW i \in Readable(file[r]), file[r][i].by = "receipt",
                 NewLine(p).by = "receipt"
          PROVE  file[r][i].seq # NewLine(p).seq
      <4>1. file[r][i].seq < NewLine(p).seq
        BY <1>10, <1>11, <2>1, <2>4, <3>2 DEF Ahead
      <4>2. file[r][i] \in Line
        BY <1>5, <3>2 DEF Readable
      <4>3. file[r][i].seq \in Nat
        BY <4>2 DEF Line
      <4> QED BY <1>11, <4>1, <4>3
    <3>3. \A i, j \in Readable(file'[r]) :
             i # j /\ file'[r][i].by = "receipt" /\ file'[r][j].by = "receipt"
               => file'[r][i].seq # file'[r][j].seq
      BY <1>9, <2>2, <2>4, <3>2
    <3> QED BY <2>4, <3>1, <3>3 DEF Ordered
  <2> QED BY <2>3, <2>4
<1>13. ASSUME NEW q \in Calls, proc'[q].pc \in {"check", "append"},
              "edit" \notin causes'[proc'[q].run]
       PROVE  Ahead(q)'
  <2> DEFINE s == proc[q].run
  <2>1. q # p /\ proc'[q] = proc[q]
    BY <1>7, <1>13 DEF Idle
  <2>2. s \in Runs /\ proc[q] \in Activity
    BY <1>13, <2>1 DEF TypeOK, Phases, Proper
  <2>3. Ahead(q)
    BY <1>6, <1>13, <2>1, <2>2 DEF Served
  <2>4. Len(file[s]) \in Nat /\ Len(file'[s]) \in Nat /\ Len(file[s]) <= Len(file'[s])
    <3>1. file[s] \in Seq(Line)
      BY <2>2 DEF TypeOK
    <3> QED BY <1>5, <1>8, <2>2, <3>1
  <2>5. NewLine(p).by # "receipt"
    <3>1. Locked(q) /\ Locked(p)
      BY <1>1, <1>13, <2>1 DEF Locked, At
    <3>2. p \notin Calls
      BY <2>1, <3>1 DEF Served
    <3> QED BY <1>1, <3>2 DEF Proper, NewLine
  <2>6. ASSUME NEW i \in Readable(file'[s]), file'[s][i].by = "receipt"
        PROVE  file'[s][i].seq < proc[q].seq
    <3>1. CASE s # r
      BY <1>5, <2>2, <2>3, <2>6, <3>1 DEF Ahead
    <3>2. CASE s = r
      BY <1>9, <2>3, <2>5, <2>6, <3>2 DEF Ahead
    <3> QED BY <3>1, <3>2
  <2>7. proc[q].seq <= Len(file'[s]) + 1
    <3>1. proc[q].seq <= Len(file[s]) + 1 /\ proc[q].seq \in Nat
      BY <2>2, <2>3 DEF Ahead, Activity
    <3>2. ASSUME NEW n \in Nat, NEW a \in Nat, NEW b \in Nat, n <= a + 1, a <= b
          PROVE  n <= b + 1
      BY <3>2
    <3> QED BY <2>4, <3>1, <3>2
  <2> QED BY <2>1, <2>6, <2>7 DEF Ahead
<1>14. /\ \A q \in Calls : At(q, "idle")' \/ proc'[q].job = "receipt"
       /\ \A q, s \in Calls : Locked(q)' /\ Locked(s)' => q = s
  BY <1>7 DEF Served, At, Locked, Idle
<1> QED BY <1>12, <1>13, <1>14 DEF Served, ReceiptSeqsDistinct, At

\* A step of a process that is not an append.
Bystep(p) ==
    \/ p \in Clis /\ \E r \in Runs : \/ BeginStart(p, r) \/ BeginLog(p, r)
                                    \/ BeginEnd(p, r) \/ BeginVerify(p, r)
    \/ \E r \in Runs : BeginReceipt(p, r)
    \/ ReadKey(p) \/ GenerateKey(p) \/ CaptureKey(p) \/ InstallKey(p) \/ KeyFails(p)
    \/ MakeDir(p) \/ WriteMeta(p) \/ ReadTip(p) \/ EndTip(p) \/ EndWrite(p) \/ Scan(p)
    \/ TakeLock(p) \/ ReadLedger(p) \/ CheckLedger(p) \/ Abandon(p)

\* It changes one process, no ledger, and the key file only to install a key.
LEMMA BystepLocal ==
    ASSUME TypeOK, NEW p \in Procs, Bystep(p)
    PROVE  /\ file' = file
           /\ proc' = [proc EXCEPT ![p] = proc'[p]] /\ \A a : Now(p, a) => proc'[p] = a
           /\ (causes' = causes /\ key' = key) \/ InstallKey(p)
           /\ events' = events /\ edits' = edits
<1>1. /\ file' = file
      /\ \E a : Now(p, a)
      /\ (causes' = causes /\ key' = key) \/ InstallKey(p)
      /\ events' = events /\ edits' = edits
  <2>1. CASE p \in Clis /\ \E r \in Runs : \/ BeginStart(p, r) \/ BeginLog(p, r)
                                          \/ BeginEnd(p, r) \/ BeginVerify(p, r)
    BY <2>1 DEF BeginStart, BeginLog, BeginEnd, BeginVerify, disk, aux
  <2>2. CASE \E r \in Runs : BeginReceipt(p, r)
    <3>1. PICK r \in Runs : BeginReceipt(p, r)
      BY <2>2
    <3> DEFINE a == [Begin(p, "receipt", r, "bound") EXCEPT !.mine = key, !.bound = meta[r]]
    <3>2. Now(p, a) /\ file' = file /\ causes' = causes /\ key' = key
          /\ events' = events /\ edits' = edits
      BY <3>1, Zenon DEF BeginReceipt, disk, aux
    <3> HIDE DEF a
    <3> QED BY <3>2
  <2>3. CASE ReadKey(p) \/ GenerateKey(p) \/ CaptureKey(p) \/ InstallKey(p) \/ KeyFails(p)
    BY <2>3 DEF ReadKey, GenerateKey, CaptureKey, InstallKey, KeyFails, Goto, disk, aux
  <2>4. CASE MakeDir(p) \/ WriteMeta(p) \/ ReadTip(p) \/ EndTip(p) \/ EndWrite(p) \/ Scan(p)
    BY <2>4 DEF MakeDir, WriteMeta, ReadTip, EndTip, EndWrite, Scan, Goto, disk, aux
  <2>5. CASE TakeLock(p) \/ ReadLedger(p) \/ CheckLedger(p) \/ Abandon(p)
    BY <2>5 DEF TakeLock, ReadLedger, CheckLedger, Abandon, Goto, disk, aux
  <2> QED BY <2>1, <2>2, <2>3, <2>4, <2>5 DEF Bystep
<1> QED BY <1>1 DEF TypeOK, Now

LEMMA OrderlyRest ==
    ASSUME Sound, Served, NEW p \in Procs, Bystep(p)
    PROVE  Served'
<1> TypeOK /\ Phases
  BY DEF Sound
<1>1. file' = file
  BY BystepLocal
<1>2. proc' = [proc EXCEPT ![p] = proc'[p]] /\ \A a : Now(p, a) => proc'[p] = a
  BY BystepLocal
<1>3. \A r \in Runs : "edit" \in causes[r] => "edit" \in causes'[r]
  <2>1. CASE InstallKey(p)
    BY <2>1 DEF InstallKey
  <2> QED BY <2>1, BystepLocal
<1>4. ASSUME p \in Calls PROVE Orderly(p)
  <2>1. p \notin Clis /\ (At(p, "idle") \/ proc[p].job = "receipt")
        /\ proc[p] \in Activity /\ Proper(p, proc[p])
    BY <1>4, LedgerAssumption DEF Served, TypeOK, Phases
  <2>2. CASE \E r \in Runs : BeginReceipt(p, r)
    <3>1. PICK r \in Runs : BeginReceipt(p, r)
      BY <2>2
    <3> DEFINE a == [Begin(p, "receipt", r, "bound") EXCEPT !.mine = key, !.bound = meta[r]]
    <3>2. a.pc = "bound" /\ a.job = "receipt"
      BY DEF Begin, Idle
    <3>3. Now(p, a)
      BY <3>1, Zenon DEF BeginReceipt
    <3> HIDE DEF a
    <3>4. proc'[p].pc = "bound" /\ proc'[p].job = "receipt"
      BY <1>2, <3>2, <3>3
    <3> QED BY <3>4 DEF Orderly, Locked
  <2>3. CASE ReadKey(p) \/ GenerateKey(p) \/ CaptureKey(p)
    <3>1. /\ proc'[p].job = proc[p].job /\ proc[p].job = "receipt"
          /\ proc'[p].pc \in {"read", "capture", "install"} /\ Locked(p)
      BY <1>2, <2>1, <2>3 DEF ReadKey, GenerateKey, CaptureKey, KeyUse, At, Activity, Locked
    <3> QED BY <3>1 DEF Orderly
  <2>4. CASE InstallKey(p)
    <3>1. At(p, "install") /\ proc[p].job = "receipt"
      BY <2>1, <2>4 DEF InstallKey, At
    <3>2. proc'[p] = [proc[p] EXCEPT !.pc = "key", !.mine = NoKey]
      BY <1>2, <2>4, <3>1 DEF InstallKey
    <3> QED BY <2>1, <3>1, <3>2 DEF Orderly, Locked, At, Activity
  <2>5. CASE MakeDir(p) \/ WriteMeta(p) \/ ReadTip(p) \/ EndTip(p) \/ EndWrite(p)
             \/ Scan(p) \/ Abandon(p) \/ KeyFails(p)
    <3>1. CASE WriteMeta(p) \/ EndWrite(p) \/ Scan(p) \/ Abandon(p)
      <4>1. proc'[p].pc = "idle"
        BY <1>2, <3>1 DEF WriteMeta, EndWrite, Scan, Abandon, Idle
      <4> QED BY <4>1 DEF Orderly, Locked
    <3>2. CASE EndTip(p)
      <4>1. proc'[p].pc = "endwrite" /\ proc'[p].job = "receipt"
        BY <1>2, <2>1, <3>2 DEF EndTip, At, Activity
      <4> QED BY <4>1 DEF Orderly, Locked
    <3>3. ~MakeDir(p) /\ ~ReadTip(p) /\ ~KeyFails(p)
      BY <2>1 DEF MakeDir, ReadTip, KeyFails, Proper, At
    <3> QED BY <2>5, <3>1, <3>2, <3>3
  <2>6. CASE TakeLock(p)
    <3>1. proc'[p] = [proc[p] EXCEPT !.pc = "key"] /\ \A q \in Calls : ~Locked(q)
      BY <1>2, <2>6 DEF TakeLock, Goto, MayLock
    <3> QED BY <2>1, <2>6, <3>1 DEF Orderly, TakeLock, At, Activity
  <2>7. CASE ReadLedger(p)
    <3>1. /\ proc'[p].pc = "check" /\ proc'[p].job = proc[p].job
          /\ proc'[p].run = proc[p].run /\ proc'[p].seq = Len(file[proc[p].run]) + 1
      BY <1>2, <2>1, <2>7 DEF ReadLedger, Activity
    <3> QED BY <2>1, <2>7, <3>1 DEF Orderly, ReadLedger, At, Locked, Proper
  <2>8. CASE CheckLedger(p)
    <3>1. proc'[p] = [proc[p] EXCEPT !.pc = "append"]
      BY <1>2, <2>8 DEF CheckLedger, Goto
    <3> QED BY <2>1, <2>8, <3>1 DEF Orderly, CheckLedger, At, Locked, Activity
  <2> QED BY <2>1, <2>2, <2>3, <2>4, <2>5, <2>6, <2>7, <2>8 DEF Bystep
<1> QED BY <1>1, <1>2, <1>3, <1>4, OrderlyStep

LEMMA ServedInvariant == Spec => []Served
<1>1. Init => Served
  <2> SUFFICES ASSUME Init PROVE Served
    OBVIOUS
  <2>1. \A p \in Calls : proc[p].pc = "idle"
    BY DEF Init, Procs, Idle
  <2>2. \A r \in Runs : Readable(file[r]) = {}
    BY DEF Init, Readable
  <2> QED BY <2>1, <2>2 DEF Served, At, Locked, Ordered, ReceiptSeqsDistinct
<1>2. Sound /\ Served /\ [Next]_vars => Served'
  <2> SUFFICES ASSUME Sound, Served, [Next]_vars PROVE Served'
    OBVIOUS
  <2> Procs = Clis \cup Calls
    BY DEF Procs
  <2>1. CASE UNCHANGED vars
    BY <2>1 DEF Served, ReceiptSeqsDistinct, Ordered, Ahead, Locked, At, vars
  <2>2. ASSUME NEW r \in Runs, NEW i \in DOMAIN file[r], EditLine(r, i) \/ RemoveLine(r, i)
        PROVE  Served'
    <3>1. PICK lines : Edited(r, lines)
      BY <2>2 DEF EditLine, RemoveLine
    <3>2. "edit" \in causes'[r] /\ proc' = proc /\ \A s \in Runs \ {r} :
             causes'[s] = causes[s] /\ file'[s] = file[s]
      BY <3>1 DEF Edited, Sound, TypeOK
    <3>3. \A p \in Calls : proc[p].pc # "idle" => proc[p].run \in Runs
      BY DEF Sound, Phases, Proper
    <3>4. ASSUME NEW p \in Calls, proc[p].pc \in {"check", "append"},
                 "edit" \notin causes'[proc[p].run]
          PROVE  Ahead(p)'
      BY <3>2, <3>3, <3>4 DEF Served, Ahead
    <3>5. \A s \in Runs : "edit" \notin causes'[s] => Ordered(s)'
      BY <3>2 DEF Served, Ordered
    <3>6. ReceiptSeqsDistinct'
      BY <3>2 DEF Served, ReceiptSeqsDistinct
    <3> QED BY <3>2, <3>4, <3>5, <3>6 DEF Served, At, Locked
  <2> QED BY <2>1, <2>2, OrderlyAppend, OrderlyRest DEF Next, Bystep
<1> QED BY <1>1, <1>2, SoundInvariant, PTL DEF Spec

\* One server never gives two of its receipts the same sequence number, however
\* commands append in between: the lock is held from the read to the append.
THEOREM ReceiptSeqsDistinctHolds == Spec => []ReceiptSeqsDistinct
<1>1. Served => ReceiptSeqsDistinct
  BY DEF Served
<1> QED BY <1>1, ServedInvariant, PTL

-----------------------------------------------------------------------------
(* No later step whitewashes a ledger *)

Installing(p) == proc[p].pc \in {"capture", "install"}

\* A key that is, or was, in the key file: some line or process may hold it.
Used(k) ==
    \/ key = k
    \/ \E r \in Runs : \E i \in DOMAIN file[r] : file[r][i].key = k
    \/ \E p \in Procs : proc[p].mine = k /\ ~Installing(p)

\* A key about to be installed has signed nothing, nor has any key before the
\* first one is installed.
Fresh == \A k \in Keys : key = NoKey \/ Installing(k) => ~Used(k)

\* What a step of a process does to the keys that are in use.
KeyStep(p) ==
    /\ Installing(p)' => Installing(p) \/ key = NoKey
    /\ ~Installing(p)' =>
         \/ proc'[p].mine \in {NoKey, key}
         \/ proc'[p].mine = proc[p].mine /\ ~Installing(p)

LEMMA FreshStep ==
    ASSUME Sound, Fresh, NEW p \in Procs, KeyStep(p), key' = key, file' = file,
           proc' = [proc EXCEPT ![p] = proc'[p]]
    PROVE  Fresh'
<1>1. /\ \A q \in Procs \ {p} : proc'[q] = proc[q]
      /\ Keys = Procs /\ NoKey \notin Keys
  BY LedgerAssumption DEF Sound, TypeOK, Keys, Procs
<1>2. SUFFICES ASSUME NEW k \in Keys, key = NoKey \/ Installing(k)'
               PROVE  ~Used(k)'
  BY DEF Fresh
<1>3. ~Used(k)
  BY <1>1, <1>2 DEF Fresh, KeyStep, Installing
<1>4. ASSUME NEW q \in Procs, proc'[q].mine = k, ~Installing(q)' PROVE FALSE
  <2>1. CASE q = p
    BY <1>1, <1>3, <1>4, <2>1 DEF KeyStep, Used
  <2>2. CASE q # p
    BY <1>1, <1>3, <1>4, <2>2 DEF Used, Installing
  <2> QED BY <2>1, <2>2
<1> QED BY <1>3, <1>4 DEF Used

\* An append adds no key but that of its line; a manipulation adds none.
LEMMA ExtendedKeys ==
    ASSUME TypeOK, Phases, NEW r \in Runs, NEW line \in Line,
           NEW i \in DOMAIN Extended(r, line)
    PROVE  \/ Extended(r, line)[i] \in {line, Junk}
           \/ i \in DOMAIN file[r] /\ Extended(r, line)[i] = file[r][i]
<1>1. file[r] \in Seq(Line) /\ Extended(r, line) \in Seq(Line)
  BY ExtendedType DEF TypeOK
<1>2. /\ DOMAIN file[r] = 1..Len(file[r]) /\ Len(file[r]) \in Nat
      /\ i \in 1..Len(Extended(r, line))
  BY <1>1
<1>3. CASE r \in open
  <2>1. /\ Len(Extended(r, line)) = Len(file[r])
        /\ \A j \in 1..Len(file[r]) : Extended(r, line)[j] =
               IF j = Len(file[r]) THEN Junk ELSE file[r][j]
    BY <1>3, ExtendedType
  <2> QED BY <1>2, <2>1
<1>4. CASE r \notin open
  <2>1. /\ Len(Extended(r, line)) = Len(file[r]) + 1
        /\ \A j \in 1..Len(file[r]) : Extended(r, line)[j] = file[r][j]
        /\ Extended(r, line)[Len(file[r]) + 1] = line
    BY <1>4, ExtendedType
  <2>2. i \in 1..Len(file[r]) \/ i = Len(file[r]) + 1
    BY <1>2, <2>1
  <2> QED BY <1>2, <2>1, <2>2
<1> QED BY <1>3, <1>4

LEMMA RemoveAtElements ==
    ASSUME NEW lines \in Seq(Line), NEW i \in 1..Len(lines), NEW j \in 1..(Len(lines) - 1)
    PROVE  RemoveAt(lines, i)[j] = IF j < i THEN lines[j] ELSE lines[j + 1]
<1> DEFINE front == SubSeq(lines, 1, i - 1)
           back == SubSeq(lines, i + 1, Len(lines))
<1>1. /\ front \in Seq(Line) /\ Len(front) = i - 1
      /\ \A k \in 1..(i - 1) : front[k] = lines[k]
  BY SubSeqProperties
<1>2. /\ back \in Seq(Line) /\ Len(back) = Len(lines) - i
      /\ \A k \in 1..(Len(lines) - i) : back[k] = lines[i + k]
  BY SubSeqProperties
<1> HIDE DEF front, back
<1>3. (front \o back)[j] = IF j <= Len(front) THEN front[j] ELSE back[j - Len(front)]
  BY <1>1, <1>2, ConcatProperties
<1>4. RemoveAt(lines, i) = front \o back
  BY DEF RemoveAt, front, back
<1>5. CASE j < i
  BY <1>1, <1>3, <1>4, <1>5
<1>6. CASE ~(j < i)
  <2>1. j - Len(front) \in 1..(Len(lines) - i) /\ i + (j - Len(front)) = j + 1
    BY <1>1, <1>6
  <2> QED BY <1>1, <1>2, <1>3, <1>4, <1>6, <2>1
<1> QED BY <1>5, <1>6

LEMMA EditedKeys ==
    ASSUME TypeOK, NEW r \in Runs, NEW i \in DOMAIN file[r],
           EditLine(r, i) \/ RemoveLine(r, i), NEW j \in DOMAIN file'[r]
    PROVE  \E k \in DOMAIN file[r] : file'[r][j].key = file[r][k].key
<1>1. file[r] \in Seq(Line)
  BY DEF TypeOK
<1>2. CASE EditLine(r, i)
  <2>1. file'[r] = [file[r] EXCEPT ![i].edited = TRUE]
    BY <1>2 DEF EditLine, Edited, TypeOK
  <2>2. file[r][i] \in Line /\ file[r][j] \in Line /\ j \in DOMAIN file[r]
    BY <1>1, <2>1
  <2> QED BY <2>1, <2>2 DEF Line
<1>3. CASE RemoveLine(r, i)
  <2>1. file'[r] = RemoveAt(file[r], i)
    BY <1>3 DEF RemoveLine, Edited, TypeOK
  <2>2. RemoveAt(file[r], i)[j] \in {file[r][j], file[r][j + 1]}
        /\ j \in DOMAIN file[r] /\ (RemoveAt(file[r], i)[j] = file[r][j] \/ j + 1 \in DOMAIN file[r])
    <3>1. i \in 1..Len(file[r]) /\ Len(file[r]) \in Nat /\ DOMAIN file[r] = 1..Len(file[r])
      BY <1>1
    <3>2. j \in 1..(Len(file[r]) - 1)
      BY <1>1, <2>1, <3>1, RemoveAtType
    <3>3. RemoveAt(file[r], i)[j] = IF j < i THEN file[r][j] ELSE file[r][j + 1]
      BY <1>1, <3>1, <3>2, RemoveAtElements
    <3> QED BY <3>1, <3>2, <3>3
  <2> QED BY <2>1, <2>2
<1> QED BY <1>2, <1>3

\* The steps of a process that touch neither a ledger nor the key file.
LEMMA FreshRest ==
    ASSUME Sound, Fresh, NEW p \in Procs, Bystep(p), ~InstallKey(p)
    PROVE  Fresh'
<1> TypeOK /\ Phases
  BY DEF Sound
<1>1. file' = file /\ key' = key
  BY BystepLocal
<1>2. proc' = [proc EXCEPT ![p] = proc'[p]] /\ \A a : Now(p, a) => proc'[p] = a
  BY BystepLocal
<1>3. proc[p] \in Activity /\ Proper(p, proc[p])
  BY DEF TypeOK, Phases
<1>4. KeyStep(p)
  <2>1. CASE \E r \in Runs : \/ BeginStart(p, r) \/ BeginLog(p, r)
                            \/ BeginEnd(p, r) \/ BeginVerify(p, r)
    <3>1. PICK r \in Runs : \/ BeginStart(p, r) \/ BeginLog(p, r)
                           \/ BeginEnd(p, r) \/ BeginVerify(p, r)
      BY <2>1
    <3>2. proc'[p].mine = NoKey /\ proc'[p].pc \in {"mkdir", "tip", "endtip", "key"}
      <4>1. CASE BeginStart(p, r) \/ BeginVerify(p, r)
        BY <1>2, <4>1 DEF BeginStart, BeginVerify, Begin, Idle
      <4>2. CASE BeginLog(p, r)
        <5> DEFINE a == [Begin(p, "log", r, "tip") EXCEPT !.seq = Len(file[r]) + 1]
        <5>1. a.pc = "tip" /\ a.mine = NoKey
          BY DEF Begin, Idle
        <5>2. Now(p, a)
          BY <4>2, Zenon DEF BeginLog
        <5> HIDE DEF a
        <5> QED BY <1>2, <5>1, <5>2
      <4>3. CASE BeginEnd(p, r)
        <5> DEFINE a == [Begin(p, "end", r, "endtip") EXCEPT !.seq = Len(file[r])]
        <5>1. a.pc = "endtip" /\ a.mine = NoKey
          BY DEF Begin, Idle
        <5>2. Now(p, a)
          BY <4>3, Zenon DEF BeginEnd
        <5> HIDE DEF a
        <5> QED BY <1>2, <5>1, <5>2
      <4> QED BY <3>1, <4>1, <4>2, <4>3
    <3> QED BY <3>2 DEF KeyStep, Installing
  <2>2. CASE \E r \in Runs : BeginReceipt(p, r)
    <3>1. PICK r \in Runs : BeginReceipt(p, r)
      BY <2>2
    <3> DEFINE a == [Begin(p, "receipt", r, "bound") EXCEPT !.mine = key, !.bound = meta[r]]
    <3>2. a.pc = "bound" /\ a.mine = key
      BY DEF Begin, Idle
    <3>3. Now(p, a)
      BY <3>1, Zenon DEF BeginReceipt
    <3> HIDE DEF a
    <3> QED BY <1>2, <3>2, <3>3 DEF KeyStep, Installing
  <2>3. CASE ReadKey(p) \/ KeyFails(p)
    <3>1. proc'[p].mine \in {NoKey, key} /\ proc'[p].pc \in {"meta", "append", "scan", "read"}
      BY <1>2, <1>3, <2>3 DEF ReadKey, KeyFails, KeyUse, Activity
    <3> QED BY <3>1 DEF KeyStep, Installing
  <2>4. CASE GenerateKey(p) \/ CaptureKey(p)
    <3>1. /\ proc'[p].pc \in {"capture", "install"}
          /\ key = NoKey \/ proc[p].pc = "capture"
      BY <1>2, <1>3, <2>4 DEF GenerateKey, CaptureKey, At, Activity
    <3> QED BY <3>1 DEF KeyStep, Installing
  <2>5. CASE \/ MakeDir(p) \/ ReadTip(p) \/ EndTip(p)
             \/ TakeLock(p) \/ ReadLedger(p) \/ CheckLedger(p)
    <3>1. /\ proc'[p].mine = proc[p].mine /\ proc[p].pc \notin {"capture", "install"}
          /\ proc'[p].pc \notin {"capture", "install"}
      BY <1>2, <1>3, <2>5 DEF MakeDir, ReadTip, EndTip, TakeLock, ReadLedger, CheckLedger,
         Goto, At, Activity
    <3> QED BY <3>1 DEF KeyStep, Installing
  <2>6. CASE WriteMeta(p) \/ EndWrite(p) \/ Scan(p) \/ Abandon(p)
    <3>1. Now(p, Idle)
      BY <2>6 DEF WriteMeta, EndWrite, Scan, Abandon
    <3> QED BY <1>2, <3>1 DEF KeyStep, Installing, Idle
  <2> QED BY <2>1, <2>2, <2>3, <2>4, <2>5, <2>6 DEF Bystep
<1> QED BY <1>1, <1>2, <1>4, FreshStep

LEMMA FreshInvariant == Spec => []Fresh
<1>1. Init => Fresh
  <2> SUFFICES ASSUME Init PROVE Fresh
    OBVIOUS
  <2>1. /\ \A p \in Procs : proc[p].mine = NoKey
        /\ \A r \in Runs : DOMAIN file[r] = {}
        /\ key = NoKey /\ NoKey \notin Keys
    BY LedgerAssumption DEF Init, Idle, Keys, Procs
  <2> QED BY <2>1 DEF Fresh, Used
<1>2. Sound /\ Fresh /\ [Next]_vars => Fresh'
  <2> SUFFICES ASSUME Sound, Fresh, [Next]_vars PROVE Fresh'
    OBVIOUS
  <2> TypeOK /\ Phases /\ Procs = Clis \cup Calls /\ Keys = Procs /\ NoKey \notin Keys
    BY LedgerAssumption DEF Sound, Procs, Keys
  <2>1. CASE UNCHANGED vars
    BY <2>1 DEF Fresh, Used, Installing, vars
  <2>2. ASSUME NEW p \in Procs, InstallKey(p) PROVE Fresh'
    <3>1. /\ At(p, "install") /\ proc[p].mine = p /\ key' = p /\ file' = file
      BY <2>2 DEF InstallKey, Phases, Proper, At
    <3>2. /\ \A q \in Procs \ {p} : proc'[q] = proc[q]
          /\ proc'[p].mine \in {p, NoKey} /\ ~Installing(p)'
      <4>1. \/ proc' = [proc EXCEPT ![p] = [proc[p] EXCEPT !.pc = "key", !.mine = NoKey]]
            \/ proc' = [proc EXCEPT ![p] = [proc[p] EXCEPT !.pc = KeyUse(p)]]
        BY <2>2 DEF InstallKey, Goto, Now
      <4>2. proc[p] \in Activity /\ KeyUse(p) \in {"meta", "append", "scan", "read"}
        BY DEF TypeOK, KeyUse
      <4>3. CASE proc' = [proc EXCEPT ![p] = [proc[p] EXCEPT !.pc = "key", !.mine = NoKey]]
        BY <4>2, <4>3 DEF Installing, TypeOK, Activity
      <4>4. CASE proc' = [proc EXCEPT ![p] = [proc[p] EXCEPT !.pc = KeyUse(p)]]
        BY <3>1, <4>2, <4>4 DEF Installing, TypeOK, Activity
      <4> QED BY <4>1, <4>3, <4>4
    <3>3. ASSUME NEW k \in Keys, Installing(k)' PROVE ~Used(k)'
      <4>1. k # p /\ ~Used(k)
        BY <3>2, <3>3 DEF Fresh, Installing
      <4>2. \A q \in Procs : proc'[q].mine = k => q # p
        BY <3>2, <4>1
      <4> QED BY <3>1, <3>2, <4>1, <4>2 DEF Used, Installing
    <3> QED BY <3>1, <3>3 DEF Fresh
  <2>3. ASSUME NEW p \in Procs, AppendLine(p) \/ CutAppend(p) PROVE Fresh'
    <3> DEFINE r == proc[p].run
    <3>1. /\ r \in Runs /\ At(p, "append") /\ NewLine(p) \in Line
      <4>1. proc[p] \in Activity /\ Proper(p, proc[p]) /\ events \in Nat /\ At(p, "append")
        BY <2>3 DEF TypeOK, Phases, AppendLine, CutAppend
      <4>2. r \in Runs /\ proc[p].job \in {"log", "receipt"}
        BY <4>1 DEF Proper, At
      <4> QED BY <4>1, <4>2 DEF NewLine, Activity, Line
    <3>2. PICK part \in {NewLine(p), Junk} : file' = [file EXCEPT ![r] = Extended(r, part)]
      BY <2>3 DEF AppendLine, CutAppend
    <3>3. /\ file'[r] = Extended(r, part) /\ part \in Line
          /\ \A s \in Runs \ {r} : file'[s] = file[s]
      BY <3>1, <3>2, Constants DEF TypeOK
    <3>4. \A i \in DOMAIN file'[r] :
             \/ file'[r][i].key \in {NoKey, proc[p].mine}
             \/ i \in DOMAIN file[r] /\ file'[r][i] = file[r][i]
      <4>1. part.key \in {NoKey, proc[p].mine} /\ Junk.key = NoKey
        BY <3>2 DEF NewLine, Junk
      <4>2. ASSUME NEW i \in DOMAIN Extended(r, part)
            PROVE  \/ Extended(r, part)[i] \in {part, Junk}
                   \/ i \in DOMAIN file[r] /\ Extended(r, part)[i] = file[r][i]
        BY <3>1, <3>3, ExtendedKeys
      <4> QED BY <3>3, <4>1, <4>2
    <3>5. key' = key /\ proc' = [proc EXCEPT ![p] = Idle]
      BY <2>3 DEF AppendLine, CutAppend, Now
    <3>6. ASSUME NEW k \in Keys, key = NoKey \/ Installing(k)' PROVE ~Used(k)'
      <4>1. ~Used(k)
        BY <3>5, <3>6 DEF Fresh, Installing, Idle, TypeOK
      <4>2. proc[p].mine # k
        BY <3>1, <4>1 DEF Used, Installing, At
      <4>3. \A s \in Runs : \A i \in DOMAIN file'[s] : file'[s][i].key # k
        BY <3>3, <3>4, <4>1, <4>2 DEF Used
      <4>4. \A q \in Procs : proc'[q].mine = k => q # p
        BY <3>5 DEF Idle, TypeOK
      <4>5. \A q \in Procs \ {p} : proc'[q] = proc[q]
        BY <3>5 DEF TypeOK
      <4> QED BY <3>5, <4>1, <4>3, <4>4, <4>5 DEF Used, Installing
    <3> QED BY <3>5, <3>6 DEF Fresh
  <2>4. ASSUME NEW r \in Runs, NEW i \in DOMAIN file[r], EditLine(r, i) \/ RemoveLine(r, i)
        PROVE  Fresh'
    <3>1. /\ key' = key /\ proc' = proc
          /\ \A s \in Runs \ {r} : file'[s] = file[s]
      BY <2>4 DEF EditLine, RemoveLine, Edited, TypeOK
    <3>2. \A j \in DOMAIN file'[r] : \E k \in DOMAIN file[r] : file'[r][j].key = file[r][k].key
      BY <2>4, EditedKeys
    <3> QED BY <3>1, <3>2 DEF Fresh, Used, Installing
  <2> QED BY <2>1, <2>2, <2>3, <2>4, FreshRest DEF Next, Bystep
<1> QED BY <1>1, <1>2, SoundInvariant, PTL DEF Spec

\* The lines before a place have a last one.
LEMMA LastEarlier ==
    ASSUME NEW n \in Nat, NEW earlier \in SUBSET (1..n), earlier # {}
    PROVE  \E j \in earlier : \A m \in earlier : m <= j
<1> DEFINE Past(j) == {m \in earlier : j < m}
           T == {Past(j) : j \in earlier}
<1>1. IsFiniteSet(earlier)
  <2>1. IsFiniteSet(1..n)
    BY FS_Interval
  <2> QED BY <2>1, FS_Subset
<1>2. T \subseteq FiniteSubsetsOf(earlier) /\ T # {}
  <2>1. \A j \in earlier : Past(j) \in SUBSET earlier
    OBVIOUS
  <2> HIDE DEF Past
  <2>2. \A j \in earlier : IsFiniteSet(Past(j))
    BY <1>1, <2>1, FS_Subset
  <2> QED BY <2>1, <2>2 DEF FiniteSubsetsOf
<1>3. PICK least \in T : \A past \in T : <<past, least>> \notin StrictSubsetOrdering(earlier)
  <2> HIDE DEF T
  <2> QED BY <1>2, FS_StrictSubsetOrderingWellFounded, WFMin
<1>4. PICK j \in earlier : least = Past(j)
  BY <1>3
<1>5. ASSUME NEW m \in earlier PROVE m <= j
  <2>1. CASE j < m
    <3>1. m \in Nat /\ j \in Nat /\ \A l \in earlier : l \in Nat
      OBVIOUS
    <3>2. ~(m < m) /\ \A l \in earlier : m < l => j < l
      BY <2>1, <3>1
    <3>3. Past(m) \subseteq Past(j) /\ m \in Past(j) /\ m \notin Past(m)
      BY <2>1, <3>2, Zenon
    <3>4. <<Past(m), Past(j)>> \in StrictSubsetOrdering(earlier)
      BY <3>3 DEF StrictSubsetOrdering
    <3> QED BY <1>3, <1>4, <3>4
  <2> QED BY <2>1
<1> QED BY <1>5

\* A line that does not verify still does not when a line is added after it.
LEMMA AppendTampered ==
    ASSUME NEW lines \in Seq(Line), NEW line \in Line, NEW k,
           Verdict(lines, k) = "tampered"
    PROVE  Verdict(Append(lines, line), k) = "tampered"
<1> DEFINE longer == Append(lines, line)
<1>1. /\ \A i \in DOMAIN lines : i \in DOMAIN longer /\ longer[i] = lines[i]
      /\ DOMAIN lines = 1..Len(lines) /\ Len(lines) \in Nat
      /\ DOMAIN longer = 1..(Len(lines) + 1)
  OBVIOUS
<1> HIDE DEF longer
<1>2. Readable(lines) \subseteq Readable(longer)
  BY <1>1 DEF Readable
<1>3. ASSUME NEW i \in Readable(lines), ~SignatureValid(lines, i, k)
      PROVE  ~SignatureValid(longer, i, k)
  <2>1. i \in 1..Len(lines) /\ longer[i] = lines[i]
    BY <1>1 DEF Readable
  <2>2. {j \in Readable(longer) : j < i} = {j \in Readable(lines) : j < i}
    BY <1>1, <2>1 DEF Readable
  <2>3. Before(longer, i) = Before(lines, i)
    <3> DEFINE earlier == {j \in Readable(lines) : j < i}
               last == CHOOSE j \in earlier : \A m \in earlier : m <= j
    <3>1. CASE earlier = {}
      BY <2>2, <3>1 DEF Before
    <3>2. CASE earlier # {}
      <4> earlier \in SUBSET (1..Len(lines))
        BY <1>1 DEF Readable
      <4>1. \E j \in earlier : \A m \in earlier : m <= j
        BY <1>1, <3>2, LastEarlier
      <4>2. last \in earlier
        BY <4>1
      <4>3. longer[last] = lines[last]
        BY <1>1, <4>2 DEF Readable
      <4>4. Before(lines, i) = lines[last].id
        BY <3>2 DEF Before
      <4>5. Before(longer, i) = longer[last].id
        BY <2>2, <3>2 DEF Before
      <4> QED BY <4>3, <4>4, <4>5
    <3> QED BY <3>1, <3>2
  <2> QED BY <1>3, <2>1, <2>3 DEF SignatureValid
<1>4. PICK i \in Readable(lines) : ~(lines[i].key # NoKey /\ SignatureValid(lines, i, k))
  BY DEF Verdict
<1>5. PICK j \in Readable(lines) : lines[j].key # NoKey
  BY DEF Verdict
<1>6. /\ i \in Readable(longer) /\ j \in Readable(longer) /\ longer[j].key # NoKey
      /\ ~(longer[i].key # NoKey /\ SignatureValid(longer, i, k))
  BY <1>1, <1>2, <1>3, <1>4, <1>5 DEF Readable
<1>7. Verdict(longer, k) = "tampered"
  BY <1>6 DEF Verdict
<1> QED BY <1>7 DEF longer

\* A line that was signed does not verify under a key no line carries.
LEMMA RekeyTampered ==
    ASSUME NEW lines, NEW k, NEW old, Verdict(lines, old) = "tampered",
           \A i \in DOMAIN lines : lines[i].key # k
    PROVE  Verdict(lines, k) = "tampered"
<1>1. PICK j \in Readable(lines) : lines[j].key # NoKey
  BY DEF Verdict
<1>2. ~SignatureValid(lines, j, k)
  BY <1>1 DEF Readable, SignatureValid
<1> QED BY <1>1, <1>2 DEF Verdict

\* Appending cannot whitewash: once verification fails, no later step of roam
\* makes it pass, neither an append to the stored tip nor a new key.
THEOREM TamperingSticksHolds == Spec => TamperingSticks
<1>1. ASSUME Sound, Fresh, [Next]_vars, NEW r \in Runs \ open, edits' = edits,
             Verdict(file[r], key) = "tampered"
      PROVE  Verdict(file'[r], key') = "tampered"
  <2> TypeOK /\ Phases /\ Procs = Clis \cup Calls /\ Keys = Procs
    BY <1>1 DEF Sound, Procs, Keys
  <2>1. CASE UNCHANGED vars
    BY <1>1, <2>1 DEF vars
  <2>2. ASSUME NEW p \in Procs, InstallKey(p) PROVE Verdict(file'[r], key') = "tampered"
    <3>1. /\ At(p, "install") /\ key' = p /\ file' = file
      BY <2>2 DEF InstallKey, Phases, Proper, At
    <3>2. \A i \in DOMAIN file[r] : file[r][i].key # p
      BY <1>1, <3>1 DEF Fresh, Used, Installing, At
    <3> QED BY <1>1, <3>1, <3>2, RekeyTampered
  <2>3. ASSUME NEW p \in Procs, AppendLine(p) \/ CutAppend(p)
        PROVE  Verdict(file'[r], key') = "tampered"
    <3>1. proc[p] \in Activity /\ Proper(p, proc[p]) /\ events \in Nat /\ At(p, "append")
      BY <2>3 DEF TypeOK, Phases, AppendLine, CutAppend
    <3>2. proc[p].run \in Runs /\ proc[p].job \in {"log", "receipt"}
      BY <3>1 DEF Proper, At
    <3>3. NewLine(p) \in Line
      BY <3>1, <3>2 DEF NewLine, Activity, Line
    <3>4. PICK part \in {NewLine(p), Junk} :
             file' = [file EXCEPT ![proc[p].run] = Extended(proc[p].run, part)]
      BY <2>3 DEF AppendLine, CutAppend
    <3>5. part \in Line /\ file[r] \in Seq(Line) /\ key' = key
      BY <2>3, <3>3, <3>4, Constants DEF TypeOK, AppendLine, CutAppend
    <3>6. file'[r] = file[r] \/ file'[r] = Append(file[r], part)
      BY <1>1, <3>2, <3>4 DEF Extended, TypeOK
    <3> QED BY <1>1, <3>5, <3>6, AppendTampered
  <2>4. ASSUME NEW s \in Runs, NEW i \in DOMAIN file[s], EditLine(s, i) \/ RemoveLine(s, i)
        PROVE  FALSE
    BY <1>1, <2>4 DEF EditLine, RemoveLine, Edited, TypeOK
  <2>5. ASSUME NEW p \in Procs, Bystep(p), ~InstallKey(p)
        PROVE  Verdict(file'[r], key') = "tampered"
    BY <1>1, <2>5, BystepLocal
  <2> QED BY <1>1, <2>1, <2>2, <2>3, <2>4, <2>5 DEF Next, Bystep
<1>2. Sound /\ Fresh /\ [Next]_vars
        => [\A r \in Runs \ open :
              edits' = edits /\ Verdict(file[r], key) = "tampered"
                => Verdict(file'[r], key') = "tampered"]_vars
  BY <1>1
<1> QED BY <1>2, SoundInvariant, FreshInvariant, PTL DEF Spec, TamperingSticks

-----------------------------------------------------------------------------
(* A manipulation is noticed *)

\* No two lines of a ledger carry the same event.
Distinct ==
    \A r \in Runs : \A i \in DOMAIN file[r] :
        /\ file[r][i].id <= events
        /\ \A j \in DOMAIN file[r] :
              file[r][i].id # 0 /\ file[r][j].id = file[r][i].id => j = i

LEMMA DistinctAppend ==
    ASSUME Sound, Distinct, NEW p \in Procs, AppendLine(p) \/ CutAppend(p)
    PROVE  Distinct'
<1> DEFINE r == proc[p].run
<1> TypeOK /\ Phases
  BY DEF Sound
<1>1. proc[p] \in Activity /\ Proper(p, proc[p]) /\ events \in Nat /\ At(p, "append")
  BY DEF TypeOK, Phases, AppendLine, CutAppend
<1>2. r \in Runs /\ proc[p].job \in {"log", "receipt"}
  BY <1>1 DEF Proper, At
<1>3. NewLine(p) \in Line /\ NewLine(p).id = events + 1 /\ Junk.id = 0
  BY <1>1, <1>2 DEF NewLine, Activity, Line, Junk
<1>4. PICK part \in {NewLine(p), Junk} : file' = [file EXCEPT ![r] = Extended(r, part)]
  BY DEF AppendLine, CutAppend
<1>5. /\ file'[r] = Extended(r, part) /\ file[r] \in Seq(Line) /\ part \in Line
      /\ file'[r] \in Seq(Line) /\ \A s \in Runs \ {r} : file'[s] = file[s]
  BY <1>2, <1>3, <1>4, Constants, ExtendedType DEF TypeOK
<1>6. events' = events + 1
  BY DEF AppendLine, CutAppend
<1>7. \A i \in Readable(file'[r]) :
         \/ i \in Readable(file[r]) /\ file'[r][i] = file[r][i]
         \/ i = Len(file[r]) + 1 /\ file'[r][i].id = events + 1
  BY <1>2, <1>3, <1>4, <1>5, ExtendedReadable
<1>8. \A s \in Runs : \A i \in DOMAIN file[s] : file[s][i].id \in Nat
  <2>1. \A s \in Runs : \A i \in DOMAIN file[s] : file[s][i] \in Line
    BY DEF TypeOK
  <2> QED BY <2>1 DEF Line
<1>9. ASSUME NEW i \in DOMAIN file'[r]
      PROVE  /\ file'[r][i].id <= events + 1
             /\ \A j \in DOMAIN file'[r] :
                   file'[r][i].id # 0 /\ file'[r][j].id = file'[r][i].id => j = i
  <2>1. CASE i \notin Readable(file'[r])
    BY <1>1, <2>1, <1>9 DEF Readable
  <2>2. CASE i \in Readable(file'[r])
    <3>1. file'[r][i].id <= events + 1
      BY <1>1, <1>2, <1>7, <1>8, <2>2 DEF Distinct, Readable
    <3>2. ASSUME NEW j \in DOMAIN file'[r], file'[r][j].id = file'[r][i].id
          PROVE  j = i
      <4>1. j \in Readable(file'[r])
        BY <2>2, <3>2 DEF Readable
      <4>2. \A l \in Readable(file[r]) : file[r][l].id # events + 1
        BY <1>1, <1>2, <1>8 DEF Distinct, Readable
      <4> QED BY <1>2, <1>7, <2>2, <3>2, <4>1, <4>2 DEF Distinct, Readable
    <3> QED BY <3>1, <3>2
  <2> QED BY <2>1, <2>2
<1>10. ASSUME NEW s \in Runs, s # r, NEW i \in DOMAIN file'[s]
       PROVE  /\ file'[s][i].id <= events + 1
              /\ \A j \in DOMAIN file'[s] :
                    file'[s][i].id # 0 /\ file'[s][j].id = file'[s][i].id => j = i
  BY <1>1, <1>5, <1>8, <1>10 DEF Distinct
<1> QED BY <1>6, <1>9, <1>10 DEF Distinct

\* A manipulation, line by line: the edit marks one, the removal moves up those
\* that follow it.
LEMMA Manipulated ==
    ASSUME TypeOK, NEW r \in Runs, NEW i \in DOMAIN file[r],
           EditLine(r, i) \/ RemoveLine(r, i)
    PROVE  /\ i \in 1..Len(file[r]) /\ Len(file[r]) \in Nat
           /\ file[r] \in Seq(Line) /\ file'[r] \in Seq(Line)
           /\ \A s \in Runs \ {r} : file'[s] = file[s]
           /\ events' = events /\ key' = key
           /\ EditLine(r, i) =>
                /\ Len(file'[r]) = Len(file[r])
                /\ \A j \in 1..Len(file[r]) :
                      /\ file'[r][j].id = file[r][j].id /\ file'[r][j].key = file[r][j].key
                      /\ j = i => file'[r][j].edited
           /\ RemoveLine(r, i) =>
                /\ Len(file'[r]) = Len(file[r]) - 1
                /\ \A j \in 1..(Len(file[r]) - 1) :
                      file'[r][j] = IF j < i THEN file[r][j] ELSE file[r][j + 1]
<1>1. file[r] \in Seq(Line)
  BY DEF TypeOK
<1>2. i \in 1..Len(file[r]) /\ Len(file[r]) \in Nat
  BY <1>1
<1>3. /\ \A s \in Runs \ {r} : file'[s] = file[s]
      /\ events' = events /\ key' = key
  BY DEF EditLine, RemoveLine, Edited, TypeOK
<1>4. CASE EditLine(r, i)
  <2>1. file'[r] = [file[r] EXCEPT ![i].edited = TRUE]
    BY <1>4 DEF EditLine, Edited, TypeOK
  <2>2. \A j \in 1..Len(file[r]) : file[r][j] \in Line
    BY <1>1
  <2>3. file'[r] \in Seq(Line) /\ Len(file'[r]) = Len(file[r])
    BY <1>1, <2>1, EditType
  <2>4. \A j \in 1..Len(file[r]) :
           /\ file'[r][j].id = file[r][j].id /\ file'[r][j].key = file[r][j].key
           /\ j = i => file'[r][j].edited
    <3>1. ASSUME NEW j \in 1..Len(file[r])
          PROVE  /\ file'[r][j].id = file[r][j].id /\ file'[r][j].key = file[r][j].key
                 /\ j = i => file'[r][j].edited
      <4>1. CASE j = i
        <5>1. file'[r][j] = [file[r][j] EXCEPT !.edited = TRUE]
          BY <1>1, <1>2, <2>1, <4>1
        <5>2. file[r][j] \in Line
          BY <2>2
        <5> QED BY <5>1, <5>2 DEF Line
      <4>2. CASE j # i
        BY <1>1, <2>1, <4>2
      <4> QED BY <4>1, <4>2
    <3> QED BY <3>1
  <2>5. ~RemoveLine(r, i)
    <3>1. CASE RemoveLine(r, i)
      <4>1. file'[r] = RemoveAt(file[r], i)
        BY <3>1 DEF RemoveLine, Edited, TypeOK
      <4>2. Len(file'[r]) = Len(file[r]) - 1
        BY <1>1, <4>1, RemoveAtType
      <4> QED BY <1>2, <2>3, <4>2
    <3> QED BY <3>1
  <2> QED BY <1>1, <1>2, <1>3, <2>3, <2>4, <2>5
<1>5. CASE RemoveLine(r, i) /\ ~EditLine(r, i)
  <2>1. file'[r] = RemoveAt(file[r], i)
    BY <1>5 DEF RemoveLine, Edited, TypeOK
  <2>2. file'[r] \in Seq(Line) /\ Len(file'[r]) = Len(file[r]) - 1
    BY <1>1, <2>1, RemoveAtType
  <2>3. \A j \in 1..(Len(file[r]) - 1) :
           file'[r][j] = IF j < i THEN file[r][j] ELSE file[r][j + 1]
    BY <1>1, <1>2, <2>1, RemoveAtElements
  <2> QED BY <1>1, <1>2, <1>3, <1>5, <2>2, <2>3
<1> QED BY <1>4, <1>5

LEMMA DistinctInvariant == Spec => []Distinct
<1>1. Init => Distinct
  BY DEF Init, Distinct
<1>2. Sound /\ Distinct /\ [Next]_vars => Distinct'
  <2> SUFFICES ASSUME Sound, Distinct, [Next]_vars PROVE Distinct'
    OBVIOUS
  <2> TypeOK /\ Procs = Clis \cup Calls
    BY DEF Sound, Procs
  <2>1. CASE UNCHANGED <<file, events>>
    BY <2>1 DEF Distinct
  <2>2. ASSUME NEW r \in Runs, NEW i \in DOMAIN file[r], EditLine(r, i) \/ RemoveLine(r, i)
        PROVE  Distinct'
    <3>1. /\ file[r] \in Seq(Line) /\ file'[r] \in Seq(Line)
          /\ events' = events /\ \A s \in Runs \ {r} : file'[s] = file[s]
          /\ i \in 1..Len(file[r]) /\ Len(file[r]) \in Nat
      BY <2>2, Manipulated
    <3>2. ASSUME NEW j \in DOMAIN file'[r]
          PROVE  /\ file'[r][j].id <= events
                 /\ \A l \in DOMAIN file'[r] :
                       file'[r][j].id # 0 /\ file'[r][l].id = file'[r][j].id => l = j
      <4>1. CASE EditLine(r, i)
        <5>1. /\ Len(file'[r]) = Len(file[r])
              /\ \A l \in 1..Len(file[r]) : file'[r][l].id = file[r][l].id
          BY <2>2, <4>1, Manipulated
        <5> QED BY <3>1, <5>1 DEF Distinct
      <4>2. CASE RemoveLine(r, i)
        <5>1. /\ Len(file'[r]) = Len(file[r]) - 1
              /\ \A l \in 1..(Len(file[r]) - 1) :
                    file'[r][l] = IF l < i THEN file[r][l] ELSE file[r][l + 1]
          BY <2>2, <4>2, Manipulated
        <5>2. /\ DOMAIN file'[r] = 1..(Len(file[r]) - 1)
              /\ DOMAIN file[r] = 1..Len(file[r])
          BY <3>1, <5>1
        <5> DEFINE From(l) == IF l < i THEN l ELSE l + 1
        <5>3. /\ \A l \in DOMAIN file'[r] :
                    From(l) \in DOMAIN file[r] /\ file'[r][l] = file[r][From(l)]
              /\ \A l, m \in DOMAIN file'[r] : From(l) = From(m) => l = m
          BY <3>1, <5>1, <5>2
        <5> HIDE DEF From
        <5> QED BY <3>2, <5>3 DEF Distinct
      <4> QED BY <2>2, <4>1, <4>2
    <3> QED BY <3>1, <3>2 DEF Distinct
  <2>3. ASSUME NEW p \in Procs, Bystep(p) PROVE UNCHANGED <<file, events>>
    BY <2>3, BystepLocal
  <2> QED BY <2>1, <2>2, <2>3, DistinctAppend DEF Next, Bystep, vars
<1> QED BY <1>1, <1>2, SoundInvariant, PTL DEF Spec

\* A chain that verifies no longer does after a line before its end is taken
\* out: the line that moves up is chained to the one that is gone.
LEMMA RemovalTampers ==
    ASSUME NEW lines \in Seq(Line), NEW shorter \in Seq(Line), NEW k,
           NEW i \in 1..(Len(lines) - 1),
           Len(shorter) = Len(lines) - 1,
           \A j \in 1..(Len(lines) - 1) :
               shorter[j] = IF j < i THEN lines[j] ELSE lines[j + 1],
           \A j, l \in 1..Len(lines) : lines[j].id # 0 /\ lines[l].id = lines[j].id => l = j,
           Readable(lines) = DOMAIN lines,
           Verdict(lines, k) = "ok"
    PROVE  Verdict(shorter, k) = "tampered"
<1>1. /\ Len(lines) \in Nat /\ DOMAIN lines = 1..Len(lines)
      /\ DOMAIN shorter = 1..(Len(lines) - 1)
      /\ \A j \in 1..Len(lines) : lines[j].id # 0
  BY DEF Readable
<1>2. Readable(shorter) = DOMAIN shorter /\ i \in Readable(shorter)
  BY <1>1 DEF Readable
<1>3. \A j \in 1..Len(lines) : lines[j].key # NoKey /\ SignatureValid(lines, j, k)
  <2>1. Readable(lines) # {}
    BY <1>1
  <2> QED BY <1>1, <2>1 DEF Verdict
<1>4. shorter[i] = lines[i + 1] /\ i + 1 \in 1..Len(lines)
  BY <1>1
<1>5. shorter[i].prev = lines[i].id
  <2>1. shorter[i].prev = Before(lines, i + 1)
    BY <1>3, <1>4 DEF SignatureValid
  <2>2. Before(lines, i + 1) = lines[i].id
    BY <1>1, <1>4, BeforeIsPrevious
  <2> QED BY <2>1, <2>2
<1>6. Before(shorter, i) # lines[i].id
  <2>1. Before(shorter, i) = IF i = 1 THEN 0 ELSE shorter[i - 1].id
    BY <1>1, <1>2, BeforeIsPrevious
  <2>2. CASE i = 1
    BY <1>1, <2>1, <2>2
  <2>3. CASE i # 1
    <3>1. shorter[i - 1] = lines[i - 1] /\ i - 1 \in 1..Len(lines) /\ i \in 1..Len(lines)
      BY <1>1, <2>3
    <3> QED BY <1>1, <2>1, <2>3, <3>1
  <2> QED BY <2>2, <2>3
<1>7. ~SignatureValid(shorter, i, k) /\ shorter[i].key # NoKey
  BY <1>3, <1>4, <1>5, <1>6 DEF SignatureValid
<1> QED BY <1>2, <1>7 DEF Verdict

\* Whoever rewrites an event, or takes one out before the end, is found out by
\* the next verification, for a ledger of any length.
THEOREM ManipulationDetectedHolds == Spec => ManipulationDetected
<1>1. ASSUME Sound, Distinct, [Next]_vars, NEW r \in Runs,
             edits' # edits, file'[r] # file[r], Verdict(file[r], key) = "ok",
             Readable(file[r]) = DOMAIN file[r], ~IsPrefix(file'[r], file[r])
      PROVE  Verdict(file'[r], key') = "tampered"
  <2> TypeOK /\ Procs = Clis \cup Calls
    BY <1>1 DEF Sound, Procs
  <2>1. \A p \in Procs : ~Bystep(p) /\ ~AppendLine(p) /\ ~CutAppend(p)
    BY <1>1, BystepLocal DEF AppendLine, CutAppend
  <2>2. PICK s \in Runs : \E i \in DOMAIN file[s] : EditLine(s, i) \/ RemoveLine(s, i)
    BY <1>1, <2>1 DEF Next, Bystep, vars
  <2>3. s = r
    BY <1>1, <2>2, Manipulated
  <2>4. PICK i \in DOMAIN file[r] : EditLine(r, i) \/ RemoveLine(r, i)
    BY <2>2, <2>3
  <2>5. /\ i \in 1..Len(file[r]) /\ Len(file[r]) \in Nat /\ key' = key
        /\ file[r] \in Seq(Line) /\ file'[r] \in Seq(Line)
    BY <2>4, Manipulated
  <2>6. CASE EditLine(r, i)
    <3>1. /\ Len(file'[r]) = Len(file[r])
          /\ file'[r][i].id = file[r][i].id /\ file'[r][i].key = file[r][i].key
          /\ file'[r][i].edited
      BY <2>4, <2>5, <2>6, Manipulated
    <3>2. file[r][i].id # 0 /\ i \in Readable(file[r])
      BY <1>1, <2>4 DEF Readable
    <3>3. file[r][i].key # NoKey
      BY <1>1, <3>2 DEF Verdict
    <3>4. i \in Readable(file'[r])
      BY <2>5, <3>1, <3>2 DEF Readable
    <3> QED BY <2>5, <3>1, <3>3, <3>4 DEF Verdict, SignatureValid
  <2>7. CASE RemoveLine(r, i)
    <3>1. /\ Len(file'[r]) = Len(file[r]) - 1
          /\ \A j \in 1..(Len(file[r]) - 1) :
                file'[r][j] = IF j < i THEN file[r][j] ELSE file[r][j + 1]
      BY <2>4, <2>7, Manipulated
    <3>2. i # Len(file[r])
      <4>1. CASE i = Len(file[r])
        <5>1. file'[r] = SubSeq(file[r], 1, Len(file'[r]))
          BY <2>5, <3>1, <4>1, SubSeqProperties
        <5>2. file'[r] = SubSeq(file'[r], 1, Len(file'[r]))
          BY <2>5, SubSeqFull
        <5> QED BY <1>1, <2>5, <3>1, <5>1, <5>2 DEF IsPrefix
      <4> QED BY <4>1
    <3>3. \A j, l \in 1..Len(file[r]) :
             file[r][j].id # 0 /\ file[r][l].id = file[r][j].id => l = j
      BY <1>1, <2>5 DEF Distinct
    <3>4. i \in 1..(Len(file[r]) - 1)
      BY <2>5, <3>2
    <3> QED BY <1>1, <2>5, <3>1, <3>3, <3>4, RemovalTampers
  <2> QED BY <2>4, <2>6, <2>7
<1>2. Sound /\ Distinct /\ [Next]_vars
        => [\A r \in Runs :
              /\ edits' # edits /\ file'[r] # file[r]
              /\ Verdict(file[r], key) = "ok"
              /\ Readable(file[r]) = DOMAIN file[r]
              /\ ~IsPrefix(file'[r], file[r])
              => Verdict(file'[r], key') = "tampered"]_vars
  BY <1>1
<1> QED BY <1>2, SoundInvariant, DistinctInvariant, PTL DEF Spec, ManipulationDetected

-----------------------------------------------------------------------------
(* The closing fingerprint *)

\* Ledgers only grow at the end and lose lines for good.  So where the last
\* line of an earlier ledger is at or beyond its old place, it is at that place
\* and nothing before it has gone; lines before it may have been rewritten.
Descends(now, then) ==
    \A i \in 1..Len(now) :
        i >= Len(then) /\ now[i].id = TipOf(then) =>
            /\ i = Len(then)
            /\ \A j \in 1..Len(then) : now[j] = then[j] \/ (now[j].edited /\ now[j].id # 0)

Kept(r, then) ==
    TipOf(then) # 0 => TipOf(then) <= events /\ Descends(file[r], then)

\* The fingerprint in meta.json, or on its way there, is that of a ledger the
\* present one descends from.
Closing ==
    /\ \A r \in Runs :
         /\ Kept(r, closed[r])
         /\ meta[r].status = "ended" => meta[r].final = TipOf(closed[r])
    /\ \A p \in Procs : At(p, "endwrite") =>
         Kept(proc[p].run, proc[p].seen) /\ proc[p].prev = TipOf(proc[p].seen)

\* What is read now is kept now.
LEMMA KeptNow ==
    ASSUME TypeOK, Distinct, NEW r \in Runs PROVE Kept(r, file[r])
<1>1. file[r] \in Seq(Line) /\ DOMAIN file[r] = 1..Len(file[r]) /\ Len(file[r]) \in Nat
  BY DEF TypeOK
<1>2. TipOf(file[r]) # 0 => TipOf(file[r]) <= events
  <2> SUFFICES ASSUME TipOf(file[r]) # 0 PROVE TipOf(file[r]) <= events
    OBVIOUS
  <2>1. file[r] # <<>> /\ TipOf(file[r]) = file[r][Len(file[r])].id
    BY DEF TipOf
  <2>2. Len(file[r]) \in DOMAIN file[r]
    BY <1>1, <2>1
  <2> QED BY <2>1, <2>2 DEF Distinct
<1>3. Descends(file[r], file[r])
  BY <1>1 DEF Descends
<1> QED BY <1>2, <1>3 DEF Kept

\* An append adds an event of its own, and may tear the last line.
LEMMA KeptAppend ==
    ASSUME Sound, NEW p \in Procs, AppendLine(p) \/ CutAppend(p),
           NEW r \in Runs, NEW then \in Seq(Line), Kept(r, then)
    PROVE  Kept(r, then)'
<1> TypeOK /\ Phases
  BY DEF Sound
<1>1. proc[p] \in Activity /\ Proper(p, proc[p]) /\ events \in Nat /\ At(p, "append")
  BY DEF TypeOK, Phases, AppendLine, CutAppend
<1>2. proc[p].run \in Runs /\ proc[p].job \in {"log", "receipt"}
  BY <1>1 DEF Proper, At
<1>3. NewLine(p) \in Line /\ NewLine(p).id = events + 1 /\ Junk.id = 0
  BY <1>1, <1>2 DEF NewLine, Activity, Line, Junk
<1>4. PICK part \in {NewLine(p), Junk} :
         file' = [file EXCEPT ![proc[p].run] = Extended(proc[p].run, part)]
  BY DEF AppendLine, CutAppend
<1>5. events' = events + 1
  BY DEF AppendLine, CutAppend
<1>6. TipOf(then) \in Nat /\ Len(then) \in Nat
  BY TipType
<1> SUFFICES ASSUME TipOf(then) # 0
             PROVE  TipOf(then) <= events' /\ Descends(file[r], then)'
  BY DEF Kept
<1>7. TipOf(then) <= events /\ Descends(file[r], then)
  BY DEF Kept
<1>8. CASE r # proc[p].run
  BY <1>1, <1>2, <1>4, <1>5, <1>6, <1>7, <1>8 DEF TypeOK, Descends
<1>9. CASE r = proc[p].run
  <2>1. /\ file'[r] = Extended(r, part) /\ file[r] \in Seq(Line) /\ part \in Line
        /\ Len(file[r]) \in Nat /\ part.id # TipOf(then)
    BY <1>1, <1>3, <1>4, <1>6, <1>7, <1>9, Constants DEF TypeOK
  <2>2. CASE r \in open
    <3>1. /\ Len(file'[r]) = Len(file[r])
          /\ \A i \in 1..Len(file[r]) : file'[r][i] =
                 IF i = Len(file[r]) THEN Junk ELSE file[r][i]
      BY <2>1, <2>2, ExtendedType
    <3>2. Descends(file'[r], then)
      BY <1>3, <1>6, <1>7, <2>1, <3>1 DEF Descends
    <3> QED BY <1>1, <1>5, <1>6, <1>7, <3>2 DEF Descends
  <2>3. CASE r \notin open
    <3>1. /\ Len(file'[r]) = Len(file[r]) + 1
          /\ \A i \in 1..Len(file[r]) : file'[r][i] = file[r][i]
          /\ file'[r][Len(file[r]) + 1] = part
      BY <2>1, <2>3, ExtendedType
    <3>2. Descends(file'[r], then)
      BY <1>6, <1>7, <2>1, <3>1 DEF Descends
    <3> QED BY <1>1, <1>5, <1>6, <1>7, <3>2 DEF Descends
  <2> QED BY <2>2, <2>3
<1> QED BY <1>8, <1>9

\* A manipulation marks an event or moves those behind a line towards the start.
LEMMA KeptManipulated ==
    ASSUME TypeOK, NEW s \in Runs, NEW k \in DOMAIN file[s],
           EditLine(s, k) \/ RemoveLine(s, k),
           NEW r \in Runs, NEW then \in Seq(Line), Kept(r, then)
    PROVE  Kept(r, then)'
<1>1. /\ k \in 1..Len(file[s]) /\ Len(file[s]) \in Nat
      /\ file[s] \in Seq(Line) /\ file'[s] \in Seq(Line)
      /\ \A q \in Runs \ {s} : file'[q] = file[q]
      /\ events' = events
  BY Manipulated
<1>2. TipOf(then) \in Nat /\ Len(then) \in Nat
  BY TipType
<1> SUFFICES ASSUME TipOf(then) # 0 PROVE Descends(file'[r], then)
  BY <1>1 DEF Kept, Descends
<1>3. Descends(file[r], then)
  BY DEF Kept
<1>4. CASE r # s
  BY <1>1, <1>3, <1>4
<1>5. CASE r = s /\ EditLine(s, k)
  <2>1. /\ Len(file'[r]) = Len(file[r])
        /\ \A j \in 1..Len(file[r]) :
              /\ file'[r][j].id = file[r][j].id
              /\ j = k => file'[r][j].edited
    BY <1>5, Manipulated
  <2>2. file[r][k].id # 0 /\ \A j \in 1..Len(file[r]) : j # k => file'[r][j] = file[r][j]
    <3>1. file'[r] = [file[r] EXCEPT ![k].edited = TRUE]
      BY <1>5 DEF EditLine, Edited, TypeOK
    <3>2. file[r][k].id # 0
      BY <1>5 DEF EditLine, Readable
    <3> QED BY <1>1, <1>5, <3>1, <3>2
  <2>3. ASSUME NEW i \in 1..Len(file'[r]), i >= Len(then), file'[r][i].id = TipOf(then)
        PROVE  /\ i = Len(then)
               /\ \A j \in 1..Len(then) :
                     file'[r][j] = then[j] \/ (file'[r][j].edited /\ file'[r][j].id # 0)
    <3>1. /\ i = Len(then)
          /\ \A j \in 1..Len(then) :
                file[r][j] = then[j] \/ (file[r][j].edited /\ file[r][j].id # 0)
      BY <1>3, <2>1, <2>3 DEF Descends
    <3> QED BY <1>1, <1>2, <1>5, <2>1, <2>2, <2>3, <3>1
  <2> QED BY <2>3 DEF Descends
<1>6. CASE r = s /\ RemoveLine(s, k)
  <2>1. /\ Len(file'[r]) = Len(file[r]) - 1
        /\ \A j \in 1..(Len(file[r]) - 1) :
              file'[r][j] = IF j < k THEN file[r][j] ELSE file[r][j + 1]
    BY <1>6, Manipulated
  <2>2. ASSUME NEW i \in 1..Len(file'[r]), i >= Len(then), file'[r][i].id = TipOf(then)
        PROVE  /\ i = Len(then)
               /\ \A j \in 1..Len(then) :
                     file'[r][j] = then[j] \/ (file'[r][j].edited /\ file'[r][j].id # 0)
    <3>1. i < k
      <4>1. SUFFICES ASSUME ~(i < k) PROVE FALSE
        OBVIOUS
      <4>2. i + 1 \in 1..Len(file[r]) /\ file[r][i + 1].id = TipOf(then) /\ i + 1 >= Len(then)
        BY <1>1, <1>2, <1>6, <2>1, <2>2, <4>1
      <4>3. i + 1 = Len(then)
        BY <1>3, <4>2 DEF Descends
      <4> QED BY <1>1, <1>2, <1>6, <2>1, <2>2, <4>3
    <3>2. i \in 1..Len(file[r]) /\ file[r][i].id = TipOf(then)
      BY <1>1, <1>6, <2>1, <2>2, <3>1
    <3>3. /\ i = Len(then)
          /\ \A j \in 1..Len(then) :
                file[r][j] = then[j] \/ (file[r][j].edited /\ file[r][j].id # 0)
      BY <1>3, <2>2, <3>2 DEF Descends
    <3>4. \A j \in 1..Len(then) : file'[r][j] = file[r][j]
      <4>1. \A j \in 1..Len(then) : j \in 1..(Len(file[r]) - 1) /\ j < k
        BY <1>1, <1>2, <1>6, <3>1, <3>2, <3>3, <2>1, <2>2
      <4> QED BY <2>1, <4>1
    <3> QED BY <3>3, <3>4
  <2> QED BY <2>2 DEF Descends
<1> QED BY <1>4, <1>5, <1>6

\* A step of a process that leaves the ledgers alone: only end_run reads and
\* writes fingerprints.
LEMMA ClosingRest ==
    ASSUME Sound, Distinct, Closing, NEW p \in Procs, Bystep(p)
    PROVE  Closing'
<1> TypeOK /\ Phases
  BY DEF Sound
<1>1. /\ file' = file /\ events' = events
      /\ proc' = [proc EXCEPT ![p] = proc'[p]]
      /\ \A a : Now(p, a) => proc'[p] = a
  BY BystepLocal
<1>2. /\ \A q \in Procs \ {p} : proc'[q] = proc[q]
      /\ \A r, then : Kept(r, then)' <=> Kept(r, then)
  BY <1>1 DEF TypeOK, Kept
<1>3. proc[p] \in Activity /\ Proper(p, proc[p])
  BY DEF TypeOK, Phases
<1>4. CASE EndTip(p)
  <2> DEFINE r == proc[p].run
             a == [proc[p] EXCEPT !.pc = "endwrite", !.prev = TipOf(file[r]), !.seen = file[r]]
  <2>1. Now(p, a) /\ meta' = meta /\ closed' = closed /\ At(p, "endtip")
    BY <1>4 DEF EndTip, disk, aux
  <2>2. proc'[p] = a /\ r \in Runs
    BY <1>1, <1>3, <2>1 DEF Proper, At
  <2>3. proc'[p].run = r /\ proc'[p].seen = file[r] /\ proc'[p].prev = TipOf(file[r])
    BY <1>3, <2>2 DEF Activity
  <2>4. Kept(r, file[r])
    BY <2>2, KeptNow
  <2> HIDE DEF a
  <2>5. \A q \in Procs : At(q, "endwrite")' =>
           Kept(proc'[q].run, proc'[q].seen) /\ proc'[q].prev = TipOf(proc'[q].seen)
    BY <1>2, <2>3, <2>4 DEF Closing, At
  <2> QED BY <1>1, <1>2, <2>1, <2>5 DEF Closing, At, Kept
<1>5. CASE EndWrite(p)
  <2> DEFINE r == proc[p].run
  <2>1. /\ At(p, "endwrite") /\ Now(p, Idle)
        /\ meta' = [meta EXCEPT ![r] =
               [status |-> "ended", count |-> proc[p].seq, final |-> proc[p].prev]]
        /\ closed' = [closed EXCEPT ![r] = proc[p].seen]
    BY <1>5 DEF EndWrite
  <2>2. proc'[p] = Idle /\ Idle.pc = "idle" /\ r \in Runs
    BY <1>1, <1>3, <2>1 DEF Proper, At, Idle
  <2>3. /\ meta'[r].final = proc[p].prev /\ closed'[r] = proc[p].seen
        /\ \A s \in Runs \ {r} : meta'[s] = meta[s] /\ closed'[s] = closed[s]
    BY <2>1, <2>2 DEF TypeOK
  <2>4. \A q \in Procs : At(q, "endwrite")' =>
           Kept(proc'[q].run, proc'[q].seen) /\ proc'[q].prev = TipOf(proc'[q].seen)
    BY <1>2, <2>2 DEF Closing, At
  <2>5. \A s \in Runs : /\ Kept(s, closed'[s])
                        /\ meta'[s].status = "ended" => meta'[s].final = TipOf(closed'[s])
    BY <2>1, <2>3 DEF Closing
  <2> QED BY <1>1, <2>4, <2>5 DEF Closing, At, Kept
<1>6. CASE ~EndTip(p) /\ ~EndWrite(p)
  <2>1. closed' = closed /\ (meta' = meta \/ WriteMeta(p))
    <3>1. CASE \E r \in Runs : \/ BeginStart(p, r) \/ BeginLog(p, r) \/ BeginEnd(p, r)
                               \/ BeginVerify(p, r) \/ BeginReceipt(p, r)
      BY <3>1 DEF BeginStart, BeginLog, BeginEnd, BeginVerify, BeginReceipt, disk, aux
    <3>2. CASE ReadKey(p) \/ GenerateKey(p) \/ CaptureKey(p) \/ InstallKey(p) \/ KeyFails(p)
      BY <3>2 DEF ReadKey, GenerateKey, CaptureKey, InstallKey, KeyFails, disk, aux
    <3>3. CASE MakeDir(p) \/ WriteMeta(p) \/ ReadTip(p) \/ Scan(p)
      BY <3>3 DEF MakeDir, WriteMeta, ReadTip, Scan, disk, aux
    <3>4. CASE TakeLock(p) \/ ReadLedger(p) \/ CheckLedger(p) \/ Abandon(p)
      BY <3>4 DEF TakeLock, ReadLedger, CheckLedger, Abandon, disk, aux
    <3> QED BY <1>6, <3>1, <3>2, <3>3, <3>4 DEF Bystep
  <2>2. proc'[p].pc # "endwrite"
    <3>1. CASE \E r \in Runs : \/ BeginStart(p, r) \/ BeginLog(p, r) \/ BeginEnd(p, r)
                               \/ BeginVerify(p, r) \/ BeginReceipt(p, r)
      BY <1>1, <3>1 DEF BeginStart, BeginLog, BeginEnd, BeginVerify, BeginReceipt, Begin, Idle
    <3>2. CASE ReadKey(p) \/ GenerateKey(p) \/ CaptureKey(p) \/ InstallKey(p) \/ KeyFails(p)
      BY <1>1, <1>3, <3>2
         DEF ReadKey, GenerateKey, CaptureKey, InstallKey, KeyFails, Goto, KeyUse, Activity
    <3>3. CASE MakeDir(p) \/ WriteMeta(p) \/ Scan(p) \/ Abandon(p)
      BY <1>1, <1>3, <3>3 DEF MakeDir, WriteMeta, Scan, Abandon, Goto, Idle, Activity
    <3>4. CASE ReadTip(p)
      BY <1>3, <3>4 DEF ReadTip, Now, TypeOK, Activity
    <3>5. CASE TakeLock(p) \/ CheckLedger(p)
      BY <1>1, <1>3, <3>5 DEF TakeLock, CheckLedger, Goto, Activity
    <3>6. CASE ReadLedger(p)
      BY <1>3, <3>6 DEF ReadLedger, Now, TypeOK, Activity
    <3> QED BY <1>6, <3>1, <3>2, <3>3, <3>4, <3>5, <3>6 DEF Bystep
  <2>3. \A r \in Runs : meta'[r].status = "ended" => meta'[r] = meta[r]
    <3>1. CASE WriteMeta(p)
      <4>1. meta' = [meta EXCEPT ![proc[p].run] = [NoMeta EXCEPT !.status = "in_progress"]]
        BY <3>1 DEF WriteMeta
      <4> QED BY <4>1 DEF TypeOK, NoMeta
    <3> QED BY <2>1, <3>1
  <2> QED BY <1>1, <1>2, <2>1, <2>2, <2>3 DEF Closing, At, Kept
<1> QED BY <1>4, <1>5, <1>6

LEMMA ClosingInvariant == Spec => []Closing
<1>1. Init => Closing
  BY DEF Init, Closing, Kept, TipOf, At, Idle, NoMeta
<1>2. Sound /\ Distinct /\ Closing /\ [Next]_vars => Closing'
  <2> SUFFICES ASSUME Sound, Distinct, Closing, [Next]_vars PROVE Closing'
    OBVIOUS
  <2> TypeOK /\ Phases /\ Procs = Clis \cup Calls
    BY DEF Sound, Procs
  <2>1. CASE UNCHANGED vars
    BY <2>1 DEF Closing, Kept, At, vars
  <2>2. /\ \A r \in Runs : closed[r] \in Seq(Line)
        /\ \A q \in Procs : proc[q] \in Activity /\ proc[q].seen \in Seq(Line)
                            /\ (At(q, "endwrite") => proc[q].run \in Runs)
    BY DEF TypeOK, Activity, Phases, Proper, At
  <2>3. ASSUME NEW r \in Runs, NEW i \in DOMAIN file[r], EditLine(r, i) \/ RemoveLine(r, i)
        PROVE  Closing'
    <3>1. UNCHANGED <<meta, proc, closed>>
      BY <2>3 DEF EditLine, RemoveLine, Edited
    <3>2. \A s \in Runs, then \in Seq(Line) : Kept(s, then) => Kept(s, then)'
      BY <2>3, KeptManipulated
    <3> QED BY <2>2, <3>1, <3>2 DEF Closing, At, Kept
  <2>4. ASSUME NEW p \in Procs, AppendLine(p) \/ CutAppend(p)
        PROVE  Closing'
    <3>1. UNCHANGED <<meta, closed>> /\ Now(p, Idle)
      BY <2>4 DEF AppendLine, CutAppend
    <3>2. \A s \in Runs, then \in Seq(Line) : Kept(s, then) => Kept(s, then)'
      BY <2>4, KeptAppend
    <3>3. proc'[p] = Idle /\ Idle.pc = "idle" /\ \A q \in Procs \ {p} : proc'[q] = proc[q]
      BY <3>1 DEF Now, TypeOK, Idle
    <3> QED BY <2>2, <3>1, <3>2, <3>3 DEF Closing, At, Kept
  <2>5. ASSUME NEW p \in Procs, Bystep(p) PROVE Closing'
    BY <2>5, ClosingRest
  <2> QED BY <2>1, <2>3, <2>4, <2>5 DEF Next, Bystep
<1> QED BY <1>1, <1>2, SoundInvariant, DistinctInvariant, PTL DEF Spec

\* The closing fingerprint is sound: a ledger whose count and last signature
\* still match it, and whose chain verifies, is the ledger end_run read, whatever
\* was appended, torn, rewritten or taken out since.
THEOREM CloseCheckSoundHolds == Spec => []CloseCheckSound
<1>1. Sound /\ Closing => CloseCheckSound
  <2> SUFFICES ASSUME Sound, Closing, NEW r \in Runs,
                      meta[r].status = "ended", meta[r].final # 0,
                      meta[r].count = Len(closed[r]),
                      meta[r].count = Len(file[r]), meta[r].final = TipOf(file[r]),
                      Verdict(file[r], key) = "ok"
               PROVE  file[r] = closed[r]
    BY DEF CloseCheckSound
  <2>1. file[r] \in Seq(Line) /\ closed[r] \in Seq(Line) /\ Len(file[r]) \in Nat
        /\ DOMAIN file[r] = 1..Len(file[r])
    BY DEF Sound, TypeOK
  <2>2. Kept(r, closed[r]) /\ TipOf(closed[r]) = TipOf(file[r]) /\ TipOf(file[r]) # 0
    BY DEF Closing
  <2>3. /\ Len(file[r]) \in 1..Len(file[r])
        /\ file[r][Len(file[r])].id = TipOf(closed[r])
    BY <2>1, <2>2 DEF TipOf
  <2>4. \A j \in 1..Len(closed[r]) :
           file[r][j] = closed[r][j] \/ (file[r][j].edited /\ file[r][j].id # 0)
    BY <2>1, <2>2, <2>3 DEF Kept, Descends
  <2>5. \A j \in Readable(file[r]) : ~file[r][j].edited
    BY DEF Verdict, SignatureValid
  <2>6. \A j \in 1..Len(file[r]) : file[r][j] = closed[r][j]
    BY <2>1, <2>4, <2>5 DEF Readable
  <2> QED BY <2>1, <2>6, SeqEqual
<1> QED BY <1>1, SoundInvariant, ClosingInvariant, PTL
=============================================================================
