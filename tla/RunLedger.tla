------------------------------ MODULE RunLedger ------------------------------
(***************************************************************************)
(* The signed run ledger: roam/runs/ledger.py, roam/runs/signing.py and    *)
(* the receipt append of roam/mcp_server.py.  Each run has a directory     *)
(* with meta.json and the append-only events.jsonl; all runs share one     *)
(* HMAC key file.  Every command is a process of its own and none of these *)
(* functions takes a lock, so their file accesses interleave freely; a     *)
(* process may die, and an append may write only part of its line.         *)
(*                                                                         *)
(* The HMAC is ideal: an event is signed once, so its identifier stands    *)
(* for its signature, and a line is valid under a key when it was signed   *)
(* with that key over its own body and over the signature that precedes it.*)
(***************************************************************************)
EXTENDS Naturals, SequencesExt

CONSTANTS Clis,        \* processes that run roam commands
          Calls,       \* concurrent tool calls of one MCP server
          Runs,        \* run directories
          NoRun,       \* the run of an idle process
          NoKey,       \* the key file does not exist; no signing key
          MaxEvents,   \* bound: appends to the ledgers
          MaxEdits     \* bound: manipulations of an events file

ASSUME LedgerAssumption ==
    /\ Clis \cap Calls = {}
    /\ NoKey \notin Clis \cup Calls
    /\ NoRun \notin Runs
    /\ MaxEvents \in Nat /\ MaxEdits \in Nat

Procs == Clis \cup Calls

\* A process installs a key at most once: the process stands for its key.
Keys == Procs

\* One line of events.jsonl.  "prev" is the event whose signature the line is
\* chained to, 0 the seed; "key" is NoKey on an unsigned event.
Line == [id : Nat, by : {"log", "receipt"}, seq : Nat, key : Keys \cup {NoKey},
         prev : Nat, edited : BOOLEAN]

\* A line that json.loads rejects.
Junk == [id |-> 0, by |-> "log", seq |-> 0, key |-> NoKey, prev |-> 0, edited |-> FALSE]

\* meta.json; "count" and "final" are the fingerprint end_run leaves in it.
NoMeta == [status |-> "none", count |-> 0, final |-> 0]
Metas == [status : {"none", "in_progress", "ended"}, count : Nat, final : Nat]

Pcs == {"idle", "mkdir", "tip", "bound", "key", "capture", "install", "append",
        "meta", "endtip", "endwrite", "read", "check", "scan"}
Jobs == {"none", "start", "log", "end", "verify", "receipt"}

\* What a process knows: the run it works on, the sequence number and chain tip
\* it read, the signing key it holds, the key file it captured before it
\* installs another, and the metadata and ledger bytes it is bound to.
Activity == [pc : Pcs, job : Jobs, run : Runs \cup {NoRun}, seq : Nat, prev : Nat,
             mine : Keys \cup {NoKey}, want : Keys \cup {NoKey},
             bound : Metas, seen : Seq(Line)]

Idle == [pc |-> "idle", job |-> "none", run |-> NoRun, seq |-> 0, prev |-> 0,
         mine |-> NoKey, want |-> NoKey, bound |-> NoMeta, seen |-> <<>>]

\* What can disturb a ledger: an append that is not at the position it was
\* signed for, a partial append, an unsigned event, another key, a manipulation.
Causes == {"overlap", "cut", "unsigned", "rekey", "edit"}

VARIABLES
    key,      \* content of .ledger_key
    made,     \* runs whose directory exists
    file,     \* lines of each events.jsonl
    open,     \* runs whose last line has no newline
    meta,     \* meta.json of each run
    proc,     \* what each process is doing
    events,   \* appends so far
    edits,    \* manipulations so far
    reported, \* runs that "runs verify" called tampered
    logged,   \* auxiliary: events whose append returned to its caller
    closed,   \* auxiliary: lines each run had when end_run read its tip
    causes    \* auxiliary: what has disturbed each run

vars == <<key, made, file, open, meta, proc, events, edits, reported, logged,
          closed, causes>>
disk == <<key, made, file, open, meta>>
aux == <<events, edits, reported, logged, closed, causes>>

TypeOK ==
    /\ key \in Keys \cup {NoKey}
    /\ made \subseteq Runs
    /\ file \in [Runs -> Seq(Line)]
    /\ open \subseteq Runs
    /\ meta \in [Runs -> Metas]
    /\ proc \in [Procs -> Activity]
    /\ events \in Nat
    /\ edits \in Nat
    /\ reported \subseteq Runs
    /\ logged \subseteq Runs \X Nat
    /\ closed \in [Runs -> Seq(Line)]
    /\ causes \in [Runs -> SUBSET Causes]

-----------------------------------------------------------------------------
(* Reading a ledger.  A definition named Bug... is the one that follows it  *)
(* with a plausible mistake; the runs use it to show that a property        *)
(* notices the mistake.                                                     *)

\* The lines read_run_events yields.
Readable(lines) == {i \in DOMAIN lines : lines[i].id # 0}

BugTipOf(lines) ==
    IF lines = <<>> \/ lines[Len(lines)].key = NoKey THEN NoKey ELSE lines[Len(lines)].id

\* _last_event_signature: nothing when the last line is missing, unsigned or
\* not JSON; the caller then starts again from the seed.
TipOf(lines) ==
    IF lines = <<>> \/ lines[Len(lines)].key = NoKey THEN 0 ELSE lines[Len(lines)].id

\* The event read_run_events yields before line i.
Before(lines, i) ==
    LET earlier == {j \in Readable(lines) : j < i} IN
    IF earlier = {} THEN 0
    ELSE lines[CHOOSE j \in earlier : \A k \in earlier : k <= j].id

BugSignatureValid(lines, i, k) == lines[i].key = k /\ ~lines[i].edited

\* The HMAC of line i, recomputed over its body and the signature before it,
\* equals the stored one.
SignatureValid(lines, i, k) ==
    /\ lines[i].key = k
    /\ ~lines[i].edited
    /\ lines[i].prev = Before(lines, i)

BugVerdict(lines, k) ==
    IF lines = <<>> \/ SignatureValid(lines, Len(lines), k) THEN "ok" ELSE "tampered"

\* verify_chain over what read_run_events yields.
Verdict(lines, k) ==
    IF Readable(lines) = {} THEN "ok"
    ELSE IF \A i \in Readable(lines) : lines[i].key = NoKey THEN "unsigned"
    ELSE IF \A i \in Readable(lines) : lines[i].key # NoKey /\ SignatureValid(lines, i, k)
         THEN "ok" ELSE "tampered"

-----------------------------------------------------------------------------
Init ==
    /\ key = NoKey
    /\ made = {}
    /\ file = [r \in Runs |-> <<>>]
    /\ open = {}
    /\ meta = [r \in Runs |-> NoMeta]
    /\ proc = [p \in Procs |-> Idle]
    /\ events = 0
    /\ edits = 0
    /\ reported = {}
    /\ logged = {}
    /\ closed = [r \in Runs |-> <<>>]
    /\ causes = [r \in Runs |-> {}]

At(p, label) == proc[p].pc = label
Now(p, activity) == proc' = [proc EXCEPT ![p] = activity]
Goto(p, label) == Now(p, [proc[p] EXCEPT !.pc = label])

Begin(p, j, r, label) == [Idle EXCEPT !.pc = label, !.job = j, !.run = r]

-----------------------------------------------------------------------------
(* ensure_ledger_key, on behalf of start, log, verify and receipt *)

KeyUse(p) == CASE proc[p].job = "start"   -> "meta"
               [] proc[p].job = "log"     -> "append"
               [] proc[p].job = "verify"  -> "scan"
               [] OTHER                   -> "read"

\* The key file exists.  A receipt that was bound to a key insists on it.
ReadKey(p) ==
    /\ At(p, "key")
    /\ key # NoKey
    /\ proc[p].mine \in {NoKey, key}
    /\ Now(p, [proc[p] EXCEPT !.pc = KeyUse(p), !.mine = key])
    /\ UNCHANGED <<disk, aux>>

GenerateKey(p) ==
    /\ At(p, "key")
    /\ key = NoKey
    /\ Now(p, [proc[p] EXCEPT !.pc = "capture", !.mine = p])
    /\ UNCHANGED <<disk, aux>>

\* atomic_write_bytes captures what its destination holds ...
CaptureKey(p) ==
    /\ At(p, "capture")
    /\ Now(p, [proc[p] EXCEPT !.pc = "install", !.want = key])
    /\ UNCHANGED <<disk, aux>>

\* ... and replaces exactly that, a key that appeared meanwhile included.  A
\* receipt then reads the key back through its own checks.
InstallKey(p) ==
    /\ At(p, "install")
    /\ key = proc[p].want
    /\ key' = proc[p].mine
    /\ causes' = [r \in Runs |-> IF key # NoKey /\ r \in made
                                 THEN causes[r] \cup {"rekey"} ELSE causes[r]]
    /\ IF proc[p].job = "receipt"
       THEN Now(p, [proc[p] EXCEPT !.pc = "key", !.mine = NoKey])
       ELSE Goto(p, KeyUse(p))
    /\ UNCHANGED <<made, file, open, meta, events, edits, reported, logged, closed>>

\* Any failure on the way: start_run goes on, sign_event leaves the event
\* unsigned.  (A verify or a receipt gives up: see Abandon.)
KeyFails(p) ==
    /\ proc[p].pc \in {"key", "capture", "install"}
    /\ proc[p].job \in {"start", "log"}
    /\ Now(p, [proc[p] EXCEPT !.pc = KeyUse(p), !.mine = NoKey])
    /\ UNCHANGED <<disk, aux>>

-----------------------------------------------------------------------------
(* start_run *)

\* The run id is free ...
BeginStart(p, r) ==
    /\ At(p, "idle")
    /\ r \notin made
    /\ Now(p, Begin(p, "start", r, "mkdir"))
    /\ UNCHANGED <<disk, aux>>

\* ... and its directory is created, with exist_ok.
MakeDir(p) ==
    /\ At(p, "mkdir")
    /\ made' = made \cup {proc[p].run}
    /\ Goto(p, "key")
    /\ UNCHANGED <<key, file, open, meta, events, edits, reported, logged, closed, causes>>

WriteMeta(p) ==
    /\ At(p, "meta")
    /\ meta' = [meta EXCEPT ![proc[p].run] = [NoMeta EXCEPT !.status = "in_progress"]]
    /\ Now(p, Idle)
    /\ UNCHANGED <<key, made, file, open, aux>>

-----------------------------------------------------------------------------
(* log_event: count the lines, read the tip, sign, append *)

BeginLog(p, r) ==
    /\ At(p, "idle")
    /\ r \in made
    /\ Now(p, [Begin(p, "log", r, "tip") EXCEPT !.seq = Len(file[r]) + 1])
    /\ UNCHANGED <<disk, aux>>

ReadTip(p) ==
    /\ At(p, "tip")
    /\ Now(p, [proc[p] EXCEPT !.pc = "key", !.prev = TipOf(file[proc[p].run])])
    /\ UNCHANGED <<disk, aux>>

NewLine(p) == [id |-> events + 1, by |-> proc[p].job, seq |-> proc[p].seq,
               key |-> proc[p].mine, prev |-> proc[p].prev, edited |-> FALSE]

BugExtended(r, line) ==
    IF r \in open THEN [file[r] EXCEPT ![Len(file[r])] = line]
    ELSE IF line.seq <= Len(file[r]) THEN [file[r] EXCEPT ![line.seq] = line]
    ELSE Append(file[r], line)

\* An append to a file whose last line has no newline joins the two.
Extended(r, line) ==
    IF r \in open THEN [file[r] EXCEPT ![Len(file[r])] = Junk]
    ELSE Append(file[r], line)

Disturbance(p) ==
    (IF proc[p].seq # Len(file[proc[p].run]) + 1 THEN {"overlap"} ELSE {})
    \cup (IF proc[p].mine = NoKey THEN {"unsigned"} ELSE {})

AppendLine(p) ==
    LET r == proc[p].run IN
    /\ At(p, "append")
    /\ events < MaxEvents
    /\ file' = [file EXCEPT ![r] = Extended(r, NewLine(p))]
    /\ open' = open \ {r}
    /\ events' = events + 1
    /\ logged' = logged \cup {<<r, events + 1>>}
    /\ causes' = [causes EXCEPT ![r] = @ \cup Disturbance(p)]
    /\ Now(p, Idle)
    /\ UNCHANGED <<key, made, meta, edits, reported, closed>>

\* The process dies, or the disk fills up, in the middle of the write: part of
\* the line is on disk, or all of it but the newline.
CutAppend(p) ==
    LET r == proc[p].run IN
    /\ At(p, "append")
    /\ events < MaxEvents
    /\ \E part \in {Junk, NewLine(p)} : file' = [file EXCEPT ![r] = Extended(r, part)]
    /\ open' = open \cup {r}
    /\ events' = events + 1
    /\ causes' = [causes EXCEPT ![r] = @ \cup {"cut"}]
    /\ Now(p, Idle)
    /\ UNCHANGED <<key, made, meta, edits, reported, logged, closed>>

-----------------------------------------------------------------------------
(* end_run: count the lines, read the tip, stamp meta.json *)

BeginEnd(p, r) ==
    /\ At(p, "idle")
    /\ meta[r].status # "none"
    /\ Now(p, [Begin(p, "end", r, "endtip") EXCEPT !.seq = Len(file[r])])
    /\ UNCHANGED <<disk, aux>>

EndTip(p) ==
    LET lines == file[proc[p].run] IN
    /\ At(p, "endtip")
    /\ Now(p, [proc[p] EXCEPT !.pc = "endwrite", !.prev = TipOf(lines), !.seen = lines])
    /\ UNCHANGED <<disk, aux>>

EndWrite(p) ==
    LET r == proc[p].run IN
    /\ At(p, "endwrite")
    /\ meta' = [meta EXCEPT ![r] =
           [status |-> "ended", count |-> proc[p].seq, final |-> proc[p].prev]]
    /\ closed' = [closed EXCEPT ![r] = proc[p].seen]
    /\ Now(p, Idle)
    /\ UNCHANGED <<key, made, file, open, events, edits, reported, logged, causes>>

-----------------------------------------------------------------------------
(* runs verify *)

BeginVerify(p, r) ==
    /\ At(p, "idle")
    /\ meta[r].status # "none"
    /\ Now(p, Begin(p, "verify", r, "key"))
    /\ UNCHANGED <<disk, aux>>

Scan(p) ==
    LET r == proc[p].run IN
    /\ At(p, "scan")
    /\ reported' = IF Verdict(file[r], proc[p].mine) = "tampered"
                   THEN reported \cup {r} ELSE reported
    /\ Now(p, Idle)
    /\ UNCHANGED <<disk, events, edits, logged, closed, causes>>

-----------------------------------------------------------------------------
(* The receipt of an MCP tool call *)

\* Before the tool runs, the call is bound to an in-progress run and to the key.
BeginReceipt(p, r) ==
    /\ At(p, "idle")
    /\ meta[r].status = "in_progress"
    /\ Now(p, [Begin(p, "receipt", r, "bound") EXCEPT !.mine = key, !.bound = meta[r]])
    /\ UNCHANGED <<disk, aux>>

\* Where a call holds _MCP_LEDGER_APPEND_LOCK.
Locked(p) == proc[p].pc \in {"key", "capture", "install", "read", "check", "append"}

BugMayLock(p) == meta[proc[p].run] = proc[p].bound

MayLock(p) ==
    /\ \A q \in Calls : ~Locked(q)
    /\ meta[proc[p].run] = proc[p].bound

TakeLock(p) ==
    /\ At(p, "bound")
    /\ MayLock(p)
    /\ Goto(p, "key")
    /\ UNCHANGED <<disk, aux>>

ReadLedger(p) ==
    LET lines == file[proc[p].run] IN
    /\ At(p, "read")
    /\ Now(p, [proc[p] EXCEPT !.pc = "check", !.seen = lines,
                              !.seq = Len(lines) + 1, !.prev = TipOf(lines)])
    /\ UNCHANGED <<disk, aux>>

\* The final compare before the write.
Unchanged(p) ==
    /\ meta[proc[p].run] = proc[p].bound
    /\ key = proc[p].mine
    /\ file[proc[p].run] = proc[p].seen

CheckLedger(p) ==
    /\ At(p, "check")
    /\ Unchanged(p)
    /\ Goto(p, "append")
    /\ UNCHANGED <<disk, aux>>

-----------------------------------------------------------------------------
\* A process dies, or gives up on an error, with nothing written.
Abandon(p) ==
    /\ ~At(p, "idle")
    /\ Now(p, Idle)
    /\ UNCHANGED <<disk, aux>>

Edited(r, lines) ==
    /\ edits < MaxEdits
    /\ edits' = edits + 1
    /\ file' = [file EXCEPT ![r] = lines]
    /\ causes' = [causes EXCEPT ![r] = @ \cup {"edit"}]
    /\ UNCHANGED <<key, made, meta, proc, events, reported, logged, closed>>

\* Someone rewrites the body of an event ...
EditLine(r, i) ==
    /\ i \in Readable(file[r])
    /\ Edited(r, [file[r] EXCEPT ![i].edited = TRUE])
    /\ UNCHANGED open

\* ... or takes a line out.
RemoveLine(r, i) ==
    /\ i \in DOMAIN file[r]
    /\ Edited(r, RemoveAt(file[r], i))
    /\ open' = IF i = Len(file[r]) THEN open \ {r} ELSE open

Next ==
    \/ \E p \in Clis, r \in Runs :
        \/ BeginStart(p, r) \/ BeginLog(p, r) \/ BeginEnd(p, r) \/ BeginVerify(p, r)
    \/ \E p \in Calls, r \in Runs : BeginReceipt(p, r)
    \/ \E p \in Procs :
        \/ ReadKey(p) \/ GenerateKey(p) \/ CaptureKey(p) \/ InstallKey(p) \/ KeyFails(p)
        \/ MakeDir(p) \/ WriteMeta(p)
        \/ ReadTip(p) \/ AppendLine(p) \/ CutAppend(p)
        \/ EndTip(p) \/ EndWrite(p)
        \/ Scan(p)
        \/ TakeLock(p) \/ ReadLedger(p) \/ CheckLedger(p)
        \/ Abandon(p)
    \/ \E r \in Runs : \E i \in DOMAIN file[r] : EditLine(r, i) \/ RemoveLine(r, i)

Spec == Init /\ [][Next]_vars

\* What holds of a process at each program point, and of a torn tail.
Proper(p, a) ==
    /\ a.pc # "idle" => a.run \in Runs
    /\ a.pc \in {"mkdir", "meta"} => a.job = "start"
    /\ a.pc = "tip" => a.job = "log"
    /\ a.pc \in {"key", "capture", "install"} => a.job \in {"start", "log", "verify", "receipt"}
    /\ a.pc \in {"bound", "read", "check"} => a.job = "receipt"
    /\ a.pc = "append" => a.job \in {"log", "receipt"}
    /\ a.pc = "scan" => a.job = "verify"
    /\ a.pc \in {"capture", "install"} => a.mine = p
    /\ a.job = "receipt" => p \in Calls

Phases ==
    /\ \A p \in Procs : Proper(p, proc[p])
    /\ \A r \in open : file[r] # <<>>

-----------------------------------------------------------------------------
(* Safety *)

\* A run is called tampered, or would be now, only when something has disturbed
\* it: with a single writer, whole appends and one key, runs verify raises no
\* false alarm.
AlarmHasCause ==
    \A r \in Runs :
        r \in reported \/ Verdict(file[r], key) = "tampered" => causes[r] # {}

\* However appends overlap, an event whose append returned stays readable,
\* unless a partial append or a manipulation destroyed it.
ReturnedEventsSurvive ==
    \A e \in logged :
        causes[e[1]] \cap {"cut", "edit"} = {}
            => \E i \in DOMAIN file[e[1]] : file[e[1]][i].id = e[2]

\* The lock of the server orders its receipts: no two carry the same sequence
\* number, whatever other processes append in between.
ReceiptSeqsDistinct ==
    \A r \in Runs : "edit" \notin causes[r] =>
        \A i, j \in Readable(file[r]) :
            i # j /\ file[r][i].by = "receipt" /\ file[r][j].by = "receipt"
                => file[r][i].seq # file[r][j].seq

\* The fingerprint end_run leaves is worth something: when the count and the
\* last signature still match and the chain verifies, the ledger is the one
\* that was closed.  (No append may fall between the two reads of end_run: the
\* fingerprint then counts too few lines and matches no ledger.)
CloseCheckSound ==
    \A r \in Runs :
        /\ meta[r].status = "ended" /\ meta[r].final # 0
        /\ meta[r].count = Len(closed[r])
        /\ meta[r].count = Len(file[r]) /\ meta[r].final = TipOf(file[r])
        /\ Verdict(file[r], key) = "ok"
        => file[r] = closed[r]

-----------------------------------------------------------------------------
(* Action properties *)

\* Appending cannot whitewash: a ledger that fails verification fails it after
\* every later step of roam, although an append trusts the stored tip.  (A torn
\* last line may turn to junk, which readers skip.)
TamperingSticks ==
    [][\A r \in Runs \ open :
         edits' = edits /\ Verdict(file[r], key) = "tampered"
            => Verdict(file'[r], key') = "tampered"]_vars

\* A manipulation of a ledger that verified, other than cutting off its end, is
\* noticed by the next verification.
ManipulationDetected ==
    [][\A r \in Runs :
         /\ edits' # edits /\ file'[r] # file[r]
         /\ Verdict(file[r], key) = "ok"
         /\ Readable(file[r]) = DOMAIN file[r]
         /\ ~IsPrefix(file'[r], file[r])
         => Verdict(file'[r], key') = "tampered"]_vars

=============================================================================
