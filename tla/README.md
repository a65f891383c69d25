# TLA+ models of roam-code / business-rule-graph

This directory specifies, model-checks and proves the parts of `roam` where several
processes, threads or runs meet: the files they install, the ledger they sign, the
leases they claim, the locks and permits they take, the database an incremental
index run leaves behind, the business-rule tables, and the index as the watcher
keeps it and the MCP server answers from it. The code is the reference; every
definition that models code is listed with its lines in `PROJECT.json`.

    tlc -config IndexRuns.cfg MCIndexRun.tla      # a run
    tlapm IndexRunProofs.tla                      # the proofs of a component

## 1. The system

`roam` indexes a source tree into `.roam/index.db` (SQLite), answers questions
from it on the command line or as an MCP server, and keeps a set of small stores
under `.roam/` for agents that work on the same repository. Every command is a
process of its own; the MCP server and the compile daemon are multi-threaded;
most stores are plain files without a lock.

| Part | State | Operations | Meets others by | What is hard | What makes it correct |
|---|---|---|---|---|---|
| Atomic installer `atomic_io.py` | destination path, tempfiles | write bytes/text/JSON, install a built file | every store writes through it | concurrent writers, replaced pathnames, death at any step, POSIX and Windows differ | readers see complete files only; create-only wins once; no blind overwrite; a write that says it failed left nothing behind, or says where |
| Run ledger `runs/`, receipts in `mcp_server.py` | key file, `meta.json`, `events.jsonl` per run | start, log, end, verify, append a receipt | commands and tool calls append to one file | no lock between processes, torn appends, two first keys | no false alarm without a cause; a returned event stays; manipulation shows |
| Lease store `leases/store.py` | one file per lease, the clock | claim, release, sweep, query | agents claim the same files | check-then-act, stale write-backs, expiry | no double lease except by a race; nothing ended comes back, whatever its label becomes |
| Lock manager `runtime/lockmgr.py` | reader count, drain flag, writer guard | acquire read/write/exclusive, time out | daemon threads | condition variables, nesting, timeouts | count exact, drain ends, nobody sleeps on, every acquire returns |
| MCP guard `mcp_extras/concurrency.py` | semaphores, gauge | admit or decline, track, release | all tool calls | half-taken permits, raising tools | permits conserved, caps kept, nobody declined alone |
| Indexer `index/indexer.py`, `index/incremental.py` | files, symbols, edges, metrics | full, incremental, light, forced run | files change while it reads; commands read while it commits | commits in mid-run, cascades, unreadable files, skipped metrics, a graph cached by address | what counts as unchanged is, but for edits no time tells and rows of files that could not be parsed; edges join symbols, once |
| Index lock `indexer.py:150-213` | `index.lock` | claim, drop, steal a stale one | every index run | test and write are two steps; a lock that cannot be removed | one run at a time; no lock passes for held without a holder |
| File watcher `mcp_extras/watcher.py` | pending files, timer | push, fire, stop | observer thread, timer threads, index lock | forgotten timers, a push beside a stop, events dropped by suffix or directory | an edit whose event was taken in is on its way until the index shows it, unless the run of its window was refused or failed |
| Result cache `mcp_server.py:6120-6175` | results by command line, with the index's modification time | look up, store, expire | tool calls, index runs that close the database | a result on its way while the index changes; commits that wait in the log | a hit is current, or is so again when its time is over |
| Business rules `business_rules/` | rules, edges, snapshots tables | extract, update, graph, snapshot, diff, summarize | share tables, one transaction each | a table is emptied before a partial set is stored; stale reads across connections | nothing unchanged is lost; deltas add up |
| Verdict log `guard_log.py` | a log, its lock file | append, rotate, read | processes and threads | bounded wait for the lock | no entry lost without a `False` |
| Savings ledger `savings.py` | a rebuilt database | materialize, analyze | installer, materialization lock | failure after publication | the published ledger is complete |
| Permits, memory | a file per permit; a log | issue, list; append, query | agents | id search without a lock | ids distinct |
| Everything else | none that outlives a call | pure analysis, extraction, formatting | reads the index | – | – |

The installer is at the bottom: ledgers (`meta.json`, the key), leases, permits
and reports are written through it, and the models above it take "a file is
written whole or not at all" from `AtomicInstall` instead of repeating it.
`RunLedger` keeps the part that is not absorbed by that abstraction for the key
file (the capture of the old generation, then the install). Appends to
`events.jsonl` do *not* go through the installer and are modelled with partial
writes.

## 2. Modules

| Component | Specification | Checked by | Proved in |
|---|---|---|---|
| readers' view of a file | `AtomicFile` | implemented by `AtomicInstall` | `AtomicInstallProofs` (`Refinement`) |
| installer | `AtomicInstall` | `MCAtomicInstall`: `AtomicWrites` | `AtomicInstallProofs` |
| run ledger and receipts | `RunLedger` | `MCRunLedger`: `LedgerCalls` | `RunLedgerProofs` |
| the table of leases agents see | `LeaseTable` | implemented by `LeaseStore` | `LeaseStoreProofs` (`Refinement`) |
| leases | `LeaseStore` | `MCLeaseStore`: `LeaseRaces` | `LeaseStoreProofs` |
| the lock threads see | `DrainLock` | implemented by `LockMgr` | `LockMgrProofs` (`Refinement`) |
| daemon lock | `LockMgr` | `MCLockMgr`: `LockCalls`, `LockExclusive` | `LockMgrProofs` |
| tool-call permits | `McpGuard` | `MCMcpGuard`: `GuardCalls` | `McpGuardProofs` |
| index runs | `IndexRun` | `MCIndexRun`: `IndexRuns`, `IndexResume` | `IndexRunProofs` |
| business rules | `BusinessRules` | `MCBusinessRules`: `RuleCalls`, `RuleUpdates` | `BusinessRulesProofs` |
| index lock | `IndexLock` | through `ServedIndex` | `ServedIndexProofs` |
| file watcher | `Watcher`, which extends `IndexLock` | through `ServedIndex` | `ServedIndexProofs` |
| result cache, and all three together | `ServedIndex`, which extends `Watcher` | `MCServedIndex`: `ServedIndex`, `ServedStale` | `ServedIndexProofs` |

In every module a step is what the code does between two points where another
process or thread can see or change something: one file access, one database
transaction, one operation on a semaphore, one critical section of a condition.
A definition `BugX` placed before `X` is `X` with a plausible mistake; it plays
no part in the specification and serves to show that a property would notice.

**AtomicFile / AtomicInstall.** `dest` is the object the destination names,
`temp[w]` what a writer's tempfile names, `pc[w]` the place in `atomic_write_bytes`
/ `_native_conditional_install`. `Create`, `BeginWrite`, `FinishWrite`, `Capture`,
`Pin`, `Recheck`, `Prove`, `Publish`, `Return` follow the function from top to
bottom; `Confirm` and `Quarantine` are the Windows read-back, `QuarantineFails` the
move aside that fails itself (128 names taken, or a failing call): the object stays
at the destination, and the error says that it could not be quarantined
(`stranded`). `SyncFails` is a durable write whose directory cannot be synced,
`Abort` the exception path with `_cleanup_tmp`, `Die` a process that ends, `Swap`
and `Remove` other parties. A generation token is the object it was taken from
(digest, times and identity are assumed to tell objects apart). `AtomicFile` is what
a reader is promised: the file is absent or a complete payload, and a payload is
installed at most once.

**RunLedger.** `log_event` is `BeginLog` (count lines), `ReadTip`, the key steps,
`AppendLine`/`CutAppend`; `end_run` is `BeginEnd`, `EndTip`, `EndWrite`;
`start_run` is `BeginStart`, `MakeDir`, key, `WriteMeta`; `ensure_ledger_key` is
`ReadKey` or `GenerateKey`, `CaptureKey`, `InstallKey`; a receipt is
`BeginReceipt`, `TakeLock`, key, `ReadLedger`, `CheckLedger`, append. HMAC is
ideal: an event's identifier stands for its signature. `causes[r]` records what
has disturbed a ledger, so that properties can say "unless". Abstractions: the
recheck and the rename of the key's install are one step (the window between them
belongs to `AtomicInstall`); errors while `end_run` reads are left out.

**LeaseTable / LeaseStore.** A claim is a sweep (`GcRead`, `GcWrite` per file), a
conflict scan (`BeginScan`, `ScanRead` per file), `Stamp`, `WriteClaim`; a release
reads, then writes back. The directory is listed once per pass; a file may change
between the listing and its read. The wall clock never runs backwards. `LeaseTable`
is what agents are promised: a claim is asked, then granted in one step or
withdrawn. It is granted only if no lease granted before it was asked and in force
now stands against it, for the time asked and from a moment since; a lease ends for
good: by `Release` while it is in force, by `Expire` when its time is over. The
claim that is asked, `Asked`, is the subject, ttl and listing of an agent that scans
or writes. A claim that passed its own check beside another that is not listed is
granted, which is the race `OverlapOnlyByRace` names. `Relabelled` is the one
departure from what the store's documentation says: a lease that is over becomes
`released` when its owner comes late ("releasing an ... already-expired lease is a
no-op", `leases/store.py:640-642`), and a sweep with an older copy turns `released`
into `expired` ("already-released" leases are skipped, 815-816). Such a lease is
over in either case, so no claim is decided differently.

**DrainLock / LockMgr.** Acquisition `<<t, d>>` is the d-th a thread has open. Each
critical section of `_cond` is a step; `RLock` is external: free, or the thread's
own. `DrainLock` is what threads are promised: many share, one owns, an exclusive
acquisition is announced and from then on nobody begins to share until it is
retracted, and it owns only when nobody shares. Acquisitions inside a read block
share, `guard` owns, acquisitions between raising and clearing the flag are
announced, and those in `alone`, which no other exclusive acquisition has ended
beside, are the ones the promise stands for (`promised`). Two departures from the
module's documentation are actions by name: `ShareBesideOwner`, a reader that begins
while a writer owns ("write ... blocks new readers from starting",
`runtime/lockmgr.py:7-8`), and `RetractAll`, an exclusive acquisition that is over
and takes the promises made to others with it (9).

**McpGuard.** Every semaphore and counter operation is a step.
`BoundedSemaphore` is external; the release error the code swallows is
`Released`. Limits of tools are at least 1, as `_per_tool_limits_from_env` makes
them (`concurrency.py:69`). `ROAM_MCP_MAX_CONCURRENT` is not clamped (49-54, 76): the
cap may be 0, and then every call is declined, which `BusyOnlyBesideOthers` excepts.

**IndexRun.** `disk`/`stamp` are the tree, `saved` the committed database, `db` what
the run's connection sees. A run is `Start`/`Rebuild` (`--force`), `Detect`
(compare, find neighbours, delete rows with their cascade), per file `Take` (mtime,
and the periodic commit before it), `Hash`, `Parse`, then `Resolve` (re-extract
neighbours, store edges), `Commit`, `Finish` (metrics, or the marks of a light run).
`Stop` is an interruption, `Unhashed` a file that cannot be read when it is to be
hashed; both roll back to the last commit. `Edit` happens at any moment, and the
modification time it leaves is new or the one the file had: `incremental.py:62`
takes times within 0.001 s for equal. Every read of a file may fail, `Failing`: the
change check counts an unreadable file as removed (53-70), `Skip` passes over it,
`Parse` stores a row without symbols when the file cannot be read or parsed
(`parser.py:293-297`), and `Resolve` finds nothing in a neighbour whose edges were
deleted before (`indexer.py:1642-1656`). `memo` is `_GRAPH_CACHE`, a graph under the
address of a connection: `Recalled` says that a later connection at the same address
is given it, so that `Finish` measures that graph instead of this one's
(`Measured`). Abstractions: a content is what it defines and refers to; which of
several definitions a reference resolves to is open; all metric tables are one flag
`fresh`, and it is never set again by a run that reuses stored metrics; whether the
64 symbols of highest degree agree in the graph signature is open; the index lock
keeps runs apart. `last` (when a file was really edited), `since` and `missed` (the
edits so far when a run compares, and the files it could not read) and `causes`
serve properties only. Local references of a file to itself are left aside
(`Defs[c]` and `Refs[c]` are disjoint).

**BusinessRules.** A command reads, works, then writes in one transaction, and
nothing it read is locked meanwhile. `extract` is `Scan`, `Store`; `graph` is
`Load`, `Build`; `summarize` is `Load`, `Summarize`, with a language model or an
agent's file in between; `snapshot` is `ReadRules`, `ReadNewest`, `SaveSnapshot`.
`EditSource` and `Reindex` change what a scan finds and which files `--update`
skips; `Fail` is a locked database, an unreadable file or a process that ends. Row
numbers are kept, because edges refer to them and outlive the rows. The flow of a
rule is set by `extract` from its method name and written again by `summarize`;
`graph` reads it for its `same_flow` edges. What an answer says in `merge_with` is
stored unchecked (`summarizer.py:242`): a rule asked about, none, or a name that is
no rule (`Unknown`). `current`, `late`, `at` and `stored` serve properties only.
Abstractions: a rule says one of `Versions` (its parameters and their hash), and
edges by equal parameters, `same_field`, stand for those that tell of a conflict,
which are found and stored in the same way. `check` is left out: it writes nothing,
and its `auth_removed` looks a removed rule up in the table the rule has left
(`conflict.py:189-190`), so that it speaks only of rules that are there again.

**IndexLock.** `_claim_index_lock` is `Exists`, `Read` (and `_pid_is_running`),
`Unlink` for a stale file, `Create`, `Fill`: the file is empty between the last
two, and a writer that has it open goes on writing to it after another has
removed it, which is why a lock file has an identity. Any of these may be denied: a
stale file that stays is emptied and used again (`Truncate`), and a run that cannot
write the file gives up (`ClaimFails`). Inside the lock a run is `Detect`, `Commit`
or `Fail`, `Close`, `Release`; `IndexRun` has the details. `Release` removes the
file, or writes `released` into it, or leaves it as it is: then it is `stuck`, and
passes for held while the process it names lives (`indexer.py:207-209`). The
database is in WAL mode: `Commit` does not change the modification time of the
database file, the `Close` of the last connection does. `Die` kills a process and
leaves its lock.

**Watcher.** `Push` adds an event, cancels the timer and arms another; `Ignore` is a
push that returns at once, for a suffix it does not know (`.dart`, `.svelte`,
`.mdx` and `.jsonc` files are indexed and not among them) or an ignored directory,
a move being judged by its destination (`watcher.py:124-125`, 301). `Elapse`,
`Fire`, `Finish` are a timer thread that goes off, takes what is pending and runs
the index command; `Stop` cancels the timer `_timer` names. A timer that has gone
off can no longer be cancelled.

**ServedIndex** adds the result cache: `Lookup`, `ReadIndex`, `EndRead`, `Store`,
`Expire`, for one command line (entries do not affect each other).

Taken for granted in these three: a dead process is not replaced by one with its
number (where process numbers repeat, as in a restarted container, a stale lock
looks held); WAL mode (on cloud-synced folders the code uses another journal,
where a commit changes the file at once); fewer pages per commit than the
autocheckpoint of 10000.

## 3. Runs

| Run | Question | Bounds |
|---|---|---|
| `atomic_writes` | Is the destination an atomic file for its readers, whatever dies; are create-only and generation checks exclusive; does cleanup spare other objects; is a write that failed honest about what it left? | 2 writers; POSIX: 2 writes each and 1 removal, or 1 write each and 1 swap; Windows: 1 write each, 2 swaps, 2 removals |
| `ledger_calls` | Can a ledger be called tampered without a cause, an event be lost, a receipt's number be reused? Is manipulation noticed, does an append whitewash it, is the closing fingerprint sound? | 1 command and 2 tool calls on 1 run with 2 appends; the command alone with 3 appends and 2 manipulations |
| `lease_races` | Where can overlaps come from; do scans and stale write-backs look like one table in which claims are decided at once, but for the labels of leases that are over? | 2 agents, 2 claims each, 1 file, clock 0..1 |
| `lock_calls` | Is the count exact; does no timeout or missed notification leave somebody waiting with nobody to wait for; is the whole a drain lock, but for two departures by name; does every acquire return? | 3 threads, nesting 2 |
| `lock_exclusive` | violated: "drains all readers + writers then blocks" (`runtime/lockmgr.py:9`) | 3 threads, nesting 1 |
| `guard_calls` | Permits, gauge, and who may be declined | 4 callers, 2 tools, cap 2, tool limit 1 |
| `index_runs` | Is what counts as unchanged unchanged; edges, completeness, metrics; does a full run leave nothing to do, whatever the runs before it left? | 3 files, 3 contents, 2 edits, or 1 edit and 1 fault (interruption or failed read), commit every 2 files |
| `index_resume` | violated: "the indexer is incremental and resumes safely" (`index/indexer.py:1304-1306`) | 3 files, no edits, 1 interruption, commit every 100 files |
| `rule_calls` | Is the table always one extraction; do edges, summaries and snapshots belong to the rules they name, however commands overlap? | 2 processes, 2 rules in 2 files, 2 versions, 1 flow and none, 1 edit, 3 extractions, 2 summaries, 3 snapshots |
| `rule_updates` | violated: "Incremental: only changed files" (`cmd_br_extract.py:97`) | 1 process, 2 rules in 2 files, no edits |
| `served_index` | Does the lock keep runs apart; is a held lock somebody's; can the index go back, an edit get lost on its way to it, an old result pass for valid; do edits whose events were taken in reach the index? | 2 timers, 1 other process that may be killed, 1 outside run, 1 caller, 2 edits |
| `served_stale` | violated: "any reindex invalidates the cache automatically" (`mcp_server.py:6132`) | 1 timer, 1 other process, 1 caller, 1 edit |

Type invariants are not part of the runs: each is the theorem `TypeCorrect` of
its proof module.

**Constraints.** A run that answers several questions has a state constraint
`Scope` in its MC module, which says how far each part of the state space goes;
the comment there gives the reason. `MCAtomicInstall`: repeated writes and swaps
are explored apart, on the platform where each matters. `MCRunLedger`: tool
calls share the ledger for two appends without manipulation, a command alone goes
further. `MCIndexRun`: the tree has references to begin with; two edits, or an edit
and a fault, of which one at most while the index is empty, and one at most while a
graph is left from an earlier connection or a time does not tell an edit.
`MCBusinessRules`: graphs meet extractions, edits and summaries of the flow, which a
graph reads and `summarize` writes; descriptions and merge targets, which no graph
and no snapshot reads, meet extractions without graphs; a snapshot reads identifiers,
which only extractions change, and meets these. `MCServedIndex`: tool calls, killed
processes and stuck lock files are explored with one edit. A constraint
cuts behaviours off, so for the liveness properties of `served_index` it matters
that no fair action leads out of the scope: only an edit or a lookup does, and
neither is fair. The theorems of section 5 have no such limits.

Why the bounds are enough to be interesting. In the installer a race needs two
writers and a stale generation needs a second write of one of them; a removal makes
the path absent again, which separates "exclusive" from "first". A ledger race needs
two appenders, and the receipts' lock needs two tool calls with a third process
outside it; three events are the fewest of which a middle one can be removed. A
stale write-back of a lease needs a second agent between read and write, and an id
reused needs a second claim. In the lock, two exclusive acquisitions and a reader
are the fewest for the shared flag, and nesting two deep gives the self-deadlock. In
the guard, four callers exceed a cap of two, with one tool tighter than the cap. In
the index, one file refers to two others, so a run can change a definer and leave
its neighbour alone; the periodic commit is at two files instead of a hundred so
that it falls in the middle of a run (`index_resume` keeps the code's hundred: the
commit at the last file suffices). Two edits let a file change and change back, and
three contents let it change its role. One fault is the fewest that loses symbols of
a file or edges of its neighbour, and the edit beside it is what makes the run look
at them. In the rule tables, two rules are enough for edges and merge targets, each
of which is about a pair; a second extraction replaces the table under a command
that has read it, a third lets a rule go and come back, and a third snapshot has a
base that is not the newest. In the served index, two timers are the fewest with one
firing while the other is armed, and the third indexer finds, leaves or steals a
stale lock; two edits let two windows overlap.

Deadlock is left unchecked where the bounds (writes, claims, appends,
extractions) let the system come to rest; it is checked for the lock, the guard,
the index runs and the served index, which must always be able to go on.

Symmetry is used only in runs without a liveness property: `lock_calls` and
`served_index` have none.

**Fairness.** Two specifications state any. `LockMgr` (`FairSpec`): a thread
that is not in a with block runs on; a sleeping reader wakes at its deadline at
the latest, since `Condition.wait` is called with the remaining time; one that
has checked past its deadline gives up. That last one is strong fairness: a drain
may begin and end many times meanwhile. Nothing is assumed about how long a with
block lasts, and `AcquireReturns` holds even if no holder ever leaves.

`ServedIndex` (`Spec`): an index run that has begun goes on unless its process is
killed; the observer thread delivers events; a timer elapses, fires and, when its
command has returned, finishes; a tool call that looked up the cache and missed
goes on; the time to live of an entry passes. All weak: each is a thread the
operating system schedules, or the clock. Nobody has to edit, begin an outside
run, look up, fail, die or stop. `EditsReachIndex` names what the code does not
promise: an edit whose event `push` drops; a window whose run finds the lock taken,
or fails, which is not tried again; whatever comes after `stop`, or after two claims
of the lock that overlapped.

## 4. What the runs found

* **An interrupted index run loses edges for good** (`index_resume`).
  `_advance_processing_progress` commits rows with their real hash and time
  before any reference is resolved. After Ctrl-C the next run finds the files
  unchanged and says "up to date". `IncompleteHasCause` shows that, besides this
  one, three more things leave an up-to-date index incomplete: a definition that
  arrives for a reference of an untouched file, a file that changes back and
  forth while it is read, and a file that cannot be read or parsed when it is
  needed, a neighbour whose edges were deleted before among them.
* **Exclusive is not exclusive beside another exclusive** (`lock_exclusive`). The
  drain flag is one Boolean; whoever ends first, or times out, clears it.
  `ImplementsDrainLock` says what remains true: the promises of `DrainLock`,
  which are off when another exclusive acquisition ends (`RetractAll`).
* **`extract --update` drops the rules of the files it skips** (`rule_updates`).
  It returns the rules of changed files only, and the table is emptied before
  they are stored. `TableIsOneExtraction` is what remains true.
* **A re-index does not always invalidate the result cache** (`served_stale`). A
  result is stored under the modification time the index has when the command
  has returned, and a commit may not have changed that time yet.
  `StaleEntryHasCause` names both causes and `CacheCatchesUp` the end of it.

Behaviour the models show and no documentation denies, so no run is devoted to it:
two first starters of a run may each generate a key, and the events of the one whose
key is replaced no longer verify; two agents that scan before either writes both get
a lease on one file (`OverlapOnlyByRace` is what remains true); two commands may
write the same `seq`, and one of their lines then breaks the chain; a torn last line
swallows the next event; two starts can agree on a run id and share a directory;
`end_run` racing an append leaves a fingerprint that matches no ledger; an exclusive
acquisition inside a read of the same thread times out; a guard call may be declined
while the cap is not reached, because another call is about to give its global
permit back; a light run that only removes files leaves nothing for the next full
run to notice; an edit that leaves the time a file had, within 0.001 s, is not seen;
a suspect object that cannot be moved aside stays at its destination, which the
error says; a summary that took longer than an extraction is written into rows of
other versions; a merge target may be no rule; two index runs whose claims overlap
both run, and the first to finish removes the other's lock. Code read but not
modelled shows that `RuleSnapshot.diff` asks a snapshot for `created_at`, a column
the schema calls `snapshot_at`.

Behaviour that documentation denies and no run of its own is devoted to. The models
have each of these as steps or as exceptions with a name, so that the properties of
the passing runs say what holds in spite of it, and not that the documentation is
right:

| Documentation | The code | In the models |
|---|---|---|
| a write acquisition "blocks new readers from starting" (`runtime/lockmgr.py:7-8`) | a reader looks at the drain flag only, which a writer does not raise | `DrainLock!ShareBesideOwner` |
| releasing an already-expired lease is a no-op; sweeps skip released ones (`leases/store.py:640-642`, 815-816) | an expired lease becomes `released`; a copy read before the release makes it `expired` | `LeaseTable!Relabelled` |
| metrics reused under an equal signature are still valid (`index/indexer.py:1738-1744`) | the signature counts symbols and edges, and looks at 64 of the symbols | cause `reused` of `StaleMetricsHeal` |
| the graph cache is safe "because connections are created per-command and never reused" (`graph/builder.py:10-15`) | it is keyed by the address of a connection, which a later connection of the same process may have | `Recalled`, cause `recalled` |
| the watcher observes the project root and re-indexes, "when any source file changes" (`mcp_extras/watcher.py:3-13`, 34) | `push` drops suffixes the indexer knows (124-125), and a move is judged by its destination (301) | `Ignore`, `filtered` |
| a flurry of writes becomes one re-index pass (`mcp_extras/watcher.py:10-11`) | the window is over when its run is refused or fails (155) | exceptions of `EditsReachIndex` |
| `stop` cancels the timer (`mcp_extras/watcher.py:168-173`) | a timer that has fired forgets a newer one (129), which `stop` can no longer cancel | `Fire`, `Stop` |
| removed rules and permissions are reported (`cmd_br_extract.py:372`, `src/README.md:46`, 99, 129) | a snapshot is compared with what the last one *added*, so a rule seen by two and then removed is in no `removed` list; `auth_removed` looks the rule up where it no longer is (`conflict.py:189-190`) | `Previous`; `SnapshotsCover` says nothing of what `removed` misses |

## 5. Theorems

All are of the form `Spec => []P` (or `Spec => P` for an action property), for
every value of the constants that satisfies the module's named assumption. The
assumptions say only that sets do not overlap, that bounds are naturals, that limits
of tools are at least 1 (which the code sees to), and, where something is counted,
that sets are finite.

* `AtomicInstallProofs`: `TypeCorrect`; `NeverTorn` (`NoTornDestination`): the
  invariant `ContentInv` says that a payload is complete before the checks on it
  begin, and that a proved tempfile pathname names it or a late swap;
  `CreateOnlyOnceHolds` from `MoveInv`, which counts exclusive moves against
  vacancies; `HonestResultHolds` (what a write that failed may have left, a move
  aside that failed included) and `CleanupSparesOthersHolds` from what a writer
  still owns; `OverwriteOnlyKnownHolds`; and `Refinement`, that the
  protocol implements `AtomicFile`: every step installs a payload not seen
  before, removes the file, or is a stutter. On POSIX the late swap is the one
  exception, and it is in the statements.
* `RunLedgerProofs`: `TypeCorrect` (invariant `Sound`); `AlarmHasCauseHolds` from
  `Quiet`: while a ledger is undisturbed its lines are chained in order under the
  one key, and a process on its way to an append holds the tip of that ledger if
  its sequence number is the next one (otherwise its append counts as an
  overlap); `ReturnedEventsSurviveHolds` from `Surviving`;
  `ReceiptSeqsDistinctHolds` from `Served`: between reading and appending, the
  holder of the server's lock knows the numbers of all receipts;
  `TamperingSticksHolds` from `Fresh`: a key about to be installed has signed
  nothing; `ManipulationDetectedHolds` from `Distinct`: no two lines carry the
  same event; `CloseCheckSoundHolds` from `Closing`: ledgers grow at the end only
  and what is taken out never comes back, so where the last line of the closed
  ledger is still at its old place nothing before it has gone.
* `LeaseStoreProofs`: `StoreInv` says that what a process has read and is about to
  write back agrees with the file in subject and expiry; that what a scan has passed
  over stays out of the way; and that a stamped lease expires its ttl after some
  moment since its scan began (`ScanFaithful`). `TypeCorrect`,
  `OverlapOnlyByRaceHolds`, the action properties `SweepsOnlyExpiredHolds` and
  `EndedStaysEndedHolds`, and `Refinement`, that the store implements `LeaseTable`,
  whose `Relabelled` is named in section 4. Its lemmas go one by one: an agent's
  claim stays as it is or is gone (`ClaimKeptOrGone`), since only scan and write
  show it; a write-back ends a lease or relabels one that is over and changes
  nothing else (`WriteBackEnds`, from `CopyFaithful`); the start of a scan is `Ask`;
  the write is `Grant`, because every listed lease was passed over and what is
  passed over never comes back into force.
* `LockMgrProofs`: `LockInv` adds to the properties that acquisitions nest, that
  the guard belongs to one thread, and that an undisturbed exclusive acquisition
  keeps the flag up and, once drained, has no readers. `TypeCorrect`,
  `ReadersCountedHolds`, `NoWaitInVainHolds` (a flag that is up has an
  owner, and whoever sleeps is shut out by it), `ExclusiveIsAloneHolds`, and
  `Refinement`, that the manager implements `DrainLock`. The steps fall into four
  kinds, a lemma for each: waits and failures nobody sees (`WaitsRefine`), readers
  (`SharesRefine`; beside an owner that is the departure `ShareBesideOwner`), owners
  (`OwnersRefine`), and the flag (`PromisesRefine`, with `RetractAll`), where the
  point is that a reader passes only while no promise stands.
* `McpGuardProofs`: `GuardInv` is the permit and gauge accounting itself.
  `TypeCorrect`, `PermitsConservedHolds`, `RunningCappedHolds`,
  `BusyOnlyBesideOthersHolds` (for a cap above 0), `InFlightAccurateHolds`.
* `IndexRunProofs`: `IndexInv` says, of the committed database and of the one in
  work, that no recorded time lies ahead of the last edit, that a row with the time
  of a file's last edit has that file's symbols, or none and a failed read behind it
  (but for the file in hand), that edges join symbols and are stored once; that
  files of the batch have no row before their turn and no edges before all are
  parsed; and that a database with stale metrics has a marked row or a cause, unless
  the run in progress has just committed it. The reasons are those of a pass over
  the metrics, one for each way in which they may be of another graph: an equal
  signature (`reused`), the cache (`recalled`), a pass that failed (`failed`).
  `TypeCorrect`, `FastPathSoundHolds`, `EdgesJoinSymbolsHolds`, `EdgesUniqueHolds`,
  `StaleMetricsHealHolds`. `FullRunSettlesHolds` is an action property: a full run
  that finishes has left no work in any file that was not edited meanwhile and that
  it could read. The step that finishes cannot see this; `RunDecides` carries it
  through the run: a file outside the batch is as its row says, a file of the batch
  exists and, once it is no longer to do, has a row with its hash.
  `IncompleteHasCauseHolds` follows from `CompleteInv`: while a run parses, the
  references of the files parsed so far are at hand, those of the affected files can
  be read again, and any other reference without an edge had none before the run and
  can be met only by a file of the batch.
* `BusinessRulesProofs`: `RuleInv` says that row numbers are distinct and never
  beyond the counter, so that an edge finds the row it was built for or none;
  that what a command has read since the last extraction is still the table;
  that as long as parameters and flows are what the last graph read its edges join
  all rules alike (`GraphComplete`, with `current`); that what `summarize` has read
  fits, targets the answer made up apart (`SummariesFit`); and that snapshots are
  compared with earlier ones and report what they saw. The theorems are `TypeCorrect`
  and one for each property of `rule_calls`.
* `ServedIndexProofs`: `ServedInv` says that while no two claims overlapped one
  indexer claims at a time, that nobody is inside from the moment it passes the test
  of the lock, that the lock file is that of the run inside, that a lock file that
  passes for held is that of a run inside or `stuck` (`HeldHasHolder`), that what a
  run will commit is no older than the index, and that an edit the index lacks is an
  event to come, one `push` dropped, a file pending, or in the hands of a run
  (`EventsFollowEdits`, `EditsUnderWay`). `TypeCorrect`, `ClaimsExcludeHolds`,
  `HeldHasHolderHolds`, `PendingHasTimerHolds`, `EditsUnderWayHolds`,
  `StaleEntryHasCauseHolds`, and the action property `IndexNeverOlderHolds`.
  `EditsUnderWay` is the safety half of `EditsReachIndex`: an edit whose event was
  taken in and that is not in the index is always somewhere on its way, unless the
  watcher stopped, a window's run was refused or failed, or two claims overlapped.
  That it then moves on is fairness, and left to TLC.

Only model-checked: `AcquireReturns`, `EditsReachIndex` and `CacheCatchesUp`,
which are liveness under fairness and beyond the proof system. Every other
property of a passing run, the three refinements included, is a theorem.
No module has a recursive operator, and no proof needs induction over data.

## 6. Not modelled

`PROJECT.json` lists every part with its status. By lines, almost all of `roam`
is in parts that keep no state between calls and read one snapshot of the index:
extraction per language, graph analyses, search, detectors, the plan compiler,
some hundreds of report commands, and formatting. They are functions from a
repository to a text, heuristic by design (thresholds, rankings, regular
expressions, templates): a specification of them would say the code again, and
whether they are right is a matter of the data they meet. So the models cover a
small share of the lines and nearly all of the places where two actors share state.

Inside the modelled components these operations are left out: listings and
single reads (they change nothing); malformed lease files; a caller-supplied
lease time; `verify_chain_with_receipts`; the creation of the default lock
manager; reading the limits of the guard from the environment (constants here);
the extraction of rules from text and the wording of prompts; the banner on
answers from an index older than the tree; which suffixes and directories the
watcher drops (any event may be dropped); the conflicts `check` computes from one
reading of the rules; in the run ledger, errors while
`end_run` reads.

## 7. What is left

1. `VerdictLog` (`guard_log.py`): append and rotate under one bounded lock, with
   holders that die. The lock is held around each whole operation, so the
   interesting part is the bounded wait.
2. The daemon's plan cache, the telemetry queue, permits and savings: each meets
   others in one file or one transaction.
3. `ServedIndex` over `IndexRun` instead of its one reading and one commit, and
   the key file of `RunLedger` over `AtomicFile`.

New modules share runs where one instance can answer several questions, as
`ledger_calls` and `index_runs` do, so that the set of runs stays small enough to be
repeated on every change of the code.
