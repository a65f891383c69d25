---------------------------- MODULE AtomicInstall ----------------------------
(***************************************************************************)
(* The write protocol of roam/atomic_io.py: atomic_write_bytes,            *)
(* _atomic_write_bytes_dirfd, conditional_install_file and the             *)
(* _native_conditional_install they share.                                 *)
(* Several processes write one destination path.  A write creates a        *)
(* sibling tempfile, fills it, captures the generation of the destination, *)
(* pins and re-proves the tempfile and renames it: with an exclusive move  *)
(* when the destination was absent at the capture, otherwise with one more *)
(* generation check and a last-writer-wins replacement.  A process may     *)
(* raise or die at every step.                                             *)
(*                                                                         *)
(* A file object stands for an inode and its content; a generation token   *)
(* (identity, size, times, digest) is the object it was taken from.        *)
(***************************************************************************)
EXTENDS Naturals, FiniteSets

CONSTANTS Writers,      \* processes that call the module on this path
          Other,        \* whoever else touches the directory
          None,         \* no file object
          Torn,         \* what a reader makes of an incomplete file
          Platforms,    \* operating systems: "posix", "nt"
          MaxAttempts,  \* bound: writes per process
          MaxSwaps,     \* bound: tempfile pathnames replaced by Other
          MaxRemovals   \* bound: unlinks of the destination by Other

ASSUME InstallAssumption ==
    /\ Other \notin Writers
    /\ Platforms \subseteq {"posix", "nt"}
    /\ MaxAttempts \in Nat /\ MaxSwaps \in Nat /\ MaxRemovals \in Nat
    /\ {None, Torn} \cap [by : Writers \cup {Other}, n : 0..(MaxAttempts + MaxSwaps)] = {}

Parties == Writers \cup {Other}
Object == [by : Parties, n : 0..(MaxAttempts + MaxSwaps)]
\* The options of a write; "built" is conditional_install_file, which installs
\* a file its caller has filled and keeps owning.
Mode == { m \in [absent : BOOLEAN, durable : BOOLEAN, built : BOOLEAN] :
            ~(m.built /\ m.absent) }

VARIABLES
    platform,  \* os.name, the same for all of them
    dest,      \* object the destination path names
    temp,      \* object each writer's tempfile path names
    tries,     \* objects each party has created so far
    whole,     \* objects that hold the complete payload of their writer
    pc,        \* program counter of each write
    mode,      \* options of the current write
    expected,  \* destination generation captured by the write
    result,    \* how the last write of each process ended
    unlinked,  \* objects deleted by _cleanup_tmp
    vacated,   \* auxiliary: times the destination came to name no file
    ever,      \* auxiliary: objects the destination has ever named
    moves,     \* auxiliary: successful exclusive moves
    raced,     \* auxiliary: objects installed since the write's last check
    late       \* auxiliary: objects that replaced a tempfile after its proof

vars == <<platform, dest, temp, tries, whole, pc, mode, expected, result,
          unlinked, vacated, ever, moves, raced, late>>
aux == <<ever, moves, raced>>

Own(w) == [by |-> w, n |-> tries[w]]

Filling == {"created", "writing", "written"}
Checking == {"captured", "pinned", "proving", "proved"}
Committed == {"published", "installed"}
Pc == {"idle"} \cup Filling \cup Checking \cup Committed

\* Windows refuses to rename or replace an object somebody has open: the
\* descriptor that fills the tempfile, and the handle that pins it.
Held(w) ==
    /\ platform = "nt"
    /\ pc[w] \in {"created", "writing", "pinned", "proving", "proved", "published"}

TypeOK ==
    /\ platform \in Platforms
    /\ dest \in Object \cup {None}
    /\ temp \in [Writers -> Object \cup {None}]
    /\ tries \in [Parties -> 0..(MaxAttempts + MaxSwaps)]
    /\ whole \subseteq Object
    /\ pc \in [Writers -> Pc]
    /\ mode \in [Writers -> Mode]
    /\ expected \in [Writers -> Object \cup {None}]
    /\ result \in [Writers -> {"none", "ok", "raised", "stranded", "died"}]
    /\ unlinked \subseteq Object
    /\ vacated \in Nat
    /\ ever \subseteq Object
    /\ moves \in Nat
    /\ raced \in [Writers -> SUBSET Object]
    /\ late \subseteq Object

\* The object that is in place before any of these writes.
Original == [by |-> Other, n |-> 0]

Init ==
    /\ platform \in Platforms
    /\ dest \in {None, Original}
    /\ temp = [w \in Writers |-> None]
    /\ tries = [p \in Parties |-> 0]
    /\ whole = {Original}
    /\ pc = [w \in Writers |-> "idle"]
    /\ mode = [w \in Writers |-> [absent |-> FALSE, durable |-> FALSE, built |-> FALSE]]
    /\ expected = [w \in Writers |-> None]
    /\ result = [w \in Writers |-> "none"]
    /\ unlinked = {}
    /\ vacated = IF dest = None THEN 1 ELSE 0
    /\ ever = {dest} \ {None}
    /\ moves = 0
    /\ raced = [w \in Writers |-> {}]
    /\ late = {}

-----------------------------------------------------------------------------
Goto(w, label) == pc' = [pc EXCEPT ![w] = label]

(* The checks of the protocol.  A definition named Bug... is the one that   *)
(* follows it with a plausible mistake; the runs use it to show that a      *)
(* property notices the mistake.                                            *)

BugTempUntouched(w) == temp[w] # None

\* The tempfile pathname names the object this write created and filled.
TempUntouched(w) == temp[w] = Own(w)

BugDestinationUnchanged(w) == TRUE

\* The destination generation is the captured one.
DestinationUnchanged(w) == dest = expected[w]

BugMayMove(w) == TRUE

\* renameat2(RENAME_NOREPLACE) for an absent destination, os.replace else.
MayMove(w) == expected[w] = None => dest = None

BugFallible == Filling \cup Checking \cup {"installed"}

\* Program points from which an exception leads to _cleanup_tmp.
Fallible == Filling \cup Checking

BugCleanable(w) == IF platform = "nt" THEN {temp[w]} \ {None} ELSE {}

\* _cleanup_tmp: Windows deletes the tempfile when the path still names the
\* object this write created, POSIX always keeps it; a caller's file is kept.
Cleanable(w) ==
    IF platform = "nt" /\ TempUntouched(w) /\ ~mode[w].built
    THEN {Own(w)} ELSE {}

MayStart(w) == pc[w] = "idle" /\ tries[w] < MaxAttempts

\* mkstemp creates an empty sibling of the destination; a built file comes
\* complete.
Create(w, m) ==
    /\ MayStart(w)
    /\ Goto(w, IF m.built THEN "written" ELSE "created")
    /\ tries' = [tries EXCEPT ![w] = @ + 1]
    /\ temp' = [temp EXCEPT ![w] = Own(w)']
    /\ whole' = IF m.built THEN whole \cup {Own(w)'} ELSE whole
    /\ mode' = [mode EXCEPT ![w] = m]
    /\ result' = [result EXCEPT ![w] = "none"]
    /\ raced' = [raced EXCEPT ![w] = {}]
    /\ UNCHANGED <<dest, expected, unlinked, vacated, ever, moves, late>>

BeginWrite(w) ==
    /\ pc[w] = "created"
    /\ Goto(w, "writing")
    /\ UNCHANGED <<dest, temp, tries, whole, mode, expected, result, unlinked,
                   vacated, aux, late>>

\* The descriptor is written, flushed and closed; the object is now complete.
FinishWrite(w) ==
    /\ pc[w] = "writing"
    /\ Goto(w, "written")
    /\ whole' = whole \cup {Own(w)}
    /\ UNCHANGED <<dest, temp, tries, mode, expected, result, unlinked,
                   vacated, aux, late>>

\* The tempfile is still ours; the destination generation is captured, and a
\* create-only write stops here when there is one.
Capture(w) ==
    /\ pc[w] = "written"
    /\ TempUntouched(w)
    /\ mode[w].absent => dest = None
    /\ expected' = [expected EXCEPT ![w] = dest]
    /\ Goto(w, "captured")
    /\ UNCHANGED <<dest, temp, tries, whole, mode, result, unlinked, vacated,
                   aux, late>>

\* Runs after before_replace: the pathname is checked once more, then opened.
Pin(w) ==
    /\ pc[w] = "captured"
    /\ TempUntouched(w)
    /\ Goto(w, IF expected[w] = None THEN "proving" ELSE "pinned")
    /\ UNCHANGED <<dest, temp, tries, whole, mode, expected, result, unlinked,
                   vacated, aux, late>>

\* Last look at a destination that was present at the capture.
Recheck(w) ==
    /\ pc[w] = "pinned"
    /\ DestinationUnchanged(w)
    /\ raced' = [raced EXCEPT ![w] = {}]
    /\ Goto(w, "proving")
    /\ UNCHANGED <<dest, temp, tries, whole, mode, expected, result, unlinked,
                   vacated, ever, moves, late>>

\* The content behind the descriptor is hashed again; on POSIX the tempfile
\* pathname must still name that object, on Windows the handle keeps it there.
Prove(w) ==
    /\ pc[w] = "proving"
    /\ TempUntouched(w)
    /\ Goto(w, "proved")
    /\ UNCHANGED <<dest, temp, tries, whole, mode, expected, result, unlinked,
                   vacated, aux, late>>

\* POSIX renames whatever the tempfile pathname names now, Windows the object
\* it holds.  Windows cannot replace an object another writer holds.
Publish(w) ==
    LET object == temp[w] IN
    /\ pc[w] = "proved"
    /\ object # None
    /\ MayMove(w)
    /\ ~ \E v \in Writers \ {w} : Held(v) /\ dest = Own(v)
    /\ dest' = object
    /\ temp' = [temp EXCEPT ![w] = None]
    /\ ever' = ever \cup {object}
    /\ moves' = IF expected[w] = None THEN moves + 1 ELSE moves
    /\ raced' = [v \in Writers |-> raced[v] \cup {object}]
    /\ Goto(w, IF platform = "posix" THEN "installed" ELSE "published")
    /\ UNCHANGED <<tries, whole, mode, expected, result, unlinked, vacated, late>>

\* Windows reads the published object back before it drops the handle.
Confirm(w) ==
    /\ pc[w] = "published"
    /\ Goto(w, "installed")
    /\ UNCHANGED <<dest, temp, tries, whole, mode, expected, result, unlinked,
                   vacated, aux, late>>

\* The read-back failed or found another generation (a hard link was added):
\* the object is moved off the destination and the write raises.
Quarantine(w) ==
    /\ pc[w] = "published"
    /\ dest' = None
    /\ vacated' = vacated + 1
    /\ result' = [result EXCEPT ![w] = "raised"]
    /\ Goto(w, "idle")
    /\ UNCHANGED <<temp, tries, whole, mode, expected, unlinked, aux, late>>

\* The move aside fails too (128 names taken, or a failing call): the object
\* stays at the destination and the caller gets EIO, "could not be quarantined".
QuarantineFails(w) ==
    /\ pc[w] = "published"
    /\ result' = [result EXCEPT ![w] = "stranded"]
    /\ Goto(w, "idle")
    /\ UNCHANGED <<dest, temp, tries, whole, mode, expected, unlinked, vacated,
                   aux, late>>

Return(w) ==
    /\ pc[w] = "installed"
    /\ result' = [result EXCEPT ![w] = "ok"]
    /\ Goto(w, "idle")
    /\ UNCHANGED <<dest, temp, tries, whole, mode, expected, unlinked, vacated,
                   aux, late>>

BugSyncFails(w) ==
    /\ pc[w] = "installed"
    /\ mode[w].durable
    /\ dest' = expected[w]
    /\ result' = [result EXCEPT ![w] = "raised"]
    /\ Goto(w, "idle")
    /\ UNCHANGED <<temp, tries, whole, mode, expected, unlinked, vacated, aux, late>>

\* The directory (or handle) of a durable write cannot be synced: the rename
\* has happened and the call raises all the same.
SyncFails(w) ==
    /\ pc[w] = "installed"
    /\ mode[w].durable
    /\ result' = [result EXCEPT ![w] = "raised"]
    /\ Goto(w, "idle")
    /\ UNCHANGED <<dest, temp, tries, whole, mode, expected, unlinked, vacated,
                   aux, late>>

\* A failed check, a failing system call or a raising callback.
Abort(w) ==
    /\ pc[w] \in Fallible
    /\ unlinked' = unlinked \cup Cleanable(w)
    /\ temp' = [temp EXCEPT ![w] = None]
    /\ result' = [result EXCEPT ![w] = "raised"]
    /\ Goto(w, "idle")
    /\ UNCHANGED <<dest, tries, whole, mode, expected, vacated, aux, late>>

\* The process dies; its tempfile stays where it is.
Die(w) ==
    /\ pc[w] # "idle"
    /\ temp' = [temp EXCEPT ![w] = None]
    /\ result' = [result EXCEPT ![w] = "died"]
    /\ Goto(w, "idle")
    /\ UNCHANGED <<dest, tries, whole, mode, expected, unlinked, vacated, aux, late>>

-----------------------------------------------------------------------------
\* Someone puts another object under a tempfile's pathname.
Swap(w) ==
    /\ tries[Other] < MaxSwaps
    /\ temp[w] # None /\ ~Held(w)
    /\ tries' = [tries EXCEPT ![Other] = @ + 1]
    /\ temp' = [temp EXCEPT ![w] = Own(Other)']
    /\ late' = IF pc[w] = "proved" THEN late \cup {Own(Other)'} ELSE late
    /\ UNCHANGED <<dest, whole, pc, mode, expected, result, unlinked, vacated, aux>>

\* The owner of the destination deletes it.
Remove ==
    /\ dest # None
    /\ vacated < MaxRemovals
    /\ ~ \E w \in Writers : Held(w) /\ dest = Own(w)
    /\ dest' = None
    /\ vacated' = vacated + 1
    /\ UNCHANGED <<temp, tries, whole, pc, mode, expected, result, unlinked, aux, late>>

Next ==
    /\ UNCHANGED platform
    /\ \/ \E w \in Writers :
           \/ \E m \in Mode : Create(w, m)
           \/ BeginWrite(w) \/ FinishWrite(w)
           \/ Capture(w) \/ Pin(w) \/ Recheck(w) \/ Prove(w) \/ Publish(w)
           \/ Confirm(w) \/ Quarantine(w) \/ QuarantineFails(w)
           \/ Return(w) \/ SyncFails(w)
           \/ Abort(w) \/ Die(w)
           \/ Swap(w)
       \/ Remove

Spec == Init /\ [][Next]_vars

-----------------------------------------------------------------------------
(* Safety *)

\* A reader never meets a torn or foreign file at the destination, whatever
\* died half-way, unless the tempfile's pathname was replaced in the POSIX
\* window between the last proof and the rename.
NoTornDestination == dest # None => dest \in whole \cup late

\* Concurrent create-only installs: every exclusive move found the path
\* empty, so there are no more of them than times the path was empty.
CreateOnlyOnce == moves <= vacated

\* A caller that is told "written" has published its own complete payload, and
\* a caller that is told "failed" without durability has not: its object is
\* not what readers find.  The one failure after which it may be is told apart
\* by its error: a committed object that could not be moved aside again.
HonestResult ==
    \A w \in Writers :
        /\ result[w] \in {"ok", "stranded"} /\ late = {} => Own(w) \in ever
        /\ result[w] = "raised" /\ ~mode[w].durable => dest # Own(w)

\* Failure cleanup deletes nothing but tempfiles of the failing write: not a
\* replacement object, not the file readers find, not a caller's built file.
CleanupSparesOthers ==
    /\ dest \notin unlinked
    /\ \A o \in unlinked : o.by # Other
    /\ \A w \in Writers : mode[w].built => Own(w) \notin unlinked

-----------------------------------------------------------------------------
(* Action properties *)

Overwrite == dest # None /\ dest' # None /\ dest' # dest

\* A replacement that was visible at a write's last check is never silently
\* overwritten by it: what a write overwrites is the generation it captured or
\* one installed after that check.
OverwriteOnlyKnown ==
    [][\A w \in Writers :
         pc[w] = "proved" /\ pc'[w] \in Committed /\ Overwrite
           => dest = expected[w] \/ dest \in raced[w]]_vars

-----------------------------------------------------------------------------
(* The protocol implements an atomic file. *)

\* A late swap shows as what it is, a complete file of somebody else.
Contents == IF dest \in whole \cup late \cup {None} THEN dest ELSE Torn

Reader == INSTANCE AtomicFile WITH
    Payloads <- Object, Absent <- None, file <- Contents, spent <- ever

\* To readers of the destination every step of every writer, dying ones
\* included, is the installation of one complete payload never seen before,
\* the removal of the file, or nothing.
ImplementsAtomicFile == Reader!Spec

=============================================================================
