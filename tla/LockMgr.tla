------------------------------- MODULE LockMgr -------------------------------
(***************************************************************************)
(* The read/write/exclusive lock of the daemon: roam/runtime/lockmgr.py.   *)
(* A thread may acquire again inside an acquisition it holds; every wait   *)
(* ends with a timeout at the latest.  threading.RLock is modelled by the  *)
(* acquisitions that hold it: a thread may take it when it is free or its  *)
(* own.                                                                    *)
(***************************************************************************)
EXTENDS Naturals, FiniteSets

CONSTANTS Threads,
          MaxDepth   \* bound: acquisitions a thread nests

ASSUME LockAssumption == IsFiniteSet(Threads) /\ MaxDepth \in Nat

\* The acquisition <<t, d>> is the d-th of those thread t has open.
Calls == Threads \X (1..MaxDepth)
Owner(c) == c[1]

VARIABLES
    pc,        \* what each acquisition is doing
    depth,     \* acquisitions each thread has open
    readers,   \* _readers
    drained,   \* _readers_drained is set
    draining,  \* _draining
    guard,     \* acquisitions that hold _writer_lock
    alone      \* auxiliary: exclusive acquisitions during which no other one ended

vars == <<pc, depth, readers, drained, draining, guard, alone>>

ReadPcs == {"rcheck", "rsleep", "rheld"}
WritePcs == {"wlock", "wheld"}
ExclusivePcs == {"xdrain", "xlock", "xheld", "xend"}
Pcs == {"none"} \cup ReadPcs \cup WritePcs \cup ExclusivePcs

\* Inside the with block.
HeldPcs == {"rheld", "wheld", "xheld"}

TypeOK ==
    /\ pc \in [Calls -> Pcs]
    /\ depth \in [Threads -> 0..MaxDepth]
    /\ readers \in Nat
    /\ drained \in BOOLEAN
    /\ draining \in BOOLEAN
    /\ guard \subseteq Calls
    /\ alone \subseteq Calls

Init ==
    /\ pc = [c \in Calls |-> "none"]
    /\ depth = [t \in Threads |-> 0]
    /\ readers = 0
    /\ drained = TRUE
    /\ draining = FALSE
    /\ guard = {}
    /\ alone = {}

\* The innermost acquisition of its thread.
Innermost(c) == depth[Owner(c)] = c[2]

At(c, place) == Innermost(c) /\ pc[c] = place

-----------------------------------------------------------------------------
(* Steps.  A definition named Bug... is the one that follows it with a      *)
(* plausible mistake; the runs use it to show that a property notices it.   *)

\* Threads asleep on the condition check it again.
Notified == [c \in Calls |-> IF pc[c] = "rsleep" THEN "rcheck" ELSE pc[c]]

\* A thread enters acquire outside any acquisition or inside one it holds.
MayEnter(c) ==
    /\ depth[Owner(c)] = c[2] - 1
    /\ c[2] > 1 => pc[<<c[1], c[2] - 1>>] \in HeldPcs

Enter(c, place, awake) ==
    /\ MayEnter(c)
    /\ depth' = [depth EXCEPT ![Owner(c)] = @ + 1]
    /\ pc' = [awake EXCEPT ![c] = place]

\* An acquisition ends, with its with block or by raising TimeoutError.
Leave(c, awake) ==
    /\ depth' = [depth EXCEPT ![Owner(c)] = @ - 1]
    /\ pc' = [awake EXCEPT ![c] = "none"]

Goto(c, place) == pc' = [pc EXCEPT ![c] = place] /\ UNCHANGED depth

BeginRead(c) ==
    /\ Enter(c, "rcheck", pc)
    /\ UNCHANGED <<readers, drained, draining, guard, alone>>

\* New readers wait.
ShutOut == draining

ReadEnters(c) ==
    /\ At(c, "rcheck")
    /\ ~ShutOut
    /\ Goto(c, "rheld")
    /\ readers' = readers + 1
    /\ drained' = FALSE
    /\ UNCHANGED <<draining, guard, alone>>

ReadSleeps(c) ==
    /\ At(c, "rcheck")
    /\ ShutOut
    /\ Goto(c, "rsleep")
    /\ UNCHANGED <<readers, drained, draining, guard, alone>>

\* The wait times out by itself; the deadline may not have passed quite yet.
ReadWakes(c) ==
    /\ At(c, "rsleep")
    /\ Goto(c, "rcheck")
    /\ UNCHANGED <<readers, drained, draining, guard, alone>>

\* TimeoutError: readers blocked.
ReadTimesOut(c) ==
    /\ At(c, "rcheck")
    /\ ShutOut
    /\ Leave(c, pc)
    /\ UNCHANGED <<readers, drained, draining, guard, alone>>

BugLastReader == readers = 0

\* The reader that leaves is the last.
LastReader == readers = 1

EndRead(c) ==
    /\ At(c, "rheld")
    /\ Leave(c, Notified)
    /\ readers' = readers - 1
    /\ drained' = (drained \/ LastReader)
    /\ UNCHANGED <<draining, guard, alone>>

BeginWrite(c) ==
    /\ Enter(c, "wlock", pc)
    /\ UNCHANGED <<readers, drained, draining, guard, alone>>

\* The RLock is free, or the thread's own.
GuardFree(c) == \A d \in guard : Owner(d) = Owner(c)

WriteEnters(c) ==
    /\ At(c, "wlock")
    /\ GuardFree(c)
    /\ guard' = guard \cup {c}
    /\ Goto(c, "wheld")
    /\ UNCHANGED <<readers, drained, draining, alone>>

WriteTimesOut(c) ==
    /\ At(c, "wlock")
    /\ ~GuardFree(c)
    /\ Leave(c, pc)
    /\ UNCHANGED <<readers, drained, draining, guard, alone>>

EndWrite(c) ==
    /\ At(c, "wheld")
    /\ guard' = guard \ {c}
    /\ Leave(c, pc)
    /\ UNCHANGED <<readers, drained, draining, alone>>

BeginExclusive(c) ==
    /\ Enter(c, "xdrain", Notified)
    /\ draining' = TRUE
    /\ alone' = alone \cup {c}
    /\ UNCHANGED <<readers, drained, guard>>

BugMayPass == TRUE

\* No reader is in flight.
MayPass == drained

ReadersAreDrained(c) ==
    /\ At(c, "xdrain")
    /\ MayPass
    /\ Goto(c, "xlock")
    /\ UNCHANGED <<readers, drained, draining, guard, alone>>

ExclusiveEnters(c) ==
    /\ At(c, "xlock")
    /\ GuardFree(c)
    /\ guard' = guard \cup {c}
    /\ Goto(c, "xheld")
    /\ UNCHANGED <<readers, drained, draining, alone>>

\* A wait for the readers without a timeout.
BugGivesUp(c) == At(c, "xlock") /\ ~GuardFree(c)

\* Readers did not leave, or the writer did not, in time.
GivesUp(c) ==
    \/ At(c, "xdrain") /\ ~MayPass
    \/ At(c, "xlock") /\ ~GuardFree(c)

\* The drain is left on.
BugExclusiveTimesOut(c) ==
    /\ GivesUp(c)
    /\ Leave(c, pc)
    /\ UNCHANGED <<readers, drained, draining, guard, alone>>

ExclusiveTimesOut(c) ==
    /\ GivesUp(c)
    /\ Goto(c, "xend")
    /\ UNCHANGED <<readers, drained, draining, guard, alone>>

ReleaseExclusive(c) ==
    /\ At(c, "xheld")
    /\ guard' = guard \ {c}
    /\ Goto(c, "xend")
    /\ UNCHANGED <<readers, drained, draining, alone>>

\* After the with block and after a timeout alike.
EndExclusive(c) ==
    /\ At(c, "xend")
    /\ draining' = FALSE
    /\ alone' = {}
    /\ Leave(c, Notified)
    /\ UNCHANGED <<readers, drained, guard>>

Next ==
    \E c \in Calls :
        \/ BeginRead(c) \/ ReadEnters(c) \/ ReadSleeps(c) \/ ReadWakes(c)
        \/ ReadTimesOut(c) \/ EndRead(c)
        \/ BeginWrite(c) \/ WriteEnters(c) \/ WriteTimesOut(c) \/ EndWrite(c)
        \/ BeginExclusive(c) \/ ReadersAreDrained(c) \/ ExclusiveEnters(c)
        \/ ExclusiveTimesOut(c) \/ ReleaseExclusive(c) \/ EndExclusive(c)

Spec == Init /\ [][Next]_vars

\* Threads run on; a sleeping reader wakes at its deadline at the latest, and
\* one that checks past its deadline gives up (strong fairness: it may sleep
\* and check many times before).  Nothing is assumed of the with blocks.
Fairness ==
    \A c \in Calls :
        /\ WF_vars(ReadWakes(c))
        /\ SF_vars(ReadEnters(c) \/ ReadTimesOut(c))
        /\ WF_vars(WriteEnters(c) \/ WriteTimesOut(c))
        /\ WF_vars(ReadersAreDrained(c) \/ ExclusiveEnters(c) \/ ExclusiveTimesOut(c))
        /\ WF_vars(EndExclusive(c))

FairSpec == Spec /\ Fairness

-----------------------------------------------------------------------------
(* Properties *)

Readers == {c \in Calls : pc[c] = "rheld"}
Exclusives == {c \in Calls : pc[c] \in ExclusivePcs}

\* Timeouts, nesting and early exits never lose count of the readers, so the
\* drained event is set exactly when no reader is in its with block.
ReadersCounted ==
    /\ readers = Cardinality(Readers)
    /\ drained <=> Readers = {}

\* Readers are shut out only on behalf of an exclusive acquisition still in
\* progress: a drain that timed out leaves nothing behind.
DrainHasOwner == draining => Exclusives # {}

\* No reader sleeps through the end of a drain.
SleepersShutOut == (\E c \in Calls : pc[c] = "rsleep") => draining

\* Nobody sleeps on for somebody who is gone, whatever timed out before: no drain
\* flag outlives its owners, and a reader is asleep only beside a writer or an
\* exclusive acquisition, the two its documentation lets it wait for.
NoWaitInVain ==
    /\ DrainHasOwner
    /\ (\E c \in Calls : pc[c] = "rsleep")
          => \E d \in Calls : pc[d] \in {"wheld"} \cup ExclusivePcs

\* An exclusive acquisition during which no other one ended has the lock to
\* itself: no reader, not even of its own thread, and no other thread's writer.
ExclusiveIsAlone ==
    \A c \in alone : pc[c] = "xheld" =>
        /\ Readers = {}
        /\ \A d \in Calls : pc[d] \in {"wheld", "xheld"} => Owner(d) = Owner(c)

\* Every acquire returns or raises, even if no other thread ever leaves its
\* with block.
AcquireReturns ==
    \A c \in Calls :
        pc[c] \in {"rcheck", "rsleep", "wlock", "xdrain", "xlock", "xend"}
            ~> pc[c] \in HeldPcs \cup {"none"}

-----------------------------------------------------------------------------
(* The inductive invariant behind the safety properties *)

WellNested == \A c \in Calls : c[2] > depth[Owner(c)] => pc[c] = "none"

GuardHeld ==
    /\ guard = {c \in Calls : pc[c] \in {"wheld", "xheld"}}
    /\ \A c, d \in guard : Owner(c) = Owner(d)

\* While an exclusive acquisition is alone, readers stay out, and once they
\* have drained there are none.
AloneDrains ==
    \A c \in alone :
        /\ draining
        /\ pc[c] \in ExclusivePcs
        /\ pc[c] \in {"xlock", "xheld"} => Readers = {}

LockInv ==
    /\ TypeOK
    /\ WellNested
    /\ ReadersCounted
    /\ DrainHasOwner
    /\ SleepersShutOut
    /\ GuardHeld
    /\ AloneDrains

-----------------------------------------------------------------------------
(* What the manager promises *)

Drain == INSTANCE DrainLock WITH
    Ranks <- 1..MaxDepth,
    sharing <- Readers,
    owning <- guard,
    exclusive <- Exclusives,
    promised <- alone

\* To the threads the counters, flags and waits are a lock that an exclusive
\* acquisition gets when nobody shares it and that nobody shares until it ends.
\* The two departures from the documentation have names in DrainLock: sharing
\* beside a writer, and promises that end with another exclusive acquisition.
ImplementsDrainLock == Drain!Spec

-----------------------------------------------------------------------------
(* What the documentation says and the code does not do *)

\* "exclusive": "drains all readers + writers then blocks".
ExclusiveExcludes ==
    \A c, d \in Calls :
        pc[c] = "xheld" /\ pc[d] \in HeldPcs => Owner(c) = Owner(d)

=============================================================================
