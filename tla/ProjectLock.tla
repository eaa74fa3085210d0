---------------------------- MODULE ProjectLock -----------------------------
(***************************************************************************)
(* The advisory lock that serialises every operation on one project        *)
(* (azt_collabd/locks.py): a per-process threading.RLock in front of a     *)
(* flock on $AZT_HOME/locks/<hash>.lock, taken with one deadline over      *)
(* both, re-entrant, with a table of holders for /v1/health.               *)
(*                                                                         *)
(* A thread's pc is "idle" outside acquire() and release(); it is inside   *)
(* the critical section when its process's depth counts an entry of its.   *)
(***************************************************************************)
EXTENDS Naturals, FiniteSets

CONSTANTS
    Threads,      \* every thread of every process that uses the lock
    Procs,        \* the processes: the daemon, a respawned one, a CLI
    ProcOf,       \* the process a thread belongs to
    HasFlock,     \* FALSE where the fcntl module is missing (Windows)
    MaxDepth,     \* bound: how deep a thread nests project_lock
    NoThread,
    NoProc

ASSUME ThreadAssumption == ProcOf \in [Threads -> Procs]
ASSUME NobodyAssumption == NoThread \notin Threads /\ NoProc \notin Procs
ASSUME ConfigAssumption == HasFlock \in BOOLEAN /\ MaxDepth \in Nat \ {0}

VARIABLES
    pc,           \* where each thread is inside acquire() or release()
    owner,        \* [Procs -> ...] the thread that owns the process's RLock
    entries,      \* [Procs -> Nat] the RLock's own recursion count
    depth,        \* [Procs -> Nat] _ReentrantFileLock._depth
    flocked,      \* the process whose descriptor holds the flock
    held          \* [Procs -> ...] the _held table: the recorded holder

vars == <<pc, owner, entries, depth, flocked, held>>

Points == {"idle", "rlock", "flock", "count", "record",
           "forget", "unflock", "unlock"}

TypeOK ==
    /\ pc \in [Threads -> Points]
    /\ owner \in [Procs -> Threads \cup {NoThread}]
    /\ entries \in [Procs -> Nat]
    /\ depth \in [Procs -> Nat]
    /\ flocked \in Procs \cup {NoProc}
    /\ held \in [Procs -> Threads \cup {NoThread}]

Init ==
    /\ pc = [t \in Threads |-> "idle"]
    /\ owner = [p \in Procs |-> NoThread]
    /\ entries = [p \in Procs |-> 0]
    /\ depth = [p \in Procs |-> 0]
    /\ flocked = NoProc
    /\ held = [p \in Procs |-> NoThread]

Goto(t, point) == pc' = [pc EXCEPT ![t] = point]

-----------------------------------------------------------------------------
(* acquire(timeout)                                                        *)

(* Some code enters "with project_lock(...)", afresh or nested.            *)
Call(t) ==
    /\ pc[t] = "idle"
    /\ owner[ProcOf[t]] = t => depth[ProcOf[t]] < MaxDepth
    /\ Goto(t, "rlock")
    /\ UNCHANGED <<owner, entries, depth, flocked, held>>

RLockFree(t) == owner[ProcOf[t]] \in {NoThread, t}

TakeRLock(t) == LET p == ProcOf[t] IN
    /\ pc[t] = "rlock" /\ RLockFree(t)
    /\ owner' = [owner EXCEPT ![p] = t]
    /\ entries' = [entries EXCEPT ![p] = @ + 1]
    /\ Goto(t, IF depth[p] = 0 THEN "flock" ELSE "count")
    /\ UNCHANGED <<depth, flocked, held>>

(* A variant with a fault: acquire() without a deadline.                   *)
NoTimeout(t) == FALSE

(* LockTimeout "lock busy (in-process)": the deadline passes while another *)
(* thread of this process owns the RLock.                                  *)
RLockTimeout(t) ==
    /\ pc[t] = "rlock" /\ ~RLockFree(t)
    /\ Goto(t, "idle")
    /\ UNCHANGED <<owner, entries, depth, flocked, held>>

(* A variant with a fault: the flock is taken whoever has it.              *)
AlwaysFlock(p) == TRUE

CanFlock(p) == HasFlock => flocked = NoProc

TakeFlock(t) == LET p == ProcOf[t] IN
    /\ pc[t] = "flock" /\ CanFlock(p)
    /\ flocked' = IF HasFlock THEN p ELSE flocked
    /\ Goto(t, "count")
    /\ UNCHANGED <<owner, entries, depth, held>>

(* One RLock.release(): the owner leaves with its last entry.              *)
ReleaseRLock(p) ==
    /\ entries' = [entries EXCEPT ![p] = @ - 1]
    /\ owner' = [owner EXCEPT ![p] = IF entries[p] = 1 THEN NoThread ELSE @]

(* The deadline passes with the flock busy, or open()/flock() raises.      *)
FlockFails(t) == LET p == ProcOf[t] IN
    /\ pc[t] = "flock" /\ HasFlock
    /\ ReleaseRLock(p)
    /\ Goto(t, "idle")
    /\ UNCHANGED <<depth, flocked, held>>

CountEntry(t) == LET p == ProcOf[t] IN
    /\ pc[t] = "count"
    /\ depth' = [depth EXCEPT ![p] = @ + 1]
    /\ Goto(t, IF depth[p] = 0 THEN "record" ELSE "idle")
    /\ UNCHANGED <<owner, entries, flocked, held>>

RecordHolder(t) ==
    /\ pc[t] = "record"
    /\ held' = [held EXCEPT ![ProcOf[t]] = t]
    /\ Goto(t, "idle")
    /\ UNCHANGED <<owner, entries, depth, flocked>>

-----------------------------------------------------------------------------
(* release()                                                               *)

CountExit(t) == LET p == ProcOf[t] IN
    /\ pc[t] = "idle" /\ owner[p] = t
    /\ depth' = [depth EXCEPT ![p] = @ - 1]
    /\ Goto(t, IF depth[p] = 1 THEN "forget" ELSE "unlock")
    /\ UNCHANGED <<owner, entries, flocked, held>>

(* A variant with a fault: the record stays.                               *)
NotForgotten(t) == t

(* What _forget_holder leaves in the table.                                *)
Forgotten(t) == NoThread

ForgetHolder(t) ==
    /\ pc[t] = "forget"
    /\ held' = [held EXCEPT ![ProcOf[t]] = Forgotten(t)]
    /\ Goto(t, "unflock")
    /\ UNCHANGED <<owner, entries, depth, flocked>>

(* A variant with a fault: the descriptor is dropped, not unlocked.        *)
FlockKept(p) == flocked

(* Who holds the flock once release() has unlocked and closed the fd.      *)
FlockAfterRelease(p) == IF flocked = p THEN NoProc ELSE flocked

DropFlock(t) ==
    /\ pc[t] = "unflock"
    /\ flocked' = FlockAfterRelease(ProcOf[t])
    /\ Goto(t, "unlock")
    /\ UNCHANGED <<owner, entries, depth, held>>

DropRLock(t) ==
    /\ pc[t] = "unlock"
    /\ ReleaseRLock(ProcOf[t])
    /\ Goto(t, "idle")
    /\ UNCHANGED <<depth, flocked, held>>

-----------------------------------------------------------------------------
(* The process is killed (Android OOM, kill -9, admin restart) and may be  *)
(* started again: its memory is gone, the kernel drops its flock.          *)
ProcessDies(p) ==
    /\ pc' = [t \in Threads |-> IF ProcOf[t] = p THEN "idle" ELSE pc[t]]
    /\ owner' = [owner EXCEPT ![p] = NoThread]
    /\ entries' = [entries EXCEPT ![p] = 0]
    /\ depth' = [depth EXCEPT ![p] = 0]
    /\ flocked' = IF flocked = p THEN NoProc ELSE flocked
    /\ held' = [held EXCEPT ![p] = NoThread]

Acquiring(t) ==
    \/ TakeRLock(t) \/ RLockTimeout(t) \/ TakeFlock(t) \/ FlockFails(t)
    \/ CountEntry(t) \/ RecordHolder(t)

Releasing(t) == ForgetHolder(t) \/ DropFlock(t) \/ DropRLock(t)

ThreadStep(t) == Call(t) \/ Acquiring(t) \/ CountExit(t) \/ Releasing(t)

Next ==
    \/ \E t \in Threads : ThreadStep(t)
    \/ \E p \in Procs : ProcessDies(p)

(* acquire() and release() run to their end once called. Nothing is        *)
(* assumed of the critical section itself: it may hold the lock for ever.  *)
Fairness == \A t \in Threads : WF_vars(Acquiring(t)) /\ WF_vars(Releasing(t))

Spec == Init /\ [][Next]_vars

FairSpec == Spec /\ Fairness

-----------------------------------------------------------------------------
(* The thread has been counted in and has not been counted out.            *)
Inside(t) == owner[ProcOf[t]] = t /\ depth[ProcOf[t]] > 0

(* No two threads, of whatever processes, are inside the lock together:    *)
(* the RLock and the flock, with their two releases in the right order.    *)
MutualExclusion ==
    HasFlock => \A t, u \in Threads : Inside(t) /\ Inside(u) => t = u

(* /v1/health never names a thread that is not really holding the lock:    *)
(* the record is written after the flock is taken and dropped before.      *)
HolderIsTruthful ==
    \A p \in Procs : held[p] # NoThread =>
        /\ owner[p] = held[p]
        /\ HasFlock => flocked = p

(* A flock is never left behind: whatever way acquire() or release() ends, *)
(* a descriptor that holds it belongs to a process with a thread at work.  *)
NoFlockLeak == flocked # NoProc => owner[flocked] # NoThread

(* acquire() always returns, having entered or having raised LockTimeout,  *)
(* even when the holder never leaves.                                      *)
AcquireReturns ==
    \A t \in Threads : pc[t] = "rlock" ~> pc[t] = "idle"

(* The abstract lock this implements.                                      *)
HolderNow ==
    IF \E t \in Threads : Inside(t)
    THEN CHOOSE t \in Threads : Inside(t) ELSE NoThread

LevelNow == IF HolderNow = NoThread THEN 0 ELSE depth[ProcOf[HolderNow]]

Abstract == INSTANCE ReentrantMutex WITH holder <- HolderNow, level <- LevelNow

(* Entering, leaving and dying move the lock as the abstract mutex allows; *)
(* every other step of acquire() and release() is invisible.               *)
ImplementsMutex == Abstract!MutexSpec
=============================================================================
