--------------------------- MODULE CommitScheduler --------------------------
(***************************************************************************)
(* From a confirmed write to a commit (azt_collabd/scheduler.py): every    *)
(* write asks for a commit of its project; calls within the debounce       *)
(* window share one job and restart its timer; a timer that fires runs the *)
(* commit on a thread of its own, under the project lock; the job's result *)
(* is what the client polls for.  The watcher thread retries failed        *)
(* commits.  The job table is mirrored to jobs.json and reconciled when    *)
(* the daemon starts; projects.json is loaded, changed and saved whole by  *)
(* any thread, without a lock.  A push from another device asks for a      *)
(* reset of the working tree, which may have to wait in a queue and is     *)
(* then absorbed by the next commit.                                       *)
(*                                                                         *)
(* A call stands for one write, the request handler that lands it and      *)
(* calls commit_project, the job and the timer this may create.            *)
(***************************************************************************)
EXTENDS Naturals, FiniteSets

CONSTANTS
    Langs,        \* the projects
    Calls,        \* bound: the writes, each with its commit_project call
    LangOf,       \* the project of a call
    MaxJobs,      \* _MAX_JOBS
    Env,          \* what may happen: "crash", "commitfails", "busy",
                  \* "refused", "reset"
    Watcher,      \* the watcher thread, as a worker
    Other,        \* any other holder of a project's lock (merge, push, ...)
    None

ASSUME CallAssumption ==
    /\ LangOf \in [Calls -> Langs]
    /\ Watcher \notin Calls /\ Other \notin Calls \cup {Watcher}
    /\ None \notin Langs \cup Calls \cup {Watcher, Other}
ASSUME BoundAssumption == MaxJobs \in Nat \ {0}

Workers == Calls \cup {Watcher}

VARIABLES
    handler,      \* [Calls -> ...] the request that makes the call
    told,         \* [Calls -> ...] the job id commit_project returned to it
    pendingJob,   \* [Langs -> ...] _pending_jobs
    lastTimer,    \* [Langs -> ...] _pending_timers
    jobs,         \* [Calls -> Job] the Job objects
    known,        \* the job ids in _jobs, and in jobs.json
    at,           \* [Workers -> ...] where a timer's thread, or the watcher, is
    runs,         \* [Workers -> ...] the job _fire has popped
    code,         \* [Workers -> Codes] the result of the run
    retrying,     \* the project the watcher has taken up
    staged,       \* [Langs -> SUBSET Calls] the writes in the index that HEAD
                  \* does not have
    copy,         \* [Workers -> ...] projects.json as a worker has loaded it
    file,         \* projects.json: [Langs -> Entry]
    holder,       \* [Langs -> ...] who holds the project lock
    committed,    \* the writes that are in the history of their project
    queued,       \* the projects in pending_resets.json
    overwritten   \* writes that a hard reset took off the disk, in no commit

jobVars == <<told, pendingJob, lastTimer, jobs, known>>
workVars == <<at, runs, code, retrying, copy>>
treeVars == <<staged, committed, queued, overwritten>>
diskVars == <<file, holder, staged, committed, queued, overwritten>>
vars == <<handler, told, pendingJob, lastTimer, jobs, known,
          at, runs, code, retrying, copy, file, holder,
          staged, committed, queued, overwritten>>

Codes == {"none", "COMMITTED_LOCAL", "NOTHING_TO_COMMIT", "COMMIT_FAILED",
          "BUSY", "CONTRIBUTOR_UNSET", "JOB_INTERRUPTED"}
Success == {"COMMITTED_LOCAL", "NOTHING_TO_COMMIT"}

JobRecords == [state : {"none", "PENDING", "RUNNING", "DONE"}, code : Codes]
Entries == [failed : BOOLEAN, pending_push : BOOLEAN]

(* A timer's life: armed, or cancelled; due once it is past the wait; then *)
(* _fire step by step. The watcher is "idle" between its retries.          *)
Places == {"none", "armed", "cancelled", "due", "idle", "start", "run", "commit",
           "count", "counted", "stamp", "stamped", "finish", "flag", "flagged", "over"}

TypeOK ==
    /\ handler \in [Calls -> {"new", "landed", "returned", "refused", "died"}]
    /\ told \in [Calls -> Calls \cup {None}]
    /\ pendingJob \in [Langs -> Calls \cup {None}]
    /\ lastTimer \in [Langs -> Calls \cup {None}]
    /\ jobs \in [Calls -> JobRecords]
    /\ known \in SUBSET Calls
    /\ at \in [Workers -> Places]
    /\ runs \in [Workers -> Calls \cup {None}]
    /\ code \in [Workers -> Codes]
    /\ retrying \in Langs \cup {None}
    /\ staged \in [Langs -> SUBSET Calls]
    /\ copy \in [Workers -> [Langs -> Entries]]
    /\ file \in [Langs -> Entries]
    /\ holder \in [Langs -> Workers \cup {Other, None}]
    /\ committed \in SUBSET Calls
    /\ queued \in SUBSET Langs
    /\ overwritten \in SUBSET Calls

NoEntries == [l \in Langs |-> [failed |-> FALSE, pending_push |-> FALSE]]

Idle(w) == IF w = Watcher THEN "idle" ELSE "none"

Init ==
    /\ handler = [n \in Calls |-> "new"]
    /\ told = [n \in Calls |-> None]
    /\ pendingJob = [l \in Langs |-> None]
    /\ lastTimer = [l \in Langs |-> None]
    /\ jobs = [n \in Calls |-> [state |-> "none", code |-> "none"]]
    /\ known = {}
    /\ at = [w \in Workers |-> Idle(w)]
    /\ runs = [w \in Workers |-> None]
    /\ code = [w \in Workers |-> "none"]
    /\ retrying = None
    /\ staged = [l \in Langs |-> {}]
    /\ copy = [w \in Workers |-> NoEntries]
    /\ file = NoEntries
    /\ holder = [l \in Langs |-> None]
    /\ committed = {}
    /\ queued = {} /\ overwritten = {}

(* The writes of a project that are on disk and not in its history.        *)
Written(l) == {n \in Calls : LangOf[n] = l /\ handler[n] \notin {"new", "refused"}}
Uncommitted(l) == Written(l) \ (committed \cup overwritten)

ProjectOf(w) == IF w = Watcher THEN retrying ELSE LangOf[w]

Goto(w, place) == at' = [at EXCEPT ![w] = place]

-----------------------------------------------------------------------------
(* atomic_finalize: the write lands under the project lock, then the       *)
(* handler calls commit_project.                                           *)

Land(n) ==
    /\ handler[n] = "new" /\ holder[LangOf[n]] = None
    /\ handler' = [handler EXCEPT ![n] = "landed"]
    /\ UNCHANGED <<jobVars, workVars, diskVars>>

(* LockTimeout: the client is told, nothing is written.                    *)
LandTimeout(n) ==
    /\ handler[n] = "new" /\ holder[LangOf[n]] # None /\ "busy" \in Env
    /\ handler' = [handler EXCEPT ![n] = "refused"]
    /\ UNCHANGED <<jobVars, workVars, diskVars>>

(* _store_job: past _MAX_JOBS the oldest entry goes, whatever its state.   *)
Prune(ids, new) ==
    IF Cardinality(ids \cup {new}) <= MaxJobs THEN {ids \cup {new}}
    ELSE {(ids \cup {new}) \ {old} : old \in ids}

(* Timer.cancel() has no effect on a timer that is past its wait.          *)
Cancelled(w) == IF w # None /\ at[w] = "armed" THEN "cancelled" ELSE at[w]

(* commit_project, under _lock. With debounce_ms 0 the thread starts at    *)
(* once and is not entered in _pending_timers.                             *)
CommitProject(n, debounce) == LET l == LangOf[n]  old == lastTimer[l] IN
    /\ handler[n] = "landed"
    /\ handler' = [handler EXCEPT ![n] = "returned"]
    /\ lastTimer' = [lastTimer EXCEPT ![l] = IF debounce THEN n ELSE None]
    /\ at' = [w \in Workers |-> IF w = n THEN IF debounce THEN "armed" ELSE "due"
                                ELSE IF w = old THEN Cancelled(w) ELSE at[w]]
    /\ \/ /\ pendingJob[l] # None
          /\ told' = [told EXCEPT ![n] = pendingJob[l]]
          /\ UNCHANGED <<pendingJob, jobs, known>>
       \/ /\ pendingJob[l] = None
          /\ told' = [told EXCEPT ![n] = n]
          /\ pendingJob' = [pendingJob EXCEPT ![l] = n]
          /\ jobs' = [jobs EXCEPT ![n].state = "PENDING"]
          /\ known' \in Prune(known, n)
    /\ UNCHANGED <<runs, code, retrying, copy, diskVars>>

-----------------------------------------------------------------------------
(* _fire, on the timer's thread                                            *)

Expire(n) ==
    /\ at[n] = "armed"
    /\ Goto(n, "due")
    /\ UNCHANGED <<handler, jobVars, runs, code, retrying, copy, diskVars>>

(* A variant with a fault: the job stays in _pending_jobs.                 *)
JobNotPopped(l) == pendingJob[l]

(* The job _fire leaves in _pending_jobs for the next one.                 *)
Popped(l) == None

(* Under _lock: whatever timer and job the project has are popped.         *)
Fire(n) == LET l == LangOf[n]  job == pendingJob[l] IN
    /\ at[n] = "due"
    /\ lastTimer' = [lastTimer EXCEPT ![l] = None]
    /\ pendingJob' = [pendingJob EXCEPT ![l] = Popped(l)]
    /\ runs' = [runs EXCEPT ![n] = job]
    /\ Goto(n, IF job = None THEN "over" ELSE "start")
    /\ UNCHANGED <<handler, told, jobs, known, code, retrying, copy, diskVars>>

Start(n) ==
    /\ n \in Calls /\ at[n] = "start"
    /\ jobs' = [jobs EXCEPT ![runs[n]].state = "RUNNING"]
    /\ Goto(n, "run")
    /\ UNCHANGED <<handler, told, pendingJob, lastTimer, known,
                   runs, code, retrying, copy, diskVars>>

(* What is left of a worker's result when it leaves the commit step: the   *)
(* watcher only logs it.                                                   *)
Result(w, c) == [code EXCEPT ![w] = IF w = Watcher THEN "none" ELSE c]

(* A run that makes no commit ends with its code.                          *)
EndsWith(w, c) ==
    /\ code' = Result(w, c)
    /\ Goto(w, IF w = Watcher THEN "idle" ELSE "finish")
    /\ UNCHANGED <<handler, jobVars, runs, retrying, copy, diskVars>>

(* No contributor name is set: the watcher looks before it takes a project.*)
ContributorUnset(n) ==
    /\ n \in Calls /\ at[n] = "run" /\ "refused" \in Env
    /\ EndsWith(n, "CONTRIBUTOR_UNSET")

(* commit_repo waits for the project lock in vain.                         *)
CommitBusy(w) ==
    /\ at[w] = "run" /\ holder[ProjectOf(w)] # None /\ "busy" \in Env
    /\ EndsWith(w, "BUSY")

(* A hard reset takes writes off the disk; a new file it may leave there.  *)
HardReset(gone, writes) ==
    /\ gone \subseteq writes
    /\ overwritten' = overwritten \cup gone

(* commit_repo takes the lock, makes up for a queued reset by a hard reset *)
(* to HEAD, whatever has been written by then, and stages everything. When *)
(* the reset raises, the entry stays and the commit goes on.               *)
BeginCommit(w) == LET l == ProjectOf(w) IN
    /\ at[w] = "run" /\ holder[l] = None
    /\ holder' = [holder EXCEPT ![l] = w]
    /\ \E gone \in SUBSET Uncommitted(l) :
          /\ HardReset(gone, IF l \in queued THEN Uncommitted(l) ELSE {})
          /\ staged' = [staged EXCEPT ![l] = Uncommitted(l) \ gone]
    /\ queued' \in {queued, queued \ {l}}
    /\ Goto(w, "commit")
    /\ UNCHANGED <<handler, jobVars, runs, code, retrying, copy, file, committed>>

(* What may come of the commit.                                            *)
Outcomes(w) ==
    IF staged[ProjectOf(w)] = {} THEN {"NOTHING_TO_COMMIT"}
    ELSE {"COMMITTED_LOCAL"} \cup IF "commitfails" \in Env THEN {"COMMIT_FAILED"} ELSE {}

(* A commit that fails leaves the index staged.                            *)
MakeCommit(w, c) == LET l == ProjectOf(w) IN
    /\ at[w] = "commit" /\ c \in Outcomes(w)
    /\ \/ /\ c \in Success
          /\ committed' = committed \cup staged[l]
          /\ staged' = [staged EXCEPT ![l] = {}]
       \/ c \notin Success /\ UNCHANGED <<committed, staged>>
    /\ code' = [code EXCEPT ![w] = c]
    /\ Goto(w, "count")
    /\ UNCHANGED <<handler, jobVars, runs, retrying, copy, file, holder, queued, overwritten>>

(* Every change of projects.json loads the file ...                        *)
LoadsTo == [count |-> "counted", stamp |-> "stamped", flag |-> "flagged"]

LoadFile(w) ==
    /\ at[w] \in DOMAIN LoadsTo
    /\ copy' = [copy EXCEPT ![w] = file]
    /\ Goto(w, LoadsTo[at[w]])
    /\ UNCHANGED <<handler, jobVars, runs, code, retrying, diskVars>>

(* ... and later saves all of it.                                          *)
SaveFile(w, entries, next) ==
    /\ file' = entries
    /\ copy' = [copy EXCEPT ![w] = NoEntries]
    /\ Goto(w, next)

(* The count of successive failures is raised or cleared, and not saved    *)
(* when there is nothing to clear; then commit_repo lets the lock go.      *)
CountFailures(w) == LET l == ProjectOf(w)  failed == code[w] \notin Success IN
    /\ at[w] = "counted"
    /\ SaveFile(w, IF failed \/ copy[w][l].failed
                   THEN [copy[w] EXCEPT ![l].failed = failed] ELSE file,
                IF w = Watcher THEN IF code[w] = "COMMITTED_LOCAL" THEN "flag" ELSE "idle"
                ELSE IF code[w] = "COMMITTED_LOCAL" THEN "stamp" ELSE "finish")
    /\ holder' = [holder EXCEPT ![l] = None]
    /\ code' = Result(w, code[w])
    /\ UNCHANGED <<handler, jobVars, runs, retrying, treeVars>>

(* after_committed_local: set_last_commit, then the LAN fan-out.           *)
StampCommit(w) ==
    /\ at[w] = "stamped"
    /\ SaveFile(w, copy[w], "finish")
    /\ UNCHANGED <<handler, jobVars, runs, code, retrying, holder, treeVars>>

Finish(n) ==
    /\ n \in Calls /\ at[n] = "finish"
    /\ jobs' = [jobs EXCEPT ![runs[n]] = [state |-> "DONE", code |-> code[n]]]
    /\ runs' = [runs EXCEPT ![n] = None]
    /\ code' = [code EXCEPT ![n] = "none"]
    /\ Goto(n, IF code[n] = "COMMITTED_LOCAL" THEN "flag" ELSE "over")
    /\ UNCHANGED <<handler, told, pendingJob, lastTimer, known, retrying, copy, diskVars>>

SetPendingPush(w) ==
    /\ at[w] = "flagged"
    /\ SaveFile(w, [copy[w] EXCEPT ![ProjectOf(w)].pending_push = TRUE],
                IF w = Watcher THEN "idle" ELSE "over")
    /\ UNCHANGED <<handler, jobVars, runs, code, retrying, holder, treeVars>>

-----------------------------------------------------------------------------
(* _drain_stuck_commits, on the watcher's tick, once the backoff is over.  *)
Stuck(l) == file[l].failed

RetryStuckCommit(l) ==
    /\ at[Watcher] = "idle" /\ Stuck(l)
    /\ retrying' = l
    /\ Goto(Watcher, "run")
    /\ UNCHANGED <<handler, jobVars, runs, code, copy, diskVars>>

(* A merge, a push, a clone, ... works on the project.                     *)
OtherTakes(l) ==
    /\ holder[l] = None /\ "busy" \in Env
    /\ holder' = [holder EXCEPT ![l] = Other]
    /\ UNCHANGED <<handler, jobVars, workVars, file, treeVars>>

OtherLeaves(l) ==
    /\ holder[l] = Other
    /\ holder' = [holder EXCEPT ![l] = None]
    /\ UNCHANGED <<handler, jobVars, workVars, file, treeVars>>

-----------------------------------------------------------------------------
(* The reset of the working tree after a push from another device          *)

(* The lock is busy: the reset goes to the queue.                          *)
QueueReset(l) ==
    /\ "reset" \in Env /\ holder[l] # None
    /\ queued' = queued \cup {l}
    /\ UNCHANGED <<handler, jobVars, workVars, file, holder, staged, committed, overwritten>>

(* It gets the lock, at once or from the queue. Where a write is unstaged  *)
(* HEAD is merged into the working tree and nothing is lost (ProjectTree); *)
(* else a hard reset, which takes what a failed commit has staged.         *)
ResetAfterReceive(l) ==
    /\ "reset" \in Env /\ holder[l] = None
    /\ Uncommitted(l) \subseteq staged[l]
    /\ \E gone \in SUBSET staged[l] : HardReset(gone, staged[l])
    /\ staged' = [staged EXCEPT ![l] = {}]
    /\ queued' = queued \ {l}
    /\ UNCHANGED <<handler, jobVars, workVars, file, holder, committed>>

-----------------------------------------------------------------------------
(* The daemon is killed and started again: reconcile_on_startup closes the *)
(* jobs jobs.json shows unfinished, and drops old finished ones.           *)
RunningOnly == {"RUNNING"}
Unfinished == {"PENDING", "RUNNING"}

Crash ==
    /\ "crash" \in Env
    /\ handler' = [n \in Calls |-> IF handler[n] = "landed" THEN "died" ELSE handler[n]]
    /\ pendingJob' = [l \in Langs |-> None] /\ lastTimer' = [l \in Langs |-> None]
    /\ jobs' = [j \in Calls |->
                  IF j \in known /\ jobs[j].state \in Unfinished
                  THEN [state |-> "DONE", code |-> "JOB_INTERRUPTED"] ELSE jobs[j]]
    /\ known' \in {known, {j \in known : jobs[j].state # "DONE"}}
    /\ at' = [w \in Workers |-> IF at[w] = Idle(w) THEN Idle(w)
                                ELSE IF w = Watcher THEN "idle" ELSE "over"]
    /\ runs' = [w \in Workers |-> None]
    /\ code' = [w \in Workers |-> "none"]
    /\ retrying' = None
    /\ copy' = [w \in Workers |-> NoEntries]
    /\ holder' = [l \in Langs |-> None]
    /\ UNCHANGED <<told, file, treeVars>>

Request(n) == Land(n) \/ LandTimeout(n) \/ \E debounce \in BOOLEAN : CommitProject(n, debounce)

Work(w) ==
    \/ ContributorUnset(w) \/ CommitBusy(w) \/ BeginCommit(w)
    \/ \E c \in Codes : MakeCommit(w, c)
    \/ LoadFile(w) \/ CountFailures(w) \/ StampCommit(w) \/ SetPendingPush(w)

Timer(n) == Expire(n) \/ Fire(n) \/ Start(n) \/ Finish(n)

Next ==
    \/ \E n \in Calls : Request(n) \/ Timer(n)
    \/ \E w \in Workers : Work(w)
    \/ \E l \in Langs : \/ RetryStuckCommit(l) \/ OtherTakes(l) \/ OtherLeaves(l)
                        \/ QueueReset(l) \/ ResetAfterReceive(l)
    \/ Crash

Spec == Init /\ [][Next]_vars

(* Threads run, waits for the lock end, other holders leave it in the end, *)
(* and a commit that is tried again and again does not always fail.        *)
Fairness ==
    /\ \A n \in Calls :
          WF_vars(\E debounce \in BOOLEAN : CommitProject(n, debounce)) /\ WF_vars(Timer(n))
    /\ \A w \in Workers : WF_vars(Work(w)) /\ SF_vars(BeginCommit(w))
                          /\ SF_vars(MakeCommit(w, "COMMITTED_LOCAL"))
    /\ \A l \in Langs : WF_vars(RetryStuckCommit(l)) /\ WF_vars(OtherLeaves(l))

FairSpec == Spec /\ Fairness

-----------------------------------------------------------------------------
(* A client that polls the job it was told of and reads a success has its  *)
(* write in the history, though the job may have been created by an        *)
(* earlier call and run by a third call's timer: a job is not handed out   *)
(* any more once a run of it may have staged. The exception is a write     *)
(* that a hard reset has taken off the disk; see SuccessIsCommitted.       *)
JobSpeaksForCaller ==
    \A n \in Calls : told[n] # None =>
        (jobs[told[n]].state = "DONE" /\ jobs[told[n]].code \in Success
            => n \in committed \cup overwritten)

(* No job a client may poll for is forgotten: an unfinished one waits with *)
(* a live timer, or one thread is at work on it. Cancelling, re-arming and *)
(* firing keep this in any interleaving, and so does a restart.            *)
Waiting(j) ==
    /\ pendingJob[LangOf[j]] = j
    /\ \E n \in Calls : LangOf[n] = LangOf[j] /\ at[n] \in {"armed", "due"}

AtWork(j) ==
    \E n \in Calls : /\ runs[n] = j /\ at[n] \notin {"over", "flag", "flagged"}
                     /\ \A m \in Calls \ {n} : runs[m] # j

JobIsCarried ==
    \A j \in known : jobs[j].state \in {"PENDING", "RUNNING"} => Waiting(j) \/ AtWork(j)

(* The scheduler keeps what commit_project promises, whatever timers come  *)
(* too late, calls share a job, runs fail, and whenever the daemon dies: a *)
(* job is not run twice, nobody joins one that runs, no result is taken    *)
(* back, and no commit; and no reset takes what is committed.              *)
Promise == INSTANCE CommitPromise
    WITH Results <- Codes \ {"none", "JOB_INTERRUPTED"}, Lost <- "JOB_INTERRUPTED", NoJob <- None
KeepsPromise == Promise!PromiseSpec

(* README.md:462, of NOTHING_TO_COMMIT: "working tree was clean"; and 461, *)
(* of COMMITTED_LOCAL: "local-only commit landed". A queued reset that a   *)
(* commit absorbs takes writes confirmed since, and the commit succeeds.   *)
SuccessIsCommitted ==
    \A n \in Calls : told[n] # None =>
        (jobs[told[n]].state = "DONE" /\ jobs[told[n]].code \in Success => n \in committed)

(* server.py:6084, of the commit a finalize asks for: "so the just-        *)
(* finalized bytes always get absorbed into a git commit". A run that      *)
(* meets a busy lock is not made again: BUSY is no counted failure.        *)
FinalizedIsCommitted ==
    \A n \in Calls : handler[n] = "landed" ~> n \in committed

(* scheduler.py:1228, of the retries of a failed commit: "we settle at one *)
(* retry per hour - enough to catch a self-healing condition". The count   *)
(* the retries go by is lost when another thread saves projects.json as it *)
(* was before.                                                             *)
FailureIsRetried ==
    \A n \in Calls : at[n] = "finish" /\ code[n] = "COMMIT_FAILED" ~> n \in committed
=============================================================================
