# A formal model of azt-collab's synchronisation core

azt-collab keeps linguistic field projects (LIFT lexicons, audio recordings,
images) in git on phones and laptops and synchronises them between devices on
one network and with a git host, without asking the user anything about git.
A daemon (`azt_collabd`) owns the repositories; recorder and desktop
applications are its clients (`azt_collab_client`). What the users rely on can
be said in one sentence: **what the daemon has confirmed is never lost, whoever
else pushes, merges, commits or dies at the same time, and it gets into the
history in the end.** This directory holds TLA+ modules of the parts of the
daemon that must make this true, the TLC runs that check them, and TLAPS proofs
of the invariants they rest on. Names follow the source; every definition is
tied to the lines it models in `PROJECT.json` ("map").

Contents: 1 the system, 2 the modules and their correspondence to the code,
3 the runs and their bounds, 4 fairness, 5 the proofs, 6 disagreements found,
7 what is left out, 8 the plan.

## 1. The system

| part | state | operations | how it interacts |
|---|---|---|---|
| project lock (`locks.py`) | per process an RLock, a recursion depth, a descriptor with a flock, the `_held` table | `acquire`, `release`, `held_locks` | every operation on a project takes it; only the ref update of an incoming push does not |
| working tree, commit, receive (`repo.py`, `lan_listener.py`, `server.py`) | branch, index, files, `.azt_atomic_pending/`, `pending_resets.json` | `commit_repo`, `_reset_working_tree_after_receive`, `drain_pending_resets`, `atomic_open_write`, `atomic_finalize`, `submit_file` | WSGI threads of the LAN listener, request handlers, timer threads and the watcher all work on one tree |
| outgoing LAN push and merge (`lan_push.py`) | the peer's head as fetched, `last_covered_local` | `fan_out`, `sweep_peer`, `_push_to_peer`, `_merge_then_push` | started by a commit or by the watcher; merges under the project lock; meets receive-pack at the other device |
| commit scheduler (`scheduler.py`, `projects.py`) | `_pending_jobs`, `_pending_timers`, `_jobs`/`jobs.json`, `projects.json` | `commit_project`, `_fire`, `_drain_stuck_commits`, `reconcile_on_startup` | called by every write; calls `commit_repo`; polled by clients |
| WAN push and its backoff (`scheduler.py`, `wan_backoff.py`, `repo.py`) | `wan_state.json`, `_wan_inflight`, `pending_push`; of a push the mirrors of the host's branches only | `_drain_pending_push`, `_run_to_completion`, `push_repo`, `_push_step_locked`, `_push_chunked_to_ref` | the watcher's tick, a user's Sync; other devices push to the same host |
| recovery of orphaned writes (`atomic_recovery.py`) | scratch files older than `_MIN_AGE_S`, the stash | merge, delete or put aside an orphan | the watcher's tick; beside finalize, sync, commit and pushes |
| LIFT merge (`lift_merge.py`, `merge_commit.py`) | none; its marks stay in the file | three-way merge per entry, conflicts, repairs, guards | `_merge_diverged`, integration, submit, orphan recovery |
| pairing, peers and shares (`peers.py`, `pending_decisions.py`, ...) | `peers.json`, tombstones, pending decisions | invite, scan, accept, decline, hello, offer, manifest, unshare, unpair | two devices, each with tables of its own, and calls that may be lost |
| discovery, bursts, clone (`lan_discovery.py`, `lan_burst.py`, `lan_backoff.py`, `lan_clone.py`) | endpoints seen, burst reference count | mDNS, burst, clone | the fan-out; a clone ends in a share |
| key-value files and slots (`project_kv.py`) | `.azt/kv`, `.azt/slots` in the tree | claim, set, release | merged by their own rules |
| Android services, HTTP server, client library, settings, watchdog, images | see `PROJECT.json` | | |

What is hard in this system is not any one of these parts but their overlap:

* **Interleaving.** The ref of a branch moves on an incoming push at any moment,
  also while a commit or a merge that has read it is still at work. The working
  tree follows later, under the lock, if the lock can be had within 5 s, and if
  no user write is in the way.
* **Ordering.** A debounce timer that is cancelled too late runs nevertheless and
  takes the job of a newer call.
* **Requests that are lost.** A push arrives and its answer does not; a hello that heals a pairing
  crosses an unpairing; a chunk to the host is cut off on either side of its effect.
* **Repetition.** Merges are merged again. What one merge leaves in the file, marks of conflicts
  above all, is input to the next.
* **Partial failure.** A commit fails after it has staged everything; a merge's
  preparatory commit fails; a lock wait ends.
* **Crash and restart.** Android kills the daemon at any instruction. The flock
  goes with the process, the files stay, the jobs of the dead process must be
  closed.
* **Stale state.** `projects.json` and `wan_state.json` are read, changed and saved
  whole by many threads; a queued reset is applied long after it was queued.
* **Liveness.** A confirmed write must get into the history although the lock is
  busy, the commit fails, or the process dies.

`PROJECT.json` lists these under "hazards", each at the line where it bites, with
the properties that would catch it or the reason why none does yet. Per part,
correctness means:

* lock: mutual exclusion over threads and processes, no lock left behind, bounded
  waits, a truthful holder table;
* tree: history only grows; confirmed bytes are on disk, staged or in the history;
  a commit records what is on disk, and one that succeeds leaves no local edit on disk out;
* scheduler: a job is joined before it runs, runs once and has one result; its success speaks for every
  call that was given the job; no job is forgotten; a failure is retried;
* WAN: one push per project at a time, no claim left behind, every commit gets to the
  host once there is a network;
* one push: PUSHED means the host's main has it, the mirror never runs ahead of the host, nothing
  committed here is taken back, and a history larger than a request gets through;
* recovery and whole-file writes: a whole write is never thrown away, a file is never taken from
  under its writer, a submit merges with what it has not seen, no scratch file stays for ever;
* fan-out: pushes only move forward, no device loses its own edits, nothing merged is merged again, all
  come to the same edits;
* LIFT merge: what either side said is kept or marked, deletes hold, whoever merges gets the same
  elements, and merging equal files changes nothing;
* pairing: nobody is paired without both users or shared with without a choice, who was removed
  stays out, and what was agreed and half lost heals.

## 2. The modules

    ReentrantMutex            what project_lock promises
          ^ implements
    ProjectLock               locks.py, step by step            ProjectLock_proof
    TreeOps                   pure functions of trees
          ^ extends
    ProjectTree               branch, index, tree, queue        ProjectTree_proof
    FileWrites                whole-file writes, recovery       LiftFile_proof
    CommitPromise             what commit_project promises
          ^ implements
    CommitScheduler           calls, timers, jobs, retries      CommitScheduler_proof
    WanDrain                  which pushes to the host, when    WanDrain_proof
    EditSharing               what sharing promises
          ^ implement
    LanFanOut                 pushes among devices              LanFanOut_proof
    WanPush                   one push to the host              WanPush_proof
    PeerSharing               pairing and shares                PeerSharing_proof
    LiftMerge                 the merge of two LIFT files       LiftFile_proof
    MC...                     an instance of each for TLC

The lock is modelled once in full detail and shown to implement the abstract
mutex. The other modules use that result: the lock is one variable that somebody
holds or nobody does (`job` in ProjectTree, `holder` in CommitScheduler, `held` in
WanPush, the locked places of LanFanOut, `at` and `sync` in FileWrites), and "another thread
cannot get in" is a guard; in WanDrain what is done under it is one step. In the same way
CommitScheduler uses of a commit what ProjectTree shows of it; WanDrain takes as one step, `Push`, what
WanPush takes apart; LanFanOut relies on ProjectTree for the working tree, and keeps of LiftMerge
whose version a merge puts first; ProjectTree and FileWrites use of the LIFT merge that both sides'
additions are kept, the content of LiftMerge's `NothingIsLost`.

**ReentrantMutex** (`project_lock`'s promise). `holder`, `level`; entering, leaving,
dying.

**ProjectLock** (`locks.py:39-193`). Threads belong to processes. `owner`/`entries` is the
RLock, `depth` is `_depth`, `flocked` the process whose descriptor has the flock,
`held` the holder table. `pc` gives each thread its place inside `acquire` or
`release`, one action for each step another thread or process can observe:
`TakeRLock`, `RLockTimeout`, `TakeFlock`, `FlockFails` (busy to the deadline, or
an exception from `open`/`flock`; both release the RLock), `CountEntry`,
`RecordHolder`; `CountExit`, `ForgetHolder`, `DropFlock`, `DropRLock`.
`ProcessDies` empties the process's memory and drops its flock.

**TreeOps** (`repo.py`, dulwich). A tree is the set of edits it shows; an edit belongs
to one file; a file is the set of edits to it. `HardReset`, `Unstaged`,
`MergeIntoTree` (`_merge_diverged`), `Integrate`
(`integrate_head_into_working_tree`) and `Reapply`
(`reapply_snapshot_after_merge`) keep the code's case distinctions per path: one
side unchanged, one side absent, a LIFT file merged entry by entry, any other
file ours.

**ProjectTree** (`lan_listener.py`, `lan_push.py`, `repo.py`, `server.py`). One project
on one device.

| action | code |
|---|---|
| `Receive` | receive-pack behind `_post_receive_pack_middleware`: compare-and-set of the ref, no lock |
| `GuardYoungToken`, `ResetUnderLock`, `ResetTimeout` | the three parts of `_reset_working_tree_after_receive`: the unlocked look at the pending files, the part under the lock, `LockTimeout` |
| `DrainPendingResets` | the watcher takes up a queued project |
| `OpenWrite`, `TokenAges`, `AtomicFinalize`, `WriteFails` | two-phase writes |
| `BeginCommit`, `StageAll`, `ReadParent`, `SwapHead`, `CommitFails` | `_commit_repo_locked` with the reset it absorbs, and `_commit_step_locked`; the commit itself reads HEAD and swaps it later |
| `FetchPeer`, `BeginMerge`, `Compare`, `FastForward`, `ForwardReset`, `MergeWrite`, `MergePoint`, `ReapplySnapshot`, `DropFetched` | `_merge_then_push` and `_merge_then_push_locked`: fetch without the lock; lock, snapshot and commit step; the ancestry and equal-tree exits; fast-forward by compare-and-set; merge; reapply |
| `Crash` | death and restart of the daemon |

`job` is the thread inside the lock and how far it is, so that an incoming push or
a crash can come between any two of its steps. A commit is its tree, its first
parent's tree, and `hist`, every edit that it or an ancestor brought; ancestry is
inclusion of histories.

**CommitPromise** (`commit_project`'s promise). `told`, `jobs`, `committed`: a call opens a job or joins one that has
not begun; a job runs, and reports success only when the writes of all who were told of it are committed, but for those a reset of the
working tree has taken (`overwritten`); a reset takes nothing that is committed; a restart
gives up what was not finished. No timers, threads, locks or files.

**CommitScheduler** (`scheduler.py`, `projects.py`, `server.py`). A call stands for one
write, the request that lands it, its `commit_project` call, and the job and timer
the call may create: `Land`/`LandTimeout`, `CommitProject`, then the timer's thread:
`Expire`, `Fire`, `Start`, the commit (`ContributorUnset`, `CommitBusy`, `BeginCommit`,
`MakeCommit`), the load and the save of `projects.json` as separate steps three times
over (`CountFailures`, `StampCommit`, `SetPendingPush`), `Finish`. The watcher is one more
worker (`RetryStuckCommit`); `OtherTakes`/`OtherLeaves` is whoever else holds the lock.
`Cancelled` models `Timer.cancel()`: without effect on a timer whose wait is over.
A push from another device resets the working tree: at once or from the queue when nothing unstaged is in the way
(`ResetAfterReceive`; where something is, HEAD is integrated, which loses nothing and is no step here), or, when the lock is busy, the project goes to
`queued` (`QueueReset`) and `BeginCommit` makes up for the reset before it stages, whatever has been written by then. Such a reset takes any
of the writes it may take (`HardReset`: of a new file git does not know it leaves the file); they are in `overwritten` from then on.

**WanDrain** (`scheduler.py`, `wan_backoff.py`, `push_repo`, `_h_project_sync`). What happens
to a commit after CommitScheduler has made it. `head` and `origin` count the commits of a
project and those the host has; `flagged` is `pending_push` in `projects.json`, `wan` the file
`wan_state.json`, `inflight` is `_wan_inflight`. A thread is a record: where it is, what it was
started for, what is left of its loop, and the copy of a file it has loaded and not yet saved.

| action | code |
|---|---|
| `Commit` | a commit and, later, its flag (`after_committed_local`) |
| `Tick`, `OnlineEdge`, `GoOffline` | `_watcher_loop`: a drain thread per tick, the nudge when the network comes |
| `Nudge` | `drain_pushes_now`, of one project or of all |
| `Sync` | `_h_project_sync`: a push without a claim |
| `Load`, `SaveWan`, `SaveRaises`, `SaveFlags` | the unlocked changes of the two files, each a load and a save; a save may have no effect, and before its `try` it may raise |
| `Gather`, `SkipNotDue`, `Take`, `LoopOver`, `Claim`, `Settle` | `_drain_pending_push`: candidates and the sweep, the backoff, the claim, its release |
| `Push` | `push_repo` or `sync_repo` and what it returns, between `mark_push_started` and `mark_push_finished` |
| `Iterate`, `Yield`, `Incomplete`, `Release` | `_run_to_completion`: iterations, offline or deadline, the count of visits and its cap |
| `WaitPasses`, `Crash` | `next_attempt_at` is reached; death and restart with `note_interrupted_on_startup` |

**WanPush** (`repo.py:5359-9816`). `main`, `topic`, `sides` and `seeds` are the host's branches,
`branch`, `objects` and `disk` the project's, `mirror` and `topicMirror` the `refs/remotes/origin` of both;
`at` is where the push is, `held` whether it has the project lock. A commit is the set of edits in its
history: ancestry is inclusion, a merge a union. A request carries `Capacity` edits that the host does not have.

| action | code |
|---|---|
| `StartPush`, `EnterUpload`, `PushChunk`, `ChunkCutOff`, `ChunkDiverged`, `EndUpload` | `push_repo`, `_phase_a_unlocked`, `_push_chunked_to_ref`: phase A, first without the lock and once more with it |
| `BankSide`, `Preseed`, `Sweep` | a merge's parent lines to side branches, single blobs to a seed branch, their removal |
| `TakeLock`, `LockBusy`, `Fetch`, `FetchFails`, `ReadRefs` | the lock after the upload; ls-remote, fetch, the janitor |
| `FastForward`, `NoMerge`, `Merge`, `MergeFails`, `Route` | phase B: main against the branch; direct push or topic branch |
| `Review`, `SetBranch`, `Promote`, `PromoteRefused`, `PromoteFails`, `Delete` | phase C: a second look at main, the branch set to the merge, the push of it, retries |
| `DirectPush`, `DirectCutOff`, `DirectReconcile`, `DirectFails` | the chunks straight to main, and the reconciliation when main has moved |
| `Commit`, `Receive`, `OtherPushes`, `Crash` | everybody else |

**EditSharing, LanFanOut** (`lan_push.py:368-1852`, `repo.py:4756-4833`). EditSharing is the promise: a place where
the project is kept gets only edits that were made and keeps its own. Both ways of sharing implement it: LanFanOut with the
devices as places, WanPush with the branch and the host's main as places, where the host's own are the edits other devices
push there. In LanFanOut every ordered pair of devices may have a push
under way: `Begin`, `Peek`, `PeekFails`, `Advertise`, `Land`/`AnswerLost`, `Verify`/`VerifyFails`,
`Fetch`, then under the lock of the pushing device `TakeLock` or `CommitFails`, `Compare`, `Forward`, `Merge`, `Reapply`, and the delivery of
the merge; `Abandon` for every early return. What a push takes for the peer's
head and what it sends are variables of the push (`peer`, `sent`), since other devices push meanwhile.

A head is its edits, its merges and an order of the edits that clash. Two edits clash (`Clashes`) when the outcome of merging them depends on which
side is ours: two added entries (ours come first), two changes of one element (the labels `ours` and `theirs`; the attributes are ours), of one
file that is not LIFT (ours is kept). Edits and order make the tree, so `SameContent` is the comparison of trees (`lan_push.py:1726`), and a merge is
its parents and its tree: `_deterministic_merge_commit` fixes author, times and the order of parents. When the commit before a merge fails,
`snapshot` has the edits that are on disk only; the ancestry and equal-tree exits are then not taken (`if not snapshot:`, `lan_push.py:1571`), and
`Reapply` puts the edits back on top of the merge and commits them, or fails again.

**PeerSharing** (`peers.py`, `pending_decisions.py`, handlers of `lan_listener.py` and `server.py`, `hello_to_peer`,
`sweep_peer`, `lan_clone.py`). Each device has a table of the others (`peers`, `entry`), tombstones, and open
decisions; `net` is the set of calls and answers under way, each of which may arrive at any time or be lost.

| actions | code |
|---|---|
| `Invite`, `AcceptInvite`, `DeclineInvite`, `ShowCode`, `HideCode`, `Scan` | the two ways to pair |
| `Share`, `AcceptOffer`, `DeclineOffer`, `Unshare`, `Unpair`, `EntersTomb`, `TombFails` | the handlers of a user's gestures; an unpairing removes the entry first and writes the tombstone afterwards, which may fail |
| `CloneDone`, `CloneFails`, `Obtain`, `RetryAffirmed` | a clone under way, and offers taken up when the peer is back |
| `Heal`, `Reoffer`, `Refresh`, `Push` | the parts of `sweep_peer` that repair |
| `RequestArrives`, `HelloArrives`, `HelloRecorded`, `AnswerArrives`, `OfferDropped`, `OfferArrives`, `ShareTakenBack`, `Lost` | the other end; a hello is vetted against the tombstones first and recorded later |
| `Restart` | the daemon dies at any moment, also between the removal of an entry and its tombstone |

A code may be that of the device alone or of the project, and `Scan` may use a copy of it; the hello gets the project granted
only while the code is on show. The module starts with any set of devices that share the project already (`Settled`), and `Elsewhere` says who shares
other projects with whom, since the sweep asks for a list again only when the whole list is empty. `agreed`, `chosen` and `unpaired` are history
variables: whom the users have ever agreed to pair or chosen to share with, and whom they have taken out since the pair was last recorded.

**FileWrites** (`atomic_recovery.py`, `lift_io.py`, `server.py:5995-6083`, `submit_file`, `set_audio`). One LIFT file
and everyone who writes it as a whole. An Android write goes through `OpenWrite`, `WriteEnds` or `AppDies`, `Finalize`,
`FinalizeLands` or `FinalizeFails`; `Ages` is the minute that makes what is left an orphan. The recovery
lists (`Scan`), takes the lock (`ScanTakesLock`), and of each orphan does one of `Discard`, `WriteMerged` and
`Unlink` with `CommitRecovery` between, `StashUnmergeable`, `LowMemory`. The desktop editor asks for
HEAD, loads, edits and submits (`AskHead` ... `SubmitCommits`), or writes directly when it is refused. `SyncTakesLock`,
`Receive`, `Follow`, `SurgicalEdit`, `Commit` and `Crash` come in between.

**LiftMerge** (`lift_merge.py`). An element is its tag, the attribute that keys it among its siblings, its other
attributes and text as pairs, and its children in order. The merge is the code's: pairing (`PairSameKey`), the recursive
merge with its escalation where only one element may be (`MergedPair`, `WalkChildren`, `Multi`), the repairs
(`Normalized`, `Settled`: identical copies, glosses, audio by recency, verification codes, marks),
the entry's mark (`EntryInBoth`, `Reconcile`), deletes (`OneSided`, `EntryOneSided`), the guards against
truncated and catastrophic input, and the fast paths of `_merge_diverged` (`Merge`). A state is the file of
two devices and of their merge base; `EditFile` and `Tear` change a file, `Meet` is a merge both take
over, `Cross` one that both make at once. So a merge meets what earlier merges left.
A function that recurses over the elements is a constant beside its definition: `Clean(e)` and `Cleaned(e)`, which calls `Clean` on the
children; so with `MergePair`, `Normalize`, `Changes`, `Nodes`, `HasMark` and `Unordered`. The configuration gives each constant its
definition (`Clean <- Cleaned`), and TLC evaluates the recursion; the theorems suppose the equation and no more, and need no
`RECURSIVE`, of which TLAPS can prove nothing. For the same reason sequences are put together without recursion (`Flat`, `At`).

## 3. The runs

| run | instance | states | shows |
|---|---|---|---|
| `project_lock` | 2 processes, 3 threads, nesting 2 | 300 | mutual exclusion, no leak, truthful table, bounded waits, refinement of ReentrantMutex |
| `tree` | one local LIFT edit, two remote edits (one in the LIFT file, one a recording), one receiving thread and the watcher | 973 000 | history is kept, a commit is what is on disk, unstaged confirmed edits survive, a commit that succeeds leaves no local edit out |
| `scheduler` | three writes to one project, a job table of two, all of crash, failure, busy, refusal, resets | 2 496 000 | a job speaks for its callers, and is carried; refinement of CommitPromise |
| `wan_drain` | one project, one commit, one thread for the watcher's drains and the commits, one for a user's; threshold, visits and iterations of one; a restart | 361 000 | one push at a time, no claim left behind, the commit gets to the host |
| `wan_push` | one own edit, one of a peer, two of other devices; one edit a request, two promotes | 456 000 | PUSHED and the mirrors tell the truth, refinement of EditSharing, the commit gets through |
| `lan_fan_out` | two devices, two edits that clash and one that does not | 1 122 000 | pushes go forward, merges unite edits that differ and are the same on both devices, convergence |
| `lan_pending` | two devices with an edit each, two failures of the commit before a merge | 311 000 | refinement of EditSharing |
| `peer_sharing` | two devices, strangers or sharing already, the code of the project on show or not, two gestures | 173 000 | consent, choices, who was removed stays out, healing |
| `file_writes` | Android: two writes; desktop: one edit; a surgical edit or a push | 463 000 | whole writes land, writers are left alone, submits merge, orphans go |
| `lift_merge` | two devices, two entries, three edits | 53 000 | what was said is kept or marked, deletes hold, sides agree, merges settle |
| `tree_blind_merge`, `lan_merge_sides` | the smallest instance that shows each | | section 6 |

Why the bounds are enough for the interesting cases:

* Lock: two threads in one process race for the RLock, a third in another process for
  the flock; nesting two deep is the first that tells the outermost exit from the
  others. Two processes are what the deployment has: a dying and a respawned daemon.
* Tree: the local edit and one remote edit share the LIFT file, so they are merged
  entry by entry; the other remote edit is a file of its own, which a push adds or a
  stale tree deletes. Two remote edits allow a push of one commit, of several, and
  of a merge, or two pushes one after the other. A second receiving thread adds no step
  the first and the watcher together do not have. Two larger instances passed once: two local edits of one file or of two,
  with two remote edits (9.8 and 11.8 million states).
* Scheduler: three calls are what it takes for the hardest case, an old timer that takes a
  second call's job and pops a third call's timer. `MaxJobs = 2` makes the table
  overflow with three jobs. With three calls a reset can take one write, be absorbed beside another, and leave a third. Calls to one project are interchangeable; the run has no
  liveness property, so the symmetry is sound. Two projects are needed only for the
  shared `projects.json`, see `FailureIsRetried` in section 6.
* WAN drain: the claims, the flags and the entries of the backoff are per project, so that the races
  are among threads of one project; two threads at a time make all pairs of drain and drain, drain
  and Sync, drain and the commit's flag. A thread that ends may start as another, so that long
  sequences of drains are covered. Threshold, cap of visits and iterations of one reach escalation after one
  interruption and its end after one visit; with a cap of two visits and with a file that at times cannot be
  read the same properties hold, in runs too long to keep. One crash leaves marks, copies of files and claims
  at every step of a drain behind.
* WAN push: with a capacity of one and two foreign edits every history but the shortest must go in chunks, a merge
  is larger than a request (side branches), and main can move between the fetch and the promote as
  often as there are promotes, once more than there is patience for.
* Fan-out: three edits are the first number at which a device merges a merge of the other while it has an edit of
  its own to add. Two of them clash, both of one device, so that the orders of clashing edits in any
  two heads agree (`Apart`); where edits of two devices clash merging need not end, which `lan_merge_sides` shows at
  its root, and the state space is not finite. `MergesUnite` says what stops the merging, not how often it may happen: no
  number of merges bounds it in general (two devices with four edits can make five of them).
* Fan-out with failures (`lan_pending`): each failed commit allows one merge of what is already merged, so failures are bounded; two let
  each device make one such merge, or one device two. The commit after the merge may fail besides.
* Pairing: the gestures come on top of either strangers or devices that have paired and shared, with the code of the project shown or not, so that
  two of them reach a pairing, a share and its undoing, or an undoing and its repetition; calls in flight are unbounded but for one of a
  kind. With three gestures the run does not end within its time.
* Whole-file writes: two scratch files are what it takes for one to be merged into a snapshot that the other has
  changed; both may carry edits the other has not.
* LIFT merge: one entry has a form, a recording, a sense with an attribute, a part of speech and a gloss, and a field of
  verification codes, the other a form; each may be changed to two values (so that both sides change it
  differently), removed, or have another added beside it. Three edits let both sides change the same place, merge, and one of
  them change the outcome before the next merge. The properties are invariants and action properties, so the
  symmetry of the devices is sound. The thresholds of the guards are the code's (50 entries), so
  that of the guards only the one for an emptied file is reached.

The system may go quiet: all edits are made, all calls returned, nobody asks for
anything any more. That is why the cfgs turn the deadlock check off, except those of ProjectLock and
FileWrites, where somebody can always act.

Every property has a mutant in `PROJECT.json`, an operator beside the definition it
replaces, introduced as "a variant with a fault": the flock taken whoever has it, the
ref written without a compare, a file replaced without the lock, a restart that closes running jobs only,
a temporary ref not moved to the chunk, main overwritten by the promote, the other side's edits put first by a merge, grants of what is not here, orphans taken at any age,
deletes that always win, elements paired by position. TLC finds the property violated with each.
The type invariants are proved only (section 5), after TLC had checked them once, and so are `LastCommitIsTaken` and
`BothSidesAreMerged` (ProjectTree, on the instance of `tree`) and `OwnWorkKept` (WanPush), which `ImplementsSharing` contains.

## 4. Fairness

* Lock: `acquire` and `release` run to their end once called (weak fairness of each
  thread's steps). Nothing is assumed of the critical section. It may last for ever;
  `AcquireReturns` holds by the timeouts alone.
* Tree: none. That a confirmed write is committed in the end is not claimed, since the code does not see to it: a commit that meets a busy
  lock is neither retried nor counted (`FinalizedIsCommitted`, section 6). What is shown is that the next commit that succeeds makes
  up for all that failed before it (`CommitSavesAll`).
* Scheduler (`FairSpec`, for `FinalizedIsCommitted` and `FailureIsRetried` only, which no run claims): handlers and timer threads run; other holders leave the lock in the end; a
  commit tried again and again does not fail for ever. These are the most favourable
  assumptions one can make, and the two liveness statements fail all the same. Nothing is
  assumed of `Land`, `Crash`, `OtherTakes` or the failures.

* WAN: drains, handlers and books run to their end; the watcher ticks again and again while
  there is a network, and its sweep comes again and again (strong fairness: a thread must be free
  and the network there); a wait ends. A push that is made again and again does not fail for ever, nor does
  the save of its mark, which would end the thread before each push. `CommittedIsPushed` is stated for
  a network that is there to stay from some time on (`<>[]online`), and nothing is assumed of commits, nudges, Sync
  requests, crashes or the other saves, which may fail every time: a flag that is lost is made up for by
  the sweep, a count that is lost by the next push.
* WAN push: the drain pushes again and again (WanDrain's liveness), so `Step`, whatever the push can do to go on, is weakly
  fair, and so is giving up where nothing else can be done. From some time on (`<>[][Well]`) nothing goes wrong
  that need not: the daemon is not killed, no answer lost, no step gives up that could go on. Up to then
  everything may fail. Other devices may beat the promote at any time; they have finitely many edits.
* Fan-out: for each pair of devices a push that can begin or go on does so (weak fairness of `Step`), and from some time on
  (`Calm`) no answer is lost and no push abandoned. The sweep on the watcher's tick is what the code has for this.
* Pairing: the sweep heals and refreshes every peer in the end, hellos and
  their answers arrive (weak fairness of each), and from some time on (`Well`) no call is lost. Nothing is assumed of the users, of tombstones, which may fail to be written each time, or of restarts; the liveness properties are about what they have agreed to and
  not taken back.
* Whole-file writes: holders of the lock let go, a scratch file gets older, the watcher scans again and again, and the recovery gets a
  free lock time and again (strong fairness: others take it in between). From some time on the daemon is not killed,
  memory is not short and the recovery is not turned away.

LiftMerge has no liveness property: a merge is a function.

## 5. The proofs

Eight proof modules extend the modules of a component (LiftFile_proof those of two, the writes of a LIFT file and its merge); all obligations are proved for every
value of the constants, under the named assumptions of the modules:
`ThreadAssumption`, `NobodyAssumption`, `ConfigAssumption` (ProjectLock), `FileAssumption`
(TreeOps), `EditAssumption`, `ThreadAssumption` (ProjectTree), `CallAssumption`,
`BoundAssumption` (CommitScheduler), `BoundAssumption` (WanDrain), `EditAssumption`, `BoundAssumption` (WanPush: the
three kinds of edits are disjoint), `OwnAssumption`, `ClashAssumption`, `BoundAssumption` (LanFanOut: no edit is made on two
devices, clashing is symmetric), `SharingAssumption` (PeerSharing), `ContentAssumption` (FileWrites). TLC evaluates each
on the instances above.

* `ProjectLock_proof`: `TypeCorrect`, `Exclusion`, `TruthfulHolder`, `FlockNotLeaked` and
  `Refinement`. The invariant ties a thread's place to what it must hold there: a thread
  past `TakeRLock` owns its process's RLock, the entries counted by the RLock are the
  depth plus the entry under way, a counted entry has the flock where flock exists.
  Mutual exclusion by itself is not inductive: it says nothing of a thread between the RLock and the
  count. `Refinement` needs `HasFlock`; without `fcntl` (Windows) two processes are not excluded from each
  other, and the code does not claim it.
* `ProjectTree_proof`: `TypeCorrect`, `LocalWorkKept`, `CommitsAreOnDisk`, `PushesKept`, `UnsavedWorkSurvives`,
  `LastCommitTaken`, `BothSidesMerged`, `MergeIsSymmetric`, `CommitsSaveAll`. The
  invariant says what each step of the lock's holder may rely on. `SawLocal`: a HEAD read under the
  lock has, until HEAD is written, every local edit that the present HEAD has, since while the lock is held local
  edits enter the history only by its holder. `PeerHasFork` and `ForwardIsAhead`: the peer's head contains
  what we had in common, and one that is fast-forwarded to contains ours. A second
  invariant, `StagedIsOnDisk`, says that the index is the working tree from staging to the swap and from the
  merge's write to its commit; `CommitsAreOnDisk` follows from it. `UnsavedWorkSurvives` is about every
  function that writes the working tree, so it rests on lemmas about each of them (`HardResetKeeps`, `IntegrateKeeps`, ...: what
  is no commit's stays), and on a third invariant, `TreesInHistory`: each tree the branch, a commit's first parent, a merge or a fetched peer shows
  is within the history of its commit. Without it a reset could take a client's unsaved edit for a committed one that
  HEAD has since removed. The exceptions are in the property: the client itself writes the file over without the edit, and the absorbed reset
  (`AbsorbIsSafe`, section 6). Staged edits are not claimed, since `FailedCommitKeepsWrites` fails.
  The other direction is `LastCommitTaken` and `BothSidesMerged`, from lemmas that say what each tree function takes
  over: the additions of the branch's latest commit, and in a merge those of the peer, to a LIFT file.
  `CommitsSaveAll` ties ProjectTree to CommitScheduler, whose `MakeCommit` takes it for granted: when `commit_repo` has committed, or found nothing
  to commit, every local edit that is on disk by then is in the history. It follows from `StagedIsOnDisk` and `TreesInHistory`.
* `CommitScheduler_proof`: `TypeCorrect`, `JobsSpeak`, `JobsCarried`, `PromiseKept`. The invariant relates five
  pieces of state: a job still in `_pending_jobs` is PENDING, and its project has a
  timer that is armed or due; a job popped is in the hands of one thread; the writes of
  all calls given a job have landed when the job is taken, so they are
  in what the run stages, in the history, or taken off the disk by a reset (`CallersAreIn`); what is staged is on disk and in no commit
  (`StagedIsThere`); staged sets are held under the lock.
  `JobsSpeak` is the reason why debouncing is safe: since `_fire` pops the job under `_lock`
  before it stages, no call can be given a job after its staging. It does not say that a success is a commit with the write: a reset the
  commit absorbs may have taken the write (`SuccessIsCommitted`, section 6). `PromiseKept` is the refinement of CommitPromise, for
  any number of calls and projects; it needs besides that a thread finds the job it has popped not begun and from then on begun (`RunsInOrder`),
  and that a run that is over has a code (`ResultIsKnown`).
* `WanDrain_proof`: `TypeCorrect`, `OnePushAtATime`, `ClaimsAreHeld`. Neither claim property is inductive. The
  invariant has both, and that a drain between claim and release has its project in `_wan_inflight` (`HolderIsIn`): so
  a new claim, made only for a project that is not in it, meets no holder, and a release takes away what its
  thread alone holds. `PlaceOK` says what a thread's place tells of it: only drains claim,
  only escalated visits go through the places of `_run_to_completion`, and after a push a drain
  goes on as its visit does. Every action but those of time, network and death is then one of three kinds:
  claiming, releasing, or keeping (`ClaimsKept`).
* `WanPush_proof`: `TypeCorrect`, `PushedIsOnHostHolds`, `MirrorNotAheadHolds`, `TopicIsOursHolds`, `OwnWorkIsKept`,
  `Implements`, `EditsAreWithOwners`. The
  invariant (`Bounds`) says at which places of a push what holds: what was read as `local` is still in the branch, and all of our own
  in the branch was read; the topic branch and its mirror hold nothing that the branch or `local` lacks; `wanted` is in what the
  later places send. None of the three safety properties is inductive without them, for a push may enter
  the locked part by five ways. The refinement of EditSharing needs that what the project has of others' edits is on main, and what
  main or any commit has of ours is on the branch (`Known`); edits of the network's peers are left out of its view, for a receive during the
  promote may take them off the branch (section 6).
* `LanFanOut_proof`: `TypeCorrect`, `PushesMoveForward`, `Implements`, `EditsAreWithOwners`, `MergesUniteEdits`, `SameInputsSameMerge`. `SendForward` and `ForwardForward`: what a push sends descends from
  what the peer was seen at; `OneLocked`: one push of a device is in the locked part; `OwnInLocal`: a merge under way
  has every edit of its own device, since commits wait for the lock; `SnapshotOwn`: so are the edits that are put back; `AllKnown`: nobody has an edit nobody made.
  `PushesMoveForward` excepts what the property excepts: a device that writes its own merge may take off what came in after the merge had read the branch.
  The refinement maps `view` to the edits of the heads, for any number of devices. The last two assume `Apart`, which
  section 6 shows to be needed: no edits of two devices clash. Their invariant (`OrderInvariance`) says of every
  commit that a device has or a push holds that it has the first of each device's clashing edits, in the order in which the device made them (`OrderOf`), and of every merge that
  its order is that of the edits its parents have (`Ordered`); so the tree of a merge depends on its parents alone. It needs that pending edits
  are on one device's disk only until they are put back (`PendingInv`).
* `PeerSharing_proof`: `TypeCorrect`, `PairsNeedConsentHolds`, `SharesNeedAChoiceHolds`, `RevokedStaysOutHolds`, `ConfirmedIsHeldHolds`. Consent is not inductive: one must say what the calls
  under way prove. `Asked`: an open request was sent by one who has agreed; `Met`: hellos pass only between devices whose users
  both have. For shares: `Wanted`, a clone under way and an affirmed offer were chosen; `Claimed`, a call that names the project is
  between devices one of whose users chose. `RevokedStaysOutHolds` follows a tombstone through every action: a peer that is out and of
  which no vetted hello is waiting (`Quiet`) stays out until a user acts, whatever arrives late. `ConfirmedIsHeldHolds` is about `pair_confirmed`, which
  turns the healing off: where it is set, the other device has the pair in its table or its user has taken it out. It rests on `Known`:
  a hello or a reply under way, and a tombstone, come from a device that holds the pair or whose user has taken it out.
* `LiftFile_proof`, of FileWrites: `TypeCorrect`, `WholeWritesLandAlways`, `WritingIsLeftAloneAlways`, `SubmitMergesAlways`. `InHand`: the scratch files the
  recovery has in hand, and old ones, are of writes begun and no longer being written; `Recorded`: the file has landed
  edits only, and an orphan that was merged has landed before it is unlinked; `Locked`: a submit under way has the lock, and what it merged is in the file.
  `SubmitMergesAlways` speaks of what HEAD had gained since the editor's base; uncommitted content of the file is overwritten by a submit.
* `LiftFile_proof`, of LiftMerge: `MergesShow`, `OursStays`, `TheirsStays`, `EntriesStay`, `DeletesTake`, `DeletedEntriesGo`, for elements of any
  height, over any tags, keys and pairs. Three hypotheses, named in each theorem that needs them. `Alphabet`: the tags and keys have those of an
  annotation, and the guid of a copy is not the key of one (the code appends `-theirs` to a guid). `Inputs`: the first file and what an edit adds
  have no unmarked forms of one language, and an edit sets pairs. `Recursion`: each recursive function is its definition on the elements; there are such functions, since each calls
  itself on children only. MCLiftMerge's values satisfy the first two, and its configuration is the third.
  * Induction over the elements is by a set: `Trees` is the union of `Level[n]`, and a set that has an element whenever it has its children
    has all (`TreeInduction`). So what recursion makes of an element is proved without a theorem that takes an operator: the merge of elements is elements
    (`MergePairIs`), `_normalize_entry` makes of any element a good one (`NormalizeIs`), an edit keeps it good (`ChangesIs`).
  * `MergesShow`: `ConflictsShow` is not inductive, as it says nothing of the merge base and does not go below what `Nodes` reaches.
    The invariant (`FilesGood`): the files and the base consist of good elements: of two forms of one key each has an annotation, here and in all
    children. It holds because all that a merge writes was normalised; a merge of two entries alone does not keep it.
  * `OursStays`, `TheirsStays`, `EntriesStay`: nothing that one side has added or changed falls out of the pairing. Pairing is complete: every child of each
    side is in a pair of its key (`PairSameKeyIs`, `ChildPairsIs`), and what is made of a pair is in the merge (`PairKept`).
  * `DeletesTake`, `DeletedEntriesGo`: the other direction: the merge has nothing but what is made of a pair (`PairsOnly`), and where neither side has anything
    new of a key, no two that differ are paired (`AgreedPairs`), since equal contents are taken out first and nothing is left to be paired by position.
    Children are compared without annotations; entries with them, which is why `EntryDeletesHold` fails (section 6).

Each inductive invariant was run through TLC before it was proved, and so were the statements about single merges, on all states of `lift_merge`.
Every invariant of the runs is a theorem, and every action property but four of LiftMerge. Only model-checked:

* the liveness properties (`AcquireReturns`, `CommittedIsPushed`, `CommittedGetsThrough`, `Converges`, `PairingHeals`,
  `SharingHeals`, `OrphansGo`), since fairness is out of the prover's reach;
* `NothingIsLost` and `SidesAgree`, which do not hold for all values of the constants: from 50 entries on a guard may keep one side whole, the larger, or ours if they
  are as large (`_looks_truncated`). What does hold, guards excepted, is in `OursStays`, `TheirsStays` and `EntriesStay`, a level at a time;
* `DeletesHold` and `MergesSettle`, which are about all paths of a file at once and count elements. `DeletesTake` and `DeletedEntriesGo` are the step of the first at one level.

## 6. Where the code and its comments differ

Two runs expect a violation, each of one statement of a comment. "findings" in `PROJECT.json` quotes them.

| run | statement | what happens |
|---|---|---|
| `tree_blind_merge` | after receive-pack the changes "are now canonically HEAD" (`lan_listener.py:3128`) | the merge commit writes HEAD without a compare, over a push that came in meanwhile |
| `lan_merge_sides` | "same inputs, same tree, by design" (`repo.py:4760`) | each device is "ours" to itself, and of two edits that clash its own comes first (entries added on both sides, say); the two merges of the same heads are two commits. `MergesUnite` fails then too |

The modules define more statements of this kind, which TLC refutes on the same instances when they are named in a
cfg; no run is kept for them.

| definition | statement | what happens |
|---|---|---|
| `AbsorbIsSafe` (ProjectTree) | the reset a commit absorbs is "the same ... the lan listener would have" run | it does not look for unstaged changes: a write confirmed since the reset was queued is overwritten |
| `FailedCommitKeepsWrites` (ProjectTree) | after failed commits "your recordings are still on the device" | what a failed commit staged is no unstaged change; the reset after the next push overwrites it, and so does the one after a fast-forward (`lan_push.py:1688`) |
| `IntegrateTakesHead` (ProjectTree) | integration "preserves both sides' changes" | the base is HEAD's first parent, not the HEAD the tree was at; after a push of several commits a file of HEAD is passed over |
| `SkippedResetIsHarmless` (ProjectTree) | "worst case: n_changes stays inflated" (`lan_listener.py:3168`) | a reset skipped for a pending write is not queued, and the next commit deletes what was pushed from the tree |
| `SuccessIsCommitted` (CommitScheduler) | `NOTHING_TO_COMMIT`: "working tree was clean", `COMMITTED_LOCAL`: "local-only commit landed" (the repository's `README.md:461`) | the commit absorbs a queued reset (`repo.py:4488`), which takes a write confirmed since off the disk; the call whose write it was reads a success |
| `FinalizedIsCommitted` (CommitScheduler) | a finalized write "always get[s] absorbed into a git commit" | the job ends with BUSY and nothing retries it; the same after a restart |
| `FailureIsRetried` (CommitScheduler) | a failing commit is retried at least hourly | another project's thread saves `projects.json` over the failure count the retry goes by |
| `PulledIsOnDisk` (WanPush) | "Bumping the ref alone leaves on-disk files at the old bytes" (`repo.py:8873`), of the other fast-forward | when main has moved past the merge, phase B moves the branch (`repo.py:9061`), returns PULLED and applies no tree; the next commit stages the old files |
| `CoveredIsThere` (LanFanOut) | "a verified observation" (`lan_push.py:849`) | when the look at the peer after a push fails, the push is taken to have landed and recorded so (`lan_push.py:812`) |
| `DeclineSticks` (PeerSharing) | "Make the decline STICK" (`server.py:1843`) | `record_pair` builds the entry anew without the refused shares (`peers.py:437`); found with three gestures |
| `AffirmedSticks` (PeerSharing) | an accepted clone "auto-completes the next time this peer is genuinely discovered" (`server.py:1820`) | an offer that comes again replaces the stashed one and its mark (`pending_decisions.py:114`) |
| `GestureClearsTomb` (PeerSharing) | a tombstone is "Cleared by a fresh local pairing gesture" (`peers.py:404`) | an invitation and a code on show leave it (`server.py:1494`, `:903`), and the hello of the other, who accepts, is refused: only a pair recorded at this end clears it |
| `UnshareClears` (PeerSharing) | `share_unshared` "clears both fields" (`peers.py:803`) | the handler changes its own grant only (`lan_listener.py:1871`); `their_shared_projects` and `shares_confirmed` go on naming the project, and nothing asks again |
| `RecoveryKeepsFile` (FileWrites) | the lock is held "for the duration of any merge+commit" (`atomic_recovery.py:211`) | the LIFT file is read before the lock (`:271`); what is written in between is overwritten |
| `SubmitKeepsHead` (FileWrites) | what landed since the base is "never clobbered" (`server.py:4747`) | a push between submit's look at HEAD and the commit's becomes the parent of a tree without it |
| `EntryDeletesHold` (LiftMerge) | `_canon_clean` is "the version of `_canon` to use for conflict detection" (`lift_merge.py:261`) | entries missing on one side are compared with `_canon` (`:1650`): an entry that differs by a left-over mark only comes back when the other side deletes it |
| `EntriesShow` (LiftMerge, four edits) | the entry's mark lets peers "detect 'this entry needs attention'" (`lift_merge.py:1707`) | the next merge that finds the entry equal on both sides, or changes another part of it, drops its mark while the forms inside stay marked |

Not a property of its own, but an exception in `NothingIsLost`, `DeletesHold` and `SidesAgree` (`Dropped`, `Unordered`): where both sides have changed an element with
children, the merge takes all its attributes from ours (`lift_merge.py:461`). A sense's `order` or an illustration's `href` changed by
theirs is gone without a conflict, though "expressing the conflict at the narrowest ... level" (`lift_merge.py:12`) is what the module
promises, and `lift_merge.py:1670` has it that entries that differ in their attributes come out as two. Without the
exception TLC finds it in three steps; `three_way_merge` itself, called on such files, does the same, as it does for the two rows above
and for the order of added entries.

The passing properties are stated around these where needed, and say so:
`ReceivedHistoryKept` excepts the merge's write of HEAD, `UnstagedSurvives` the absorbed reset and what a
commit has staged, `WholeWritesLand` a finalize that fails, `SubmitMerges` the push in between, `JobSpeaksForCaller` and
`KeepsPromise` the writes a reset took, `PairingHeals` a pair that the other side has taken back, `SharingHeals` a list that is not empty, `MergesUnite` a merge around
a commit that failed; and `MergesUnite` and `SameInputsSameTree` hold while no edits of two devices clash (so in `lan_fan_out` and in the theorems).

## 7. What is left out

Abstractions of what is modelled:

* ProjectTree: two edits of one field are not told apart from independent edits (LiftMerge does); the rules of `.azt/slots` and
  `.azt/kv` are not in `TreeOps`. A reset or a merge writes all of its files in one step: a crash or an exception between two
  files is not modelled; nor is a HEAD detached from its branch, the ladder for missing
  objects, and the backoff after hard reset failures (`lan_listener.py:2524-2610`). One pending write at a time. A peer whose
  head is fetched left our common history at our head or at the root.
* Scheduler: which writes a reset takes is left open (ProjectTree has the rule per path), and that the reset's other guards, a young pending write and an integration, lose nothing is taken from
  there; which job is the oldest when the table overflows is left open (any goes);
  saving `jobs.json` always succeeds (the code ignores a failure); of an entry of `projects.json`
  only the failure count's being positive and `pending_push` are kept; time is left out, so the
  retry backoff is "later".
* WanDrain: a project without credentials, with a missing directory or with `work_offline` on is not pushed by
  design, and there is none in the model. Of the curve
  of `wan_backoff` there is that an entry waits and that the wait ends; `interrupted_count` counts up to
  the threshold, the cap of visits is in full. `wan_state.json` can always be read. The re-probe of access
  errors, which only ends waits, is not modelled.
* WanPush: one push at a time (a Sync request beside a drain's upload would share its temporary ref,
  `repo.py:8375`); the size of a chunk is left open, every prefix that fits may be chosen; an edit is the unit of size; the
  consolidation of seed branches and the choice of their names are left out.
* LanFanOut: whether two edits clash is a constant, and their clash always shows in the tree. A header that differs counts as a clash of files; the marks
  of a conflict that a later merge takes off again are not told apart from their absence. Of pending edits there is one at a time. Endpoints, the memory of
  unreachable ones and the pacing of repeated merges are left out.
* PeerSharing: one project; a device has one hello at a time under way to a peer; of the lists of other projects only whether they are empty is known, and they do
  not change. Two ends stay apart for good, in the code as in the model: a confirmed pair whose other end has been taken out, and a share
  that one end has taken back while the other's list still names it (the rows of section 6). Endpoints, certificates, admin rights, the pruning of shares of projects that are gone, and two
  `remote_url`s of one project are left out. A list of shares that two requests change at once (`peers.py:612`) needs two projects.
* FileWrites: a scratch file is of age only when its writer has done with it (`Ages`, `_MIN_AGE_S`): a writer that stalls for longer is not modelled. The project has a LIFT file; one without adopts the first old scratch file unread
  (`atomic_recovery.py:343`). Other files than the LIFT file are in ProjectTree.
* LiftMerge: the list of fields in an entry's mark, the order of verification codes and codes that do not parse,
  the header (ours is taken) and ranges, entries without a guid (dropped by the code), illustrations' and
  other files. Equal recency of two recordings goes by document order, which differs between the sides; the
  recency of the instance is an order. A recency that resolves nowhere is not in the instance.

Not modelled: OAuth, credentials, settings and status, the watchdog and crash marks, the CAWL
image cache, mDNS and the user interface: I/O and presentation, without shared state that
synchronisation depends on. `project_kv.py` reads, changes and writes one small file under the lock in one handler; its
merge rules are a maximum each. The client library polls and retries; its one write, of the whole file, is in FileWrites.
The user interface and the client are a third of the source, which is why the modules speak for a
small share of its lines.

Hazards beyond those `PROJECT.json` lists, for completeness: an unfinished job evicted from a full job table (`scheduler.py:213`); a finalize that
finds the lock busy removes the scratch file (`server.py:6076`); seeds of two devices under one branch name
(`repo.py:7191`); an unshare whose call is lost, so that a later manifest grants it back (`server.py:1160`); the reply
to a submit that is lost, after which the editor writes over the merge (`azt_collab_client/__init__.py:3157`).

## 8. Plan

Done: the lock and its refinement; the tree; the scheduler; the drain and the push to the host; the fan-out; the refinements of the mutex, of CommitPromise and, by fan-out and push, of EditSharing;
whole-file writes and their recovery; pairing and shares; the LIFT merge; the proofs of section 5.

Open, in this order:

1. `MergesSettle` for any files: the merge of two files of the same content has that content.
2. Two pushes of a project at once in WanPush (drain and Sync), with the shared temporary ref.
3. LanFanOut composed with LiftMerge in full: when does merging end although edits of two devices clash?
4. `ProjectKv`: slots claimed on two devices, merged by time. `IdleStop`: the Android service that stops when idle against
   requests that arrive.
