---------------------------- MODULE ProjectTree -----------------------------
(***************************************************************************)
(* One project on one device: the branch, the index and the working tree,  *)
(* and everything of azt_collabd that moves them.  Other devices push to   *)
(* the branch without the project lock (lan_listener.py); the handler then *)
(* resets the working tree under the lock, or leaves it to the queue of    *)
(* pending resets; the user's writes land under the lock (server.py,       *)
(* atomic_open_write and atomic_finalize); commits and the merges of the   *)
(* outgoing LAN push hold it through several steps (repo.py, lan_push.py). *)
(***************************************************************************)
EXTENDS TreeOps, FiniteSets

CONSTANTS
    Seed,         \* the tree of the commit every device starts from
    Local,        \* edits made on this device
    Peer,         \* edits made on other devices
    Handlers,     \* WSGI threads that serve a push
    Drain,        \* the scheduler's watcher thread
    Shapes,       \* what a push may hold: "one" commit, "many", a "merge"
    Env           \* what else may happen: "timeout", "crash", "commitfails",
                  \* "fetch"

ASSUME EditAssumption ==
    /\ Edits = Seed \cup Local \cup Peer
    /\ Local \cap (Seed \cup Peer) = {} /\ Seed \cap Peer = {}
ASSUME ThreadAssumption == Drain \notin Handlers

Threads == Handlers \cup {Drain}

VARIABLES
    head,         \* the branch tip: the commit HEAD names
    index,        \* .git/index, as a tree
    wt,           \* the working tree
    token,        \* the file under .azt_atomic_pending/, or NoToken
    acked,        \* local edits whose atomic_finalize answered OK
    queued,       \* the project is in pending_resets.json
    job,          \* the multi-step holder of the project lock, or NoJob
    fetched,      \* a peer's head that an outgoing push has fetched
    rx            \* where each thread is in the reset after a push

vars == <<head, index, wt, token, acked, queued, job, fetched, rx>>

(* A commit: its tree, the tree of its first parent, and every edit that   *)
(* it or an ancestor of it brought.                                        *)
Commits == [tree : Trees, first : Trees, hist : Trees]
NoCommit == [tree |-> {}, first |-> {}, hist |-> {}]

NoToken == [edit |-> {}, content |-> {}, young |-> FALSE]
Tokens == [edit : Trees, content : Trees, young : BOOLEAN]

(* at: the next step; after: what the commit step returns to; saw: the     *)
(* HEAD the step has read; snap, pre: the unstaged files the merge saved   *)
(* and the tree HEAD had then; peer: the fetched head, and its fork point. *)
Steps == {"none", "stage", "parent", "swap", "compare", "forward", "reset",
          "write", "point", "reapply"}
Jobs == [at : Steps, after : {"done", "compare"}, saw : Commits,
         snap : Trees, pre : Trees, peer : [tip : Commits, fork : Commits]]
NoPeer == [tip |-> NoCommit, fork |-> NoCommit]
NoJob == [at |-> "none", after |-> "done", saw |-> NoCommit,
          snap |-> {}, pre |-> {}, peer |-> NoPeer]

TypeOK ==
    /\ head \in Commits /\ index \in Trees /\ wt \in Trees
    /\ token \in Tokens /\ acked \in SUBSET Local /\ queued \in BOOLEAN
    /\ job \in Jobs /\ fetched \in [tip : Commits, fork : Commits]
    /\ rx \in [Threads -> {"idle", "guard", "wait"}]

Root == [tree |-> Seed, first |-> {}, hist |-> Seed]

Init ==
    /\ head = Root /\ index = Seed /\ wt = Seed
    /\ token = NoToken /\ acked = {} /\ queued = FALSE
    /\ job = NoJob /\ fetched = NoPeer
    /\ rx = [t \in Threads |-> "idle"]

LockFree == job = NoJob

-----------------------------------------------------------------------------
(* A push from another device, and the reset that follows it               *)

(* git-receive-pack moves the ref by compare-and-set on a fast-forward,    *)
(* outside the project lock.  The pushed tip has our head as an ancestor   *)
(* and brings the edits of S; its first parent depends on its shape.       *)
FirstParents(S) ==
    (IF "one" \in Shapes THEN {head.tree} ELSE {})
    \cup (IF "many" \in Shapes
          THEN {head.tree \cup E : E \in SUBSET S \ {{}, S}} ELSE {})
    \cup (IF "merge" \in Shapes THEN {head.tree, Seed \cup S} ELSE {})

Receive(h) ==
    /\ rx[h] = "idle"
    /\ \E S \in SUBSET (Peer \ head.hist) \ {{}} :
         \E first \in FirstParents(S) :
            head' = [tree |-> head.tree \cup S, first |-> first,
                     hist |-> head.hist \cup S]
    /\ rx' = [rx EXCEPT ![h] = "guard"]
    /\ UNCHANGED <<index, wt, token, acked, queued, job, fetched>>

(* drain_pending_resets, on the watcher's tick.                            *)
DrainPendingResets ==
    /\ queued /\ rx[Drain] = "idle"
    /\ rx' = [rx EXCEPT ![Drain] = "guard"]
    /\ UNCHANGED <<head, index, wt, token, acked, queued, job, fetched>>

(* _reset_working_tree_after_receive first looks, without the lock, for a  *)
(* pending write younger than _MIN_AGE_S; it then returns.                 *)
GuardYoungToken(t) ==
    /\ rx[t] = "guard"
    /\ rx' = [rx EXCEPT ![t] = IF token.young THEN "idle" ELSE "wait"]
    /\ UNCHANGED <<head, index, wt, token, acked, queued, job, fetched>>

(* A variant with a fault: the hard reset whatever is on disk.             *)
NeverIntegrate == FALSE

MustIntegrate == Unstaged(index, wt) # {}

(* The part under the lock: with unstaged modifications HEAD is merged     *)
(* into the working tree and the queue keeps its entry; else a hard reset. *)
ResetOrIntegrate ==
    \/ /\ MustIntegrate
       /\ wt' = Integrate(wt, head.first, head.tree)
       /\ UNCHANGED <<index, queued>>
    \/ /\ ~MustIntegrate
       /\ wt' = HardReset(index, wt, head.tree)
       /\ index' = head.tree
       /\ queued' = FALSE

ResetUnderLock(t) ==
    /\ rx[t] = "wait" /\ LockFree
    /\ ResetOrIntegrate
    /\ rx' = [rx EXCEPT ![t] = "idle"]
    /\ UNCHANGED <<head, token, acked, job, fetched>>

(* LockTimeout: _add_pending_reset.                                        *)
ResetTimeout(t) ==
    /\ rx[t] = "wait" /\ ~LockFree /\ "timeout" \in Env
    /\ queued' = TRUE
    /\ rx' = [rx EXCEPT ![t] = "idle"]
    /\ UNCHANGED <<head, index, wt, token, acked, job, fetched>>

-----------------------------------------------------------------------------
(* The user's writes, in two phases                                        *)

(* atomic_open_write: the client writes the file's next content, made from *)
(* what it reads now, through a raw descriptor and without the lock.       *)
OpenWrite(e) ==
    /\ token = NoToken /\ e \notin acked
    /\ token' = [edit |-> {e}, content |-> In(wt, FileOf[e]) \cup {e}, young |-> TRUE]
    /\ UNCHANGED <<head, index, wt, acked, queued, job, fetched, rx>>

(* The pending file passes _MIN_AGE_S.                                     *)
TokenAges ==
    /\ token.young
    /\ token' = [token EXCEPT !.young = FALSE]
    /\ UNCHANGED <<head, index, wt, acked, queued, job, fetched, rx>>

(* A variant with a fault: the file is replaced without the lock.          *)
FinalizeAnyTime == TRUE

CanFinalize == LockFree

(* atomic_finalize: os.replace onto the file, under the lock.              *)
AtomicFinalize(e) ==
    /\ token.edit = {e} /\ CanFinalize
    /\ wt' = (wt \ In(wt, FileOf[e])) \cup token.content
    /\ acked' = acked \cup {e}
    /\ token' = NoToken
    /\ UNCHANGED <<head, index, queued, job, fetched, rx>>

(* It raises, or atomic_abort: the pending file is gone, the caller knows. *)
WriteFails ==
    /\ token # NoToken
    /\ token' = NoToken
    /\ UNCHANGED <<head, index, wt, acked, queued, job, fetched, rx>>

-----------------------------------------------------------------------------
(* commit_repo, and the commit step it shares with the outgoing merge      *)

(* Take the lock; absorb a queued reset by a hard reset to HEAD.           *)
BeginCommit ==
    /\ LockFree
    /\ job' = [NoJob EXCEPT !.at = "stage"]
    /\ wt' = IF queued THEN HardReset(index, wt, head.tree) ELSE wt
    /\ index' = IF queued THEN head.tree ELSE index
    /\ queued' = FALSE
    /\ UNCHANGED <<head, token, acked, fetched, rx>>

(* Where the commit step goes when it has finished; ok: it did not fail.   *)
AfterCommitStep(ok) ==
    IF job.after = "done" THEN NoJob
    ELSE [job EXCEPT !.at = "compare", !.snap = IF ok THEN {} ELSE @]

(* A variant with a fault: only what this step has staged is committed.    *)
NewlyStaged(tree) == tree # index

HasStaged(tree) == tree # head.tree

(* _stage_all, then status: nothing to commit, or on to porcelain.commit.  *)
StageAll ==
    /\ job.at = "stage"
    /\ index' = wt
    /\ job' = IF HasStaged(wt) THEN [job EXCEPT !.at = "parent"]
              ELSE AfterCommitStep(TRUE)
    /\ UNCHANGED <<head, wt, token, acked, queued, fetched, rx>>

(* porcelain.commit reads HEAD for the parent ...                          *)
ReadParent ==
    /\ job.at = "parent"
    /\ job' = [job EXCEPT !.at = "swap", !.saw = head]
    /\ UNCHANGED <<head, index, wt, token, acked, queued, fetched, rx>>

(* A variant with a fault: the ref is written without a compare.           *)
BlindWrite == TRUE

HeadUnmoved == head = job.saw

(* ... and moves it by compare-and-set; a push in between fails the commit *)
(* (COMMIT_FAILED) and leaves the index staged.                            *)
SwapHead ==
    /\ job.at = "swap"
    /\ head' = IF HeadUnmoved
               THEN [tree |-> index, first |-> job.saw.tree,
                     hist |-> job.saw.hist \cup index]
               ELSE head
    /\ job' = AfterCommitStep(HeadUnmoved)
    /\ UNCHANGED <<index, wt, token, acked, queued, fetched, rx>>

(* Any other exception out of porcelain.commit.                            *)
CommitFails ==
    /\ job.at = "parent" /\ "commitfails" \in Env
    /\ job' = AfterCommitStep(FALSE)
    /\ UNCHANGED <<head, index, wt, token, acked, queued, fetched, rx>>

-----------------------------------------------------------------------------
(* _merge_then_push: the recovery of an outgoing push that was refused     *)

(* _fetch_peer_objects_unlocked: a peer that left the history we share at  *)
(* our head, or at the root, and has committed the edits of S since.       *)
FetchPeer ==
    /\ fetched = NoPeer /\ "fetch" \in Env
    /\ \E S \in SUBSET (Peer \ head.hist) \ {{}}, fork \in {head, Root} :
          fetched' = [tip |-> [tree |-> fork.tree \cup S, first |-> fork.tree,
                               hist |-> fork.hist \cup S],
                      fork |-> fork]
    /\ UNCHANGED <<head, index, wt, token, acked, queued, job, rx>>

(* The lock, the snapshot of the unstaged files and the commit step: a     *)
(* queued reset is not looked at.                                          *)
BeginMerge ==
    /\ LockFree /\ fetched # NoPeer
    /\ job' = [NoJob EXCEPT !.at = "stage", !.after = "compare", !.pre = head.tree,
                            !.peer = fetched,
                            !.snap = {e \in wt : FileOf[e] \in Unstaged(index, wt)}]
    /\ fetched' = NoPeer
    /\ UNCHANGED <<head, index, wt, token, acked, queued, rx>>

(* The lock is busy for 5 s, or the peer is gone: the next round fetches.  *)
DropFetched ==
    /\ fetched # NoPeer
    /\ fetched' = NoPeer
    /\ UNCHANGED <<head, index, wt, token, acked, queued, job, rx>>

(* The peer's tip is in our history; ours is in the peer's.                *)
PeerInLocal == job.peer.tip.hist \subseteq head.hist

(* A variant with a fault: any peer's head is taken for a descendant.      *)
AlwaysAncestor == TRUE

LocalInPeer == head = job.peer.fork

(* Nothing to change here: the heads are the same, or only the peer is     *)
(* behind, or the trees are the same.                                      *)
NothingToMerge ==
    \/ head = job.peer.tip
    \/ job.snap = {} /\ PeerInLocal
    \/ job.snap = {} /\ ~LocalInPeer /\ head.tree = job.peer.tip.tree

(* Otherwise a fast-forward, or a merge unless memory is short.            *)
Compare ==
    /\ job.at = "compare"
    /\ \/ NothingToMerge /\ job' = NoJob
       \/ /\ ~NothingToMerge /\ job.snap = {} /\ LocalInPeer
          /\ job' = [job EXCEPT !.at = "forward", !.saw = head]
       \/ /\ ~NothingToMerge /\ (job.snap # {} \/ ~LocalInPeer)
          /\ job' \in {NoJob, [job EXCEPT !.at = "write", !.saw = head]}
    /\ UNCHANGED <<head, index, wt, token, acked, queued, fetched, rx>>

(* The fast-forward is a compare-and-set; then the reset as after a push.  *)
FastForward ==
    /\ job.at = "forward"
    /\ head' = IF HeadUnmoved THEN job.peer.tip ELSE head
    /\ job' = IF HeadUnmoved THEN [job EXCEPT !.at = "reset"] ELSE NoJob
    /\ UNCHANGED <<index, wt, token, acked, queued, fetched, rx>>

ForwardReset ==
    /\ job.at = "reset"
    /\ IF token.young THEN UNCHANGED <<index, wt, queued>> ELSE ResetOrIntegrate
    /\ job' = NoJob
    /\ UNCHANGED <<head, token, acked, fetched, rx>>

(* The tree of the latest commit both histories have.                      *)
MergeBase == job.peer.fork.tree
    \cup ((job.peer.tip.hist \ job.peer.fork.hist) \cap job.saw.hist)

(* _merge_diverged writes the merged files, then stages everything.        *)
MergeWrite ==
    /\ job.at = "write"
    /\ wt' = MergeIntoTree(wt, MergeBase, job.saw.tree, job.peer.tip.tree)
    /\ index' = wt'
    /\ job' = [job EXCEPT !.at = "point"]
    /\ UNCHANGED <<head, token, acked, queued, fetched, rx>>

(* _deterministic_merge_commit writes HEAD without a compare; the parents  *)
(* are sorted by id, so either may be the first.                           *)
MergePoint ==
    /\ job.at = "point"
    /\ \E first \in {job.saw.tree, job.peer.tip.tree} :
          head' = [tree |-> index, first |-> first,
                   hist |-> job.saw.hist \cup job.peer.tip.hist \cup index]
    /\ job' = IF job.snap = {} THEN NoJob ELSE [job EXCEPT !.at = "reapply"]
    /\ UNCHANGED <<index, wt, token, acked, queued, fetched, rx>>

(* Files the commit step could not stage go back over the merged tree, and *)
(* a second commit step follows.                                           *)
ReapplySnapshot ==
    /\ job.at = "reapply"
    /\ wt' = Reapply(wt, job.pre, job.snap)
    /\ job' = [NoJob EXCEPT !.at = "stage"]
    /\ UNCHANGED <<head, index, token, acked, queued, fetched, rx>>

-----------------------------------------------------------------------------
(* The process is killed and started again: threads and the lock are gone, *)
(* files stay, and load_pending_resets_from_disk reloads the queue.        *)
Crash ==
    /\ "crash" \in Env
    /\ job' = NoJob /\ fetched' = NoPeer
    /\ rx' = [t \in Threads |-> "idle"]
    /\ UNCHANGED <<head, index, wt, token, acked, queued>>

CommitStep == StageAll \/ ReadParent \/ SwapHead \/ CommitFails

MergeStep == Compare \/ FastForward \/ ForwardReset \/ MergeWrite \/ MergePoint
             \/ ReapplySnapshot

ResetStep(t) == GuardYoungToken(t) \/ ResetUnderLock(t) \/ ResetTimeout(t)

UserStep == TokenAges \/ WriteFails \/ \E e \in Local : OpenWrite(e) \/ AtomicFinalize(e)

Next ==
    \/ \E h \in Handlers : Receive(h)
    \/ DrainPendingResets
    \/ \E t \in Threads : ResetStep(t)
    \/ UserStep
    \/ BeginCommit \/ CommitStep
    \/ FetchPeer \/ BeginMerge \/ DropFetched \/ MergeStep
    \/ Crash

Spec == Init /\ [][Next]_vars

-----------------------------------------------------------------------------
(* No step takes a local edit out of the branch's history: neither a push  *)
(* from another device, nor a commit, a fast-forward or a merge, in any    *)
(* interleaving, with any of them failing or the process dying.            *)
LocalHistoryKept ==
    [][head.hist \cap Local \subseteq head'.hist]_vars

(* Nor does a step take out anything a push has brought: the commit step   *)
(* and the fast-forward move HEAD by compare-and-set. The merge does not,  *)
(* see PushIsKeptByMerge.                                                  *)
ReceivedHistoryKept ==
    [][~MergePoint => head.hist \subseteq head'.hist]_vars

(* The tree a commit records is the working tree as it is when HEAD moves: *)
(* nothing lands between staging and the compare-and-set, because every    *)
(* write to the working tree takes the project lock.                       *)
CommittedIsOnDisk ==
    [][(SwapHead \/ MergePoint) /\ head' # head => head'.tree = wt]_vars

(* The confirmed edits a reset is to spare: on disk, in no commit and not   *)
(* staged; in a file git tracks, or else one that HEAD does not have (a    *)
(* reset writes HEAD's file over an untracked one).                        *)
Unsaved == {e \in acked \cap wt :
               /\ e \notin index \cup head.hist
               /\ Tracked(index, FileOf[e]) \/ In(head.tree, FileOf[e]) = {}}

(* The client writes the file anew, from what it has read without e.       *)
WrittenOver(e) == \E new \in Local : /\ AtomicFinalize(new) /\ FileOf[new] = FileOf[e]
                                     /\ e \notin token.content

(* Such an edit survives every reset, integration and merge, but the reset *)
(* a commit absorbs: see AbsorbIsSafe.                                     *)
UnstagedSurvives ==
    [][\A e \in Unsaved : e \in wt' \/ WrittenOver(e) \/ (BeginCommit /\ queued)]_vars

(* A reset that is not skipped brings to the working tree what the latest  *)
(* commit of the branch has added to a LIFT file; what earlier commits of  *)
(* the same push have added it may leave out: see IntegrateTakesHead.      *)
LastCommitIsTaken ==
    [][(\E t \in Threads : ResetUnderLock(t)) \/ (ForwardReset /\ ~token.young)
           => \A e \in head.tree \ head.first : FileOf[e] \in LiftFiles => e \in wt']_vars

(* A merge brings to the working tree what the peer alone has added to a   *)
(* LIFT file, and leaves there what we have added to any file; what a push *)
(* has brought since the merge staged is not there, and is not brought.    *)
BothSidesAreMerged ==
    [][MergeWrite =>
           /\ \A e \in job.peer.tip.tree \ (MergeBase \cup job.saw.tree) :
                 FileOf[e] \in LiftFiles => e \in wt'
           /\ \A e \in (job.saw.tree \cap wt) \ MergeBase : e \in wt']_vars

(* What commit_repo tells its caller is true: when it has committed, or    *)
(* has found nothing to commit, every local edit that is on disk is in the *)
(* history. So a commit makes up for those that failed or were killed      *)
(* after they had staged, whatever was reset or received in between.       *)
CommitSavesAll ==
    [][(StageAll /\ ~HasStaged(wt)) \/ (SwapHead /\ HeadUnmoved)
           => wt \cap Local \subseteq head'.hist]_vars

-----------------------------------------------------------------------------
(* What the code's comments and docs say, and the code does not do         *)

(* repo.py:4476, of the reset a commit absorbs: "we can safely run the     *)
(* same hard-reset-to-HEAD the lan listener would have". The listener      *)
(* would not have: it integrates when a file has an unstaged change.       *)
AbsorbIsSafe ==
    [][BeginCommit => \A e \in acked : e \in wt => e \in wt' \cup head.hist]_vars

(* docs/error_codes_audit.md:35, after failed commits: "Your recordings    *)
(* are still on the device". A later reset takes them back, because what a *)
(* failed commit has staged is no longer an unstaged change.               *)
FailedCommitKeepsWrites ==
    [][(\E t \in Threads : ResetUnderLock(t)) =>
           \A e \in acked : e \in wt => e \in wt' \cup head.hist]_vars

(* repo.py:4877, of the tree integrated with HEAD: "the resulting commit   *)
(* preserves both sides' changes". It takes the first parent for what we   *)
(* were on before the push, and leaves alone the files it shows as HEAD's. *)
IntegrateTakesHead ==
    [][(\E t \in Threads : ResetUnderLock(t)) /\ MustIntegrate =>
           \A e \in head.tree : FileOf[e] \in LiftFiles => e \in wt']_vars

(* lan_listener.py:3165, of a reset skipped for a pending write: "Worst    *)
(* case: n_changes stays inflated until the next push". The next commit    *)
(* records the old working tree over what was pushed, and takes it out.    *)
SkippedResetIsHarmless ==
    [][SwapHead /\ ~queued /\ (\A t \in Threads : rx[t] = "idle")
           => head.tree \subseteq head'.tree]_vars

(* lan_listener.py:3128: "a successful receive-pack means the incoming     *)
(* changes are now canonically HEAD". A merge being made meanwhile writes  *)
(* HEAD without a compare, over them.                                      *)
PushIsKeptByMerge ==
    [][MergePoint => head.hist \subseteq head'.hist]_vars
=============================================================================
