------------------------------ MODULE WanPush -------------------------------
(***************************************************************************)
(* One push of a project to its git host (push_repo and _push_step_locked  *)
(* of azt_collabd/repo.py), the one step that WanDrain calls Push.         *)
(*                                                                         *)
(* A history that is ahead of the host's main goes there in chunks.  One   *)
(* that has diverged goes in three phases: A, everything is uploaded to a  *)
(* topic branch of this device, chunk by chunk, first without the project  *)
(* lock; B, main is looked at again and merged; C, the merge is pushed to  *)
(* main.  What is too large for one request is banked before: the parent   *)
(* lines of a merge on side branches, single files on a seed branch.       *)
(* Nothing of this is recorded on the device but its mirrors of the host's *)
(* branches, so that a push that is cut off anywhere is taken up again     *)
(* from what the host has.                                                 *)
(*                                                                         *)
(* A commit is the set of the edits that it and its ancestors brought: one *)
(* is an ancestor of another if it is a subset, and a merge is a union.    *)
(***************************************************************************)
EXTENDS Naturals, FiniteSets

CONSTANTS
    Own,          \* edits committed on this device
    Lan,          \* edits received from peers on the network
    Foreign,      \* edits that other devices bring to the host
    Capacity,     \* the edits one request can carry
    MaxPromotes,  \* MAX_PROMOTE_RETRIES
    NoEdit        \* no edit

Edits == Own \cup Lan \cup Foreign
Commits == SUBSET Edits
NoRef == {NoEdit}   \* a branch that does not exist

ASSUME EditAssumption ==
    /\ Own \cap (Lan \cup Foreign) = {} /\ Lan \cap Foreign = {}
    /\ NoEdit \notin Edits
ASSUME BoundAssumption == Capacity \in Nat /\ MaxPromotes \in Nat

VARIABLES
    main, topic, sides, seeds,           \* the host: main, the topic branch, the side
                                         \* branches, the files on the seed branch
    branch, objects, disk,               \* the project: its branch, the commits it has,
                                         \* what its working tree shows
    mirror, topicMirror,                 \* refs/remotes/origin/ main and topic
    swept,                               \* the janitor has run (_JANITOR_SWEPT_PROJECTS)
    at, held,                            \* the push: where it is, with the project lock
    local, remote,                       \* local_sha, remote_sha
    tries,                               \* promote attempts
    wanted, result                       \* the branch when it began; what it returned

host == <<main, topic, sides, seeds>>
project == <<branch, objects, disk>>
mirrors == <<mirror, topicMirror>>
push == <<at, held, local, remote, tries, wanted, result>>
vars == <<host, project, mirrors, swept, push>>

Places == {"idle", "enter", "upload", "lock", "fetch", "read", "merge", "route",
           "review", "set", "promote", "delete", "direct"}

(* The codes a push ends with: FAILED stands for PUSH_FAILED, PULL_FAILED, *)
(* BUSY and AUTH_REQUIRED, with which the drain tries again.               *)
Results == {"none", "PUSHED", "PULLED", "TOPIC_BRANCH_CONFLICT", "FAILED"}

TypeOK ==
    /\ main \in Commits /\ topic \in Commits \cup {NoRef}
    /\ sides \in SUBSET Commits /\ seeds \in Commits
    /\ branch \in Commits /\ objects \in SUBSET Commits /\ disk \in Commits
    /\ mirror \in Commits /\ topicMirror \in Commits \cup {NoRef}
    /\ swept \in BOOLEAN
    /\ at \in Places /\ held \in BOOLEAN
    /\ local \in Commits /\ remote \in Commits
    /\ tries \in 0..MaxPromotes
    /\ wanted \in Commits /\ result \in Results

(* A project that was cloned from the host.                                *)
Init ==
    /\ main = {} /\ topic = NoRef /\ sides = {} /\ seeds = {}
    /\ branch = {} /\ objects = {{}} /\ disk = {}
    /\ mirror = {} /\ topicMirror = NoRef
    /\ swept = FALSE
    /\ at = "idle" /\ held = FALSE
    /\ local = {} /\ remote = {} /\ tries = 0 /\ wanted = {} /\ result = "none"

-----------------------------------------------------------------------------
(* Chunks.                                                                 *)

(* What the host has under any of its branches.                            *)
OnHost == main \cup (IF topic = NoRef THEN {} ELSE topic) \cup UNION sides \cup seeds

Fits(c) == Cardinality(c \ OnHost) <= Capacity

(* _all_commits_descend_from                                               *)
AllDescend(anc, desc) ==
    \A c \in objects : (c \subseteq desc /\ ~ c \subseteq anc) => anc \subseteq c

(* _pick_intermediate_sha, for whatever chunk size: a commit on the way    *)
(* that base can be fast-forwarded to; without one, the tip.               *)
Between(base, tip) ==
    LET onTheWay == {c \in objects : base \subseteq c /\ c # base /\ c \subseteq tip}
    IN  IF onTheWay = {} THEN {tip} ELSE onTheWay

Parents(c) ==
    LET before == {d \in objects : d \subseteq c /\ d # c}
    IN  {d \in before : \A d2 \in before : d \subseteq d2 => d2 = d}

(* Commits the project has once a merge is made or main is fetched.        *)
Having(c) == objects \cup {c}

TheirsWins(c) ==   \* a fault: the head of the merge is theirs
    /\ local' = c /\ branch' = c
    /\ objects' = objects \cup {c} /\ disk' = disk \cup c

(* The merge of what was read of the branch with c is written to the       *)
(* branch, whatever that is by now.                                        *)
MergeWith(c) ==
    /\ local' = local \cup c
    /\ branch' = local \cup c
    /\ objects' = objects \cup {c, local \cup c}
    /\ disk' = disk \cup local \cup c

Return(r) ==
    /\ at' = "idle" /\ held' = FALSE
    /\ local' = {} /\ remote' = {} /\ tries' = 0
    /\ wanted' = wanted /\ result' = r

-----------------------------------------------------------------------------
(* push_repo, and phase A without the lock.                                *)

StartPush ==
    /\ at = "idle"
    /\ at' = IF branch = mirror \/ AllDescend(mirror, branch) THEN "lock" ELSE "enter"
    /\ local' = branch /\ remote' = mirror
    /\ wanted' = branch /\ result' = "none"
    /\ UNCHANGED <<host, project, mirrors, swept, held, tries>>

(* Where an upload leads: with the lock to the promote, else to the lock.  *)
UploadIsAll == IF held THEN "delete" ELSE "lock"   \* a fault: the promote is left out
AfterUpload == IF held THEN "review" ELSE "lock"

(* An upload that cannot go on ends the push, or only phase A without the  *)
(* lock.                                                                   *)
EndUpload(r) ==
    IF held THEN Return(r)
    ELSE at' = "lock" /\ UNCHANGED <<held, local, remote, tries, wanted, result>>

(* _sweep_orphan_preseed_refs: side branches main has, and the seeds when  *)
(* main has all of them, are deleted; the request may fail.                *)
Sweep ==
    \/ UNCHANGED <<sides, seeds>>
    \/ /\ sides' = {s \in sides : ~ s \subseteq mirror}
       /\ seeds' = IF seeds \subseteq mirror THEN {} ELSE seeds

EnterUpload ==
    /\ at = "enter"
    /\ Sweep
    /\ \/ /\ topicMirror = local
          /\ at' = AfterUpload
          /\ UNCHANGED <<held, local, remote, tries, wanted, result>>
       \/ /\ topicMirror # local
          /\ topicMirror # NoRef /\ ~ topicMirror \subseteq local
          /\ EndUpload("TOPIC_BRANCH_CONFLICT")
       \/ /\ topicMirror # local
          /\ topicMirror = NoRef \/ topicMirror \subseteq local
          /\ at' = "upload"
          /\ UNCHANGED <<held, local, remote, tries, wanted, result>>
    /\ UNCHANGED <<main, topic, project, mirrors, swept>>

Base == IF topicMirror = NoRef THEN mirror ELSE topicMirror

(* The host takes a chunk that its topic branch can be fast-forwarded to.  *)
TakesChunk(c) == Fits(c) /\ (topic = NoRef \/ topic \subseteq c)

PushChunk ==
    /\ at = "upload"
    /\ \E c \in Between(Base, local) :
        /\ TakesChunk(c)
        /\ topic' = c /\ topicMirror' = c
        /\ at' = IF c = local THEN AfterUpload ELSE "upload"
    /\ UNCHANGED <<main, sides, seeds, project, mirror, swept,
                   held, local, remote, tries, wanted, result>>

(* The chunk arrives, the answer does not.                                 *)
ChunkCutOff ==
    /\ at = "upload"
    /\ \E c \in Between(Base, local) : TakesChunk(c) /\ topic' = c
    /\ EndUpload("FAILED") \/ UNCHANGED push
    /\ UNCHANGED <<main, sides, seeds, project, mirrors, swept>>

(* DivergedBranches says where the host's topic branch is.                 *)
ChunkDiverged ==
    /\ at = "upload"
    /\ topic # NoRef /\ topic # topicMirror
    /\ topicMirror' = topic
    /\ \/ topic = local /\ at' = AfterUpload /\ UNCHANGED <<held, local, remote, tries, wanted, result>>
       \/ topic # local /\ topic \subseteq local /\ UNCHANGED push
       \/ ~ topic \subseteq local /\ EndUpload("FAILED")
    /\ UNCHANGED <<host, project, mirror, swept>>

(* The smallest chunk is too large.                                        *)
NeverOversize == FALSE   \* a fault: nothing is banked
Oversize == \A c \in Between(Base, local) : ~ Fits(c)

(* _bank_merge_side_branches: a commit of a parent line of the merge goes  *)
(* to the host on a branch of its own.                                     *)
BankSide ==
    /\ at = "upload" /\ Oversize
    /\ \E c \in Between(Base, local) :
        /\ Cardinality(Parents(c)) > 1
        /\ \E p \in Parents(c), s \in objects :
            /\ s \subseteq p /\ Fits(s) /\ ~ s \subseteq OnHost
            /\ sides' = {t \in sides : ~ t \subseteq s} \cup {s}
    /\ UNCHANGED <<main, topic, seeds, project, mirrors, swept, push>>

(* _preseed_oversize_blobs: a batch of the files of the smallest chunk.    *)
Preseed ==
    /\ at = "upload" /\ Oversize
    /\ \E c \in Between(Base, local) : \E b \in SUBSET (c \ OnHost) :
        /\ b # {} /\ Cardinality(b) <= Capacity
        /\ seeds' = seeds \cup b
    /\ UNCHANGED <<main, topic, sides, project, mirrors, swept, push>>

(* The cap of failures, or a single chunk that does not get through.       *)
UploadFails ==
    /\ at = "upload"
    /\ EndUpload("FAILED")
    /\ UNCHANGED <<host, project, mirrors, swept>>

-----------------------------------------------------------------------------
(* _push_step_locked up to its choice of a way.                            *)

TakeLock ==
    /\ at = "lock"
    /\ at' = "fetch" /\ held' = TRUE
    /\ local' = {} /\ remote' = {}
    /\ UNCHANGED <<host, project, mirrors, swept, tries, wanted, result>>

LockBusy ==
    /\ at = "lock"
    /\ Return("FAILED")
    /\ UNCHANGED <<host, project, mirrors, swept>>

(* A fetch brings main, and the topic branch where the host has one.       *)
FetchOrigin ==
    /\ mirror' = main
    /\ topicMirror' = IF topic = NoRef THEN topicMirror ELSE topic

(* A peek at main that finds the mirror up to date saves the fetch.        *)
Fetch ==
    /\ at = "fetch"
    /\ \/ main = mirror /\ UNCHANGED <<mirrors, objects>>
       \/ FetchOrigin /\ objects' = Having(main)
    /\ at' = "read"
    /\ UNCHANGED <<host, branch, disk, swept, held, local, remote, tries, wanted, result>>

(* An error that is no refusal is not fatal: the mirror is used as it is.  *)
FetchFails ==
    /\ at = "fetch"
    /\ \/ at' = "read" /\ UNCHANGED <<held, local, remote, tries, wanted, result>>
       \/ Return("FAILED")
    /\ UNCHANGED <<host, project, mirrors, swept>>

(* The topic branch is deleted on the host, and then its mirror.           *)
DeleteTopic ==
    /\ topic' = NoRef
    /\ topicMirror' \in {NoRef, topicMirror}

(* The janitor deletes, once in the daemon's life, a topic branch that the *)
(* mirrors say main has.                                                   *)
ReadRefs ==
    /\ at = "read"
    /\ local' = branch /\ remote' = mirror
    /\ at' = "merge"
    /\ swept' = TRUE
    /\ \/ ~swept /\ topicMirror # NoRef /\ topicMirror \subseteq mirror /\ DeleteTopic
       \/ UNCHANGED <<topic, topicMirror>>
    /\ UNCHANGED <<main, sides, seeds, project, mirror, held, tries, wanted, result>>

(* A pull that is a fast-forward takes the working tree along.             *)
FastForward ==
    /\ at = "merge" /\ local \subseteq remote /\ local # remote
    /\ branch' = remote /\ local' = remote
    /\ disk' = disk \cup remote
    /\ at' = "route"
    /\ UNCHANGED <<host, objects, mirrors, swept, held, remote, tries, wanted, result>>

NoMerge ==
    /\ at = "merge" /\ remote \subseteq local
    /\ at' = "route"
    /\ UNCHANGED <<host, project, mirrors, swept, held, local, remote, tries, wanted, result>>

Merge ==
    /\ at = "merge" /\ ~ local \subseteq remote /\ ~ remote \subseteq local
    /\ MergeWith(remote)
    /\ at' = "route"
    /\ UNCHANGED <<host, mirrors, swept, held, remote, tries, wanted, result>>

(* Not enough memory, unrelated histories, or an exception.                *)
MergeFails ==
    /\ at = "merge" /\ ~ local \subseteq remote /\ ~ remote \subseteq local
    /\ Return("FAILED")
    /\ UNCHANGED <<host, project, mirrors, swept>>

Route ==
    /\ at = "route"
    /\ at' = IF local = remote \/ AllDescend(remote, local) THEN "direct" ELSE "enter"
    /\ UNCHANGED <<host, project, mirrors, swept, held, local, remote, tries, wanted, result>>

-----------------------------------------------------------------------------
(* Phases B, C and D.                                                      *)

(* MAX_PROMOTE_RETRIES                                                     *)
MayPromote == tries < MaxPromotes

(* Phase B: fetch main again, or go on with the mirror as it is.  When the *)
(* host has all of ours, the branch follows, and that is all.              *)
Review ==
    /\ at = "review" /\ MayPromote
    /\ \/ main = mirror /\ UNCHANGED mirrors
       \/ FetchOrigin
       \/ UNCHANGED mirrors
    /\ \/ /\ mirror' \subseteq local
          /\ at' = "set" /\ remote' = mirror' /\ tries' = tries + 1
          /\ objects' = Having(mirror')
          /\ UNCHANGED <<branch, disk, held, local, wanted, result>>
       \/ /\ local \subseteq mirror' /\ local # mirror'
          /\ branch' = mirror' /\ objects' = Having(mirror') /\ disk' = disk
          /\ Return("PULLED")
       \/ /\ ~ mirror' \subseteq local /\ ~ local \subseteq mirror'
          /\ MergeWith(mirror')
          /\ at' = "set" /\ remote' = mirror' /\ tries' = tries + 1
          /\ UNCHANGED <<held, wanted, result>>
    /\ UNCHANGED <<host, swept>>

(* A refused fetch, a merge that fails, or MAX_PROMOTE_RETRIES.            *)
ReviewFails ==
    /\ at = "review"
    /\ Return("FAILED")
    /\ UNCHANGED <<host, project, mirrors, swept>>

(* Phase C: the branch is set to what is to be pushed, without a compare.  *)
SetBranch ==
    /\ at = "set"
    /\ branch' = local
    /\ at' = "promote"
    /\ UNCHANGED <<host, objects, disk, mirrors, swept, held, local, remote, tries, wanted, result>>

(* What is pushed is the branch as it is by now.                           *)
Forced == Fits(branch)   \* a fault: main is overwritten
TakesBranch == Fits(branch) /\ main \subseteq branch

Promote ==
    /\ at = "promote" /\ TakesBranch
    /\ main' = branch /\ mirror' = local
    /\ at' = "delete"
    /\ UNCHANGED <<topic, sides, seeds, project, topicMirror, swept,
                   held, local, remote, tries, wanted, result>>

PromoteRefused ==
    /\ at = "promote" /\ ~ main \subseteq branch
    /\ at' = "review"
    /\ UNCHANGED <<host, project, mirrors, swept, held, local, remote, tries, wanted, result>>

PromoteFails ==
    /\ at = "promote"
    /\ (main' = branch /\ TakesBranch) \/ main' = main
    /\ Return("FAILED")
    /\ UNCHANGED <<topic, sides, seeds, project, mirrors, swept>>

(* Phase D, which may fail.                                                *)
Delete ==
    /\ at = "delete"
    /\ DeleteTopic \/ UNCHANGED <<topic, topicMirror>>
    /\ Return("PUSHED")
    /\ UNCHANGED <<main, sides, seeds, project, mirror, swept>>

-----------------------------------------------------------------------------
(* The direct way: chunks to main.                                         *)

(* The tip goes as the branch, whatever that is by now; a smaller chunk as *)
(* itself.                                                                 *)
TempRefNotMoved(c) == IF c = local THEN branch ELSE remote   \* a fault: the chunk before
Sent(c) == IF c = local THEN branch ELSE c
Takes(c) == Fits(Sent(c)) /\ main \subseteq Sent(c)

DirectPush ==
    /\ at = "direct"
    /\ \E c \in Between(remote, local) :
        /\ Takes(c)
        /\ main' = Sent(c) /\ mirror' = c
        /\ IF c = local THEN Return("PUSHED")
           ELSE remote' = c /\ UNCHANGED <<at, held, local, tries, wanted, result>>
    /\ UNCHANGED <<topic, sides, seeds, project, topicMirror, swept>>

DirectCutOff ==
    /\ at = "direct"
    /\ \E c \in Between(remote, local) : Takes(c) /\ main' = Sent(c)
    /\ UNCHANGED <<topic, sides, seeds, project, mirrors, swept, push>>

(* A push that raised, with main elsewhere than we thought.                *)
DirectReconcile ==
    /\ at = "direct" /\ main # remote
    /\ mirror' = main /\ topicMirror' \in {topicMirror, IF topic = NoRef THEN topicMirror ELSE topic}
    /\ \/ /\ main = local
          /\ Return("PUSHED")
          /\ objects' = Having(main) /\ UNCHANGED <<branch, disk>>
       \/ /\ main \subseteq local /\ main # local
          /\ remote' = main
          /\ objects' = Having(main) /\ UNCHANGED <<branch, disk>>
          /\ UNCHANGED <<at, held, local, tries, wanted, result>>
       \/ /\ local \subseteq main /\ main # local
          /\ branch' = main /\ objects' = Having(main) /\ disk' = disk \cup main
          /\ Return("PUSHED")
       \/ /\ ~ main \subseteq local /\ ~ local \subseteq main
          /\ MergeWith(main)
          /\ remote' = main
          /\ UNCHANGED <<at, held, tries, wanted, result>>
    /\ UNCHANGED <<host, swept>>

(* The cap of failures, the budget of time, a refusal, a chunk of one      *)
(* commit that does not get through, a merge that fails.                   *)
DirectFails ==
    /\ at = "direct"
    /\ Return("FAILED")
    /\ UNCHANGED <<host, project, mirrors, swept>>

-----------------------------------------------------------------------------
(* Everybody else.                                                         *)

(* A commit is made under the project lock.                                *)
LockIsFree == ~held
Commit ==
    /\ LockIsFree
    /\ \E e \in Own \ branch :
        /\ branch' = branch \cup {e}
        /\ objects' = Having(branch \cup {e}) /\ disk' = disk \cup {e}
    /\ UNCHANGED <<host, mirrors, swept, push>>

(* A push from a peer moves the branch without the lock; the working tree  *)
(* follows (ProjectTree).                                                  *)
Receive ==
    /\ \E x \in Lan \ branch :
        /\ branch' = branch \cup {x}
        /\ objects' = Having(branch \cup {x}) /\ disk' = disk \cup {x}
    /\ UNCHANGED <<host, mirrors, swept, push>>

(* Another device pushes to main what is its own and what it has of ours.  *)
OtherPushes ==
    /\ \E c \in objects, es \in SUBSET Foreign :
        /\ main' = main \cup c \cup es
        /\ main' # main
    /\ UNCHANGED <<topic, sides, seeds, project, mirrors, swept, push>>

(* The daemon is killed and started again.                                 *)
Crash ==
    /\ at # "idle"
    /\ Return("none")
    /\ swept' = FALSE
    /\ UNCHANGED <<host, project, mirrors>>

Upload == EnterUpload \/ PushChunk \/ ChunkCutOff \/ ChunkDiverged \/ BankSide
          \/ Preseed \/ UploadFails
Locked == TakeLock \/ LockBusy \/ Fetch \/ FetchFails \/ ReadRefs
          \/ FastForward \/ NoMerge \/ Merge \/ MergeFails \/ Route
Promotion == Review \/ ReviewFails \/ SetBranch \/ Promote \/ PromoteRefused
             \/ PromoteFails \/ Delete
Direct == DirectPush \/ DirectCutOff \/ DirectReconcile \/ DirectFails

Next == \/ StartPush \/ Upload \/ Locked \/ Promotion \/ Direct
        \/ Commit \/ Receive \/ OtherPushes \/ Crash

Spec == Init /\ [][Next]_vars

(* The drain pushes again and again (WanDrain).  From some time on nothing *)
(* goes wrong that can be done: the daemon is not killed, no answer is     *)
(* lost, the lock is free, and no step gives up that could go on.          *)
Step ==
    \/ StartPush \/ EnterUpload \/ PushChunk \/ ChunkDiverged \/ BankSide \/ Preseed
    \/ TakeLock \/ Fetch \/ ReadRefs \/ FastForward \/ NoMerge \/ Merge \/ Route
    \/ Review \/ SetBranch \/ Promote \/ PromoteRefused \/ Delete
    \/ DirectPush \/ DirectReconcile

GiveUp == UploadFails \/ ReviewFails \/ PromoteFails \/ DirectFails

Well == \/ Step
        \/ GiveUp /\ ~ ENABLED Step
        \/ Commit \/ Receive \/ OtherPushes

FairSpec == Spec /\ WF_vars(Step) /\ WF_vars(GiveUp) /\ <>[][Well]_vars

-----------------------------------------------------------------------------
(* A push that says PUSHED has brought everything to the host's main that  *)
(* was committed when it began (push_repo).                                *)
PushedIsOnHost == result = "PUSHED" => wanted \subseteq main

(* The mirror of main, from which the user is told what is safe on the     *)
(* host (_wan_unshared), never shows what the host does not have.          *)
MirrorNotAhead == mirror \subseteq main

(* Phase A finds on the host's topic branch only what this device has put  *)
(* there: no push is refused with TOPIC_BRANCH_CONFLICT for a branch that  *)
(* no other device has touched.                                            *)
TopicIsOurs == result # "TOPIC_BRANCH_CONFLICT"

(* No pull, merge or promote of a push takes back what is committed on     *)
(* this device, though they write the branch without a compare.            *)
OwnWorkKept == [][branch \cap Own \subseteq branch']_vars

(* What sharing promises, of the edits on the branch and on the host's     *)
(* main, where other devices bring theirs: a push takes no one's edits off *)
(* main, and no pull one of ours off the branch; neither gets what was not *)
(* made.  The edits of the network's peers come and go (LanFanOut).        *)
Sites == {"device", "host"}
Sharing == INSTANCE EditSharing
    WITH Devices <- Sites,
         Own <- [s \in Sites |-> IF s = "device" THEN Own ELSE Foreign],
         view <- [s \in Sites |-> (IF s = "device" THEN branch ELSE main) \ Lan]
ImplementsSharing == Sharing!SharingSpec

(* What is committed gets to the host's main, though no request carries    *)
(* more than Capacity edits, requests are cut off, other devices push      *)
(* first and the daemon dies in between.                                   *)
CommittedGetsThrough == \A e \in Own : (e \in branch) ~> (e \in main)

(* When no push is under way, what the branch has is in the working tree:  *)
(* a pull materialises what it brings.                                     *)
PulledIsOnDisk == at = "idle" => branch \subseteq disk
=============================================================================
