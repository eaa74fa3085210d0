------------------------- MODULE ProjectTree_proof --------------------------
(***************************************************************************)
(* For any files, edits and threads, and whatever fails: no step of the    *)
(* daemon takes a local edit out of the branch's history.  The property is *)
(* not inductive: the commit step and the merge write HEAD from what they  *)
(* read of it earlier, outside any lock a push would take.  What makes it  *)
(* true is that HEAD gains local edits under the project lock only, so a   *)
(* HEAD read by its holder stays current as far as local edits go.         *)
(***************************************************************************)
EXTENDS ProjectTree, TLAPS

LEMMA InIsTree == \A T \in Trees, f \in Files : In(T, f) \in Trees
  BY DEF In, Trees

LEMMA ResetIsTree == \A i, w, t : HardReset(i, w, t) \in Trees
  BY DEF HardReset, FromFiles, Trees

LEMMA IntegrateIsTree == \A w, b, h : Integrate(w, b, h) \in Trees
  BY DEF Integrate, FromFiles, Trees

LEMMA MergeIsTree == \A w, b, o, t : MergeIntoTree(w, b, o, t) \in Trees
  BY DEF MergeIntoTree, FromFiles, Trees

LEMMA ReapplyIsTree == \A w, b, s : Reapply(w, b, s) \in Trees
  BY DEF Reapply, FromFiles, Trees

LEMMA UnionIsTree == \A S, T \in Trees : S \cup T \in Trees
  BY DEF Trees

LEMMA SeedIsTree == /\ Seed \in Trees /\ {} \in Trees
                    /\ Local \subseteq Edits /\ Peer \subseteq Edits
  BY EditAssumption DEF Trees

LEMMA CommitsAreRecords ==
    /\ NoCommit \in Commits /\ Root \in Commits
    /\ NoPeer \in [tip : Commits, fork : Commits] /\ NoJob \in Jobs
    /\ NoToken \in Tokens
  BY SeedIsTree DEF NoCommit, Root, NoPeer, NoJob, NoToken, Commits, Jobs, Steps, Tokens

-----------------------------------------------------------------------------
(* The inductive invariant: a HEAD read under the lock still has every     *)
(* local edit that HEAD has, and a peer's tip has all of its fork point.   *)
Reading == {"swap", "write", "point"}

SawLocal == job.at \in Reading => head.hist \cap Local \subseteq job.saw.hist
PeerHasFork == /\ fetched.fork.hist \subseteq fetched.tip.hist
               /\ job.peer.fork.hist \subseteq job.peer.tip.hist
ForwardIsAhead == job.at = "forward" => job.saw.hist \subseteq job.peer.tip.hist

IInv == TypeOK /\ SawLocal /\ PeerHasFork /\ ForwardIsAhead

LEMMA InitEstablishes == Init => IInv
  <1> SUFFICES ASSUME Init PROVE IInv
    OBVIOUS
  <1>1. TypeOK
    BY SeedIsTree, CommitsAreRecords DEF Init, TypeOK
  <1>2. SawLocal /\ PeerHasFork /\ ForwardIsAhead
    BY DEF Init, SawLocal, PeerHasFork, ForwardIsAhead, NoJob, NoPeer, NoCommit, Reading
  <1>3. QED
    BY <1>1, <1>2 DEF IInv

-----------------------------------------------------------------------------
(* One lemma per group of actions; each also says what the action does to  *)
(* the local edits of the history.                                         *)

Good == IInv' /\ head.hist \cap Local \subseteq head'.hist

LEMMA ReceiveGood == ASSUME IInv, NEW h \in Handlers, Receive(h) PROVE Good
  <1>1. PICK S \in SUBSET (Peer \ head.hist) \ {{}} : \E first \in FirstParents(S) :
            head' = [tree |-> head.tree \cup S, first |-> first,
                     hist |-> head.hist \cup S]
    BY DEF Receive
  <1>2. PICK first \in FirstParents(S) :
            head' = [tree |-> head.tree \cup S, first |-> first,
                     hist |-> head.hist \cup S]
    BY <1>1
  <1>3. S \in Trees /\ S \cap Local = {}
    BY EditAssumption, SeedIsTree DEF Trees
  <1>4. first \in Trees
    BY <1>1, <1>2, <1>3, SeedIsTree DEF FirstParents, IInv, TypeOK, Commits, Trees
  <1>5. head' \in Commits
    BY <1>2, <1>3, <1>4, UnionIsTree DEF IInv, TypeOK, Commits
  <1>6. /\ head.hist \subseteq head'.hist
        /\ head'.hist \cap Local \subseteq head.hist \cap Local
    BY <1>2, <1>3
  <1>7. TypeOK'
    BY <1>5 DEF Receive, IInv, TypeOK, Threads
  <1>8. QED
    BY <1>6, <1>7 DEF Receive, Good, IInv, SawLocal, PeerHasFork, ForwardIsAhead

LEMMA DrainGood == ASSUME IInv, DrainPendingResets PROVE Good
  BY DEF DrainPendingResets, Good, IInv, TypeOK, Threads, SawLocal, PeerHasFork,
     ForwardIsAhead

LEMMA ResetTypes == ASSUME IInv, ResetOrIntegrate
                    PROVE  wt' \in Trees /\ index' \in Trees /\ queued' \in BOOLEAN
  <1>1. CASE MustIntegrate
    BY <1>1, IntegrateIsTree DEF ResetOrIntegrate, IInv, TypeOK
  <1>2. CASE ~MustIntegrate
    <2>1. /\ wt' = HardReset(index, wt, head.tree)
          /\ index' = head.tree /\ queued' = FALSE
      BY <1>2 DEF ResetOrIntegrate
    <2>2. head.tree \in Trees
      BY DEF IInv, TypeOK, Commits
    <2>3. QED
      BY <2>1, <2>2, ResetIsTree
  <1>3. QED
    BY <1>1, <1>2

LEMMA ResetStepGood == ASSUME IInv, NEW t \in Threads, ResetStep(t) PROVE Good
  <1>1. CASE GuardYoungToken(t)
    BY <1>1 DEF GuardYoungToken, Good, IInv, TypeOK, SawLocal, PeerHasFork, ForwardIsAhead
  <1>2. CASE ResetUnderLock(t)
    BY <1>2, ResetTypes
    DEF ResetUnderLock, Good, IInv, TypeOK, SawLocal, PeerHasFork, ForwardIsAhead
  <1>3. CASE ResetTimeout(t)
    BY <1>3 DEF ResetTimeout, Good, IInv, TypeOK, SawLocal, PeerHasFork, ForwardIsAhead
  <1>4. QED
    BY <1>1, <1>2, <1>3 DEF ResetStep

LEMMA UserStepGood == ASSUME IInv, UserStep PROVE Good
  <1> USE DEF IInv, TypeOK, Tokens
  <1>1. ASSUME NEW e \in Local, OpenWrite(e) PROVE TypeOK'
    <2>1. {e} \in Trees /\ In(wt, FileOf[e]) \cup {e} \in Trees
      BY SeedIsTree DEF In, Trees
    <2>2. QED
      BY <1>1, <2>1 DEF OpenWrite
  <1>2. ASSUME NEW e \in Local, AtomicFinalize(e) PROVE TypeOK'
    <2>1. wt' \in Trees
      BY <1>2 DEF AtomicFinalize, Trees
    <2>2. QED
      BY <1>2, <2>1, CommitsAreRecords DEF AtomicFinalize
  <1>3. ASSUME TokenAges \/ WriteFails PROVE TypeOK'
    BY <1>3, CommitsAreRecords DEF TokenAges, WriteFails
  <1>4. TypeOK'
    BY <1>1, <1>2, <1>3 DEF UserStep
  <1>5. UNCHANGED <<head, job, fetched>>
    BY DEF UserStep, OpenWrite, AtomicFinalize, TokenAges, WriteFails
  <1>6. QED
    BY <1>4, <1>5 DEF Good, SawLocal, PeerHasFork, ForwardIsAhead

LEMMA AfterCommitStepJob ==
  ASSUME IInv, NEW ok \in BOOLEAN
  PROVE  /\ AfterCommitStep(ok) \in Jobs
         /\ AfterCommitStep(ok).at \in {"none", "compare"}
         /\ AfterCommitStep(ok).peer.fork.hist \subseteq AfterCommitStep(ok).peer.tip.hist
  <1>1. CASE job.after = "done"
    BY <1>1, CommitsAreRecords DEF AfterCommitStep, NoJob, NoPeer, NoCommit, Reading
  <1>2. CASE job.after # "done"
    BY <1>2, SeedIsTree
    DEF AfterCommitStep, IInv, TypeOK, Jobs, Steps, Reading, PeerHasFork
  <1>3. QED
    BY <1>1, <1>2

LEMMA CommitGood == ASSUME IInv, BeginCommit \/ CommitStep PROVE Good
  <1> USE DEF IInv
  <1>1. CASE BeginCommit
    <2>1. [NoJob EXCEPT !.at = "stage"] \in Jobs
      BY CommitsAreRecords DEF NoJob, Jobs, Steps
    <2>2. wt' \in Trees /\ index' \in Trees
      BY <1>1, ResetIsTree DEF BeginCommit, TypeOK, Commits
    <2>3. QED
      BY <1>1, <2>1, <2>2
      DEF BeginCommit, TypeOK, Good, SawLocal, PeerHasFork, ForwardIsAhead, NoJob,
          NoPeer, NoCommit, Reading
  <1>2. CASE StageAll
    <2>1. CASE HasStaged(wt)
      BY <1>2, <2>1
      DEF StageAll, TypeOK, Good, SawLocal, PeerHasFork, ForwardIsAhead, Jobs, Steps,
          Reading
    <2>2. CASE ~HasStaged(wt)
      BY <1>2, <2>2, AfterCommitStepJob
      DEF StageAll, TypeOK, Good, SawLocal, PeerHasFork, ForwardIsAhead, Reading
    <2>3. QED
      BY <2>1, <2>2
  <1>3. CASE ReadParent
    BY <1>3 DEF ReadParent, TypeOK, Good, SawLocal, PeerHasFork, ForwardIsAhead, Jobs,
       Steps, Reading
  <1>4. CASE SwapHead
    <2>1. HeadUnmoved \in BOOLEAN
      BY DEF HeadUnmoved
    <2>2. head' \in Commits /\ head.hist \cap Local \subseteq head'.hist
      BY <1>4 DEF SwapHead, HeadUnmoved, TypeOK, Commits, Trees
    <2>3. QED
      BY <1>4, <2>1, <2>2, AfterCommitStepJob
      DEF SwapHead, TypeOK, Good, SawLocal, PeerHasFork, ForwardIsAhead, Reading
  <1>5. CASE CommitFails
    BY <1>5, AfterCommitStepJob
    DEF CommitFails, TypeOK, Good, SawLocal, PeerHasFork, ForwardIsAhead, Reading
  <1>6. QED
    BY <1>1, <1>2, <1>3, <1>4, <1>5 DEF CommitStep

LEMMA FetchGood == ASSUME IInv, FetchPeer \/ BeginMerge \/ DropFetched PROVE Good
  <1> USE DEF IInv
  <1>1. CASE FetchPeer
    <2>1. PICK S \in SUBSET (Peer \ head.hist) \ {{}}, fork \in {head, Root} :
            fetched' = [tip |-> [tree |-> fork.tree \cup S, first |-> fork.tree,
                                 hist |-> fork.hist \cup S],
                        fork |-> fork]
      BY <1>1 DEF FetchPeer
    <2>2. S \in Trees /\ fork \in Commits
      BY <2>1, SeedIsTree, CommitsAreRecords DEF TypeOK, Trees
    <2>3. fetched' \in [tip : Commits, fork : Commits]
      BY <2>1, <2>2, UnionIsTree DEF Commits
    <2>4. fetched'.fork.hist \subseteq fetched'.tip.hist
      BY <2>1
    <2>5. QED
      BY <1>1, <2>3, <2>4
      DEF FetchPeer, TypeOK, Good, SawLocal, PeerHasFork, ForwardIsAhead
  <1>2. CASE BeginMerge
    <2>1. {e \in wt : FileOf[e] \in Unstaged(index, wt)} \in Trees
      BY DEF TypeOK, Trees
    <2>2. job' \in Jobs /\ job'.at = "stage" /\ job'.peer = fetched
      BY <1>2, <2>1, CommitsAreRecords
      DEF BeginMerge, TypeOK, NoJob, Jobs, Steps, Commits
    <2>3. QED
      BY <1>2, <2>2, CommitsAreRecords
      DEF BeginMerge, TypeOK, Good, SawLocal, PeerHasFork, ForwardIsAhead, NoPeer,
          NoCommit, Reading
  <1>3. CASE DropFetched
    BY <1>3, CommitsAreRecords
    DEF DropFetched, TypeOK, Good, SawLocal, PeerHasFork, ForwardIsAhead, NoPeer, NoCommit
  <1>4. QED
    BY <1>1, <1>2, <1>3

LEMMA NoJobGood == ASSUME IInv, job' = NoJob, UNCHANGED <<head, fetched>>, TypeOK'
                   PROVE  Good
  BY DEF IInv, Good, SawLocal, PeerHasFork, ForwardIsAhead, NoJob, NoPeer, NoCommit,
     Reading

LEMMA MergeStepGood == ASSUME IInv, MergeStep PROVE Good
  <1> USE DEF IInv
  <1>1. CASE Compare
    <2>1. CASE job' = NoJob
      BY <1>1, <2>1, NoJobGood, CommitsAreRecords DEF Compare, TypeOK
    <2>2. CASE job' = [job EXCEPT !.at = "forward", !.saw = head] /\ LocalInPeer
      BY <1>1, <2>2
      DEF Compare, TypeOK, Good, SawLocal, PeerHasFork, ForwardIsAhead, LocalInPeer,
          Jobs, Steps, Reading
    <2>3. CASE job' = [job EXCEPT !.at = "write", !.saw = head]
      BY <1>1, <2>3
      DEF Compare, TypeOK, Good, SawLocal, PeerHasFork, ForwardIsAhead, Jobs, Steps,
          Reading
    <2>4. QED
      BY <1>1, <2>1, <2>2, <2>3 DEF Compare
  <1>2. CASE FastForward
    <2>1. CASE HeadUnmoved
      BY <1>2, <2>1
      DEF FastForward, HeadUnmoved, TypeOK, Good, SawLocal, PeerHasFork,
          ForwardIsAhead, Jobs, Steps, Reading
    <2>2. CASE ~HeadUnmoved
      BY <1>2, <2>2, NoJobGood, CommitsAreRecords DEF FastForward, TypeOK
    <2>3. QED
      BY <2>1, <2>2
  <1>3. CASE ForwardReset
    BY <1>3, NoJobGood, ResetTypes, CommitsAreRecords DEF ForwardReset, TypeOK
  <1>4. CASE MergeWrite
    <2>1. wt' \in Trees /\ index' \in Trees
      BY <1>4, MergeIsTree DEF MergeWrite
    <2>2. QED
      BY <1>4, <2>1
      DEF MergeWrite, TypeOK, Good, SawLocal, PeerHasFork, ForwardIsAhead, Jobs, Steps,
          Reading
  <1>5. CASE MergePoint
    <2>1. PICK first \in {job.saw.tree, job.peer.tip.tree} :
            head' = [tree |-> index, first |-> first,
                     hist |-> job.saw.hist \cup job.peer.tip.hist \cup index]
      BY <1>5 DEF MergePoint
    <2>2. head' \in Commits
      BY <2>1, UnionIsTree DEF TypeOK, Jobs, Commits
    <2>3. head.hist \cap Local \subseteq head'.hist
      BY <1>5, <2>1 DEF MergePoint, SawLocal, Reading
    <2>4. /\ job' \in Jobs /\ job'.at \in {"none", "reapply"}
          /\ job'.peer.fork.hist \subseteq job'.peer.tip.hist
      BY <1>5, CommitsAreRecords
      DEF MergePoint, TypeOK, PeerHasFork, Jobs, Steps, NoJob, NoPeer, NoCommit
    <2>5. QED
      BY <1>5, <2>2, <2>3, <2>4
      DEF MergePoint, TypeOK, Good, SawLocal, PeerHasFork, ForwardIsAhead, Reading
  <1>6. CASE ReapplySnapshot
    <2>1. [NoJob EXCEPT !.at = "stage"] \in Jobs
      BY CommitsAreRecords DEF NoJob, Jobs, Steps
    <2>2. QED
      BY <1>6, <2>1, ReapplyIsTree
      DEF ReapplySnapshot, TypeOK, Good, SawLocal, PeerHasFork, ForwardIsAhead, NoJob,
          NoPeer, NoCommit, Reading
  <1>7. QED
    BY <1>1, <1>2, <1>3, <1>4, <1>5, <1>6 DEF MergeStep

LEMMA CrashGood == ASSUME IInv, Crash PROVE Good
  BY CommitsAreRecords
  DEF Crash, IInv, TypeOK, Good, SawLocal, PeerHasFork, ForwardIsAhead, NoJob, NoPeer,
      NoCommit, Reading

LEMMA NextGood == IInv /\ [Next]_vars => Good
  <1> SUFFICES ASSUME IInv, [Next]_vars PROVE Good
    OBVIOUS
  <1>1. CASE UNCHANGED vars
    BY <1>1 DEF vars, IInv, TypeOK, Good, SawLocal, PeerHasFork, ForwardIsAhead
  <1>2. CASE Next
    BY <1>2, ReceiveGood, DrainGood, ResetStepGood, UserStepGood, CommitGood,
       FetchGood, MergeStepGood, CrashGood
    DEF Next
  <1>3. QED
    BY <1>1, <1>2

-----------------------------------------------------------------------------
(* The inductive invariant holds in every reachable state.                 *)
THEOREM Invariance == Spec => []IInv
  <1>1. IInv /\ [Next]_vars => IInv'
    BY NextGood DEF Good
  <1>2. QED
    BY <1>1, InitEstablishes, PTL DEF Spec

(* Every variable keeps its type, the records of the jobs included.        *)
THEOREM TypeCorrect == Spec => []TypeOK
  <1>1. IInv => TypeOK
    BY DEF IInv
  <1>2. QED
    BY <1>1, Invariance, PTL

(* No step takes a local edit out of the branch's history.                 *)
THEOREM LocalWorkKept == Spec => LocalHistoryKept
  <1>1. IInv /\ [Next]_vars => [head.hist \cap Local \subseteq head'.hist]_vars
    BY NextGood DEF Good
  <1>2. QED
    BY <1>1, Invariance, PTL DEF Spec, LocalHistoryKept

-----------------------------------------------------------------------------
(* What is staged stays what is on disk until the job ends, or writes the  *)
(* working tree itself, because every other writer needs the job's lock.   *)
Committing == {"parent", "swap", "compare", "write", "point", "reapply"}
StagedIsOnDisk == job.at \in Committing => index = wt

LEMMA StagedPreserved ==
  ASSUME IInv, StagedIsOnDisk, [Next]_vars PROVE StagedIsOnDisk'
  <1> USE DEF StagedIsOnDisk, Committing
  <1>1. CASE UNCHANGED vars
    BY <1>1 DEF vars
  <1>2. ASSUME LockFree, UNCHANGED job PROVE StagedIsOnDisk'
    BY <1>2 DEF LockFree, NoJob
  <1>3. ASSUME UNCHANGED <<job, index, wt>> PROVE StagedIsOnDisk'
    BY <1>3
  <1>4. ASSUME job'.at \notin Committing PROVE StagedIsOnDisk'
    BY <1>4
  <1>5. CASE \E h \in Handlers : Receive(h)
    BY <1>3, <1>5 DEF Receive
  <1>6. CASE DrainPendingResets
    BY <1>3, <1>6 DEF DrainPendingResets
  <1>7. CASE \E t \in Threads : ResetStep(t)
    <2>1. PICK t \in Threads : ResetStep(t)
      BY <1>7
    <2>2. UNCHANGED job /\ (LockFree \/ UNCHANGED <<index, wt>>)
      BY <2>1 DEF ResetStep, GuardYoungToken, ResetUnderLock, ResetTimeout
    <2>3. QED
      BY <1>2, <1>3, <2>2
  <1>8. CASE UserStep
    <2>1. UNCHANGED job /\ (LockFree \/ UNCHANGED <<index, wt>>)
      BY <1>8 DEF UserStep, OpenWrite, AtomicFinalize, CanFinalize, TokenAges, WriteFails
    <2>2. QED
      BY <1>2, <1>3, <2>1
  <1>9. CASE BeginCommit \/ BeginMerge \/ Crash
    <2>1. CASE BeginCommit
      BY <1>4, <2>1 DEF BeginCommit, NoJob
    <2>2. CASE BeginMerge
      BY <1>4, <2>2 DEF BeginMerge, NoJob
    <2>3. CASE Crash
      BY <1>4, <2>3 DEF Crash, NoJob
    <2>4. QED
      BY <1>9, <2>1, <2>2, <2>3
  <1>10. CASE FetchPeer \/ DropFetched
    BY <1>3, <1>10 DEF FetchPeer, DropFetched
  <1>11. CASE CommitStep
    <2>1. CASE StageAll
      BY <2>1 DEF StageAll
    <2>2. CASE ReadParent
      BY <2>2 DEF ReadParent
    <2>3. CASE SwapHead
      BY <2>3 DEF SwapHead
    <2>4. CASE CommitFails
      BY <2>4 DEF CommitFails
    <2>5. QED
      BY <1>11, <2>1, <2>2, <2>3, <2>4 DEF CommitStep
  <1>12. CASE MergeStep
    <2>1. CASE Compare \/ MergePoint
      BY <2>1 DEF Compare, MergePoint
    <2>2. CASE MergeWrite
      BY <2>2 DEF MergeWrite
    <2>3. CASE FastForward
      <3>1. [job EXCEPT !.at = "reset"].at = "reset" /\ NoJob.at = "none"
        BY DEF IInv, TypeOK, Jobs, NoJob
      <3>2. QED
        BY <1>4, <2>3, <3>1 DEF FastForward
    <2>4. CASE ForwardReset \/ ReapplySnapshot
      BY <1>4, <2>4 DEF ForwardReset, ReapplySnapshot, NoJob
    <2>5. QED
      BY <1>12, <2>1, <2>2, <2>3, <2>4 DEF MergeStep
  <1>13. QED
    BY <1>1, <1>5, <1>6, <1>7, <1>8, <1>9, <1>10, <1>11, <1>12 DEF Next

(* Reachable states have what is staged on disk throughout such a job.     *)
THEOREM StagedInvariance == Spec => []StagedIsOnDisk
  <1>1. Init => StagedIsOnDisk
    BY DEF Init, StagedIsOnDisk, Committing, NoJob
  <1>2. IInv /\ StagedIsOnDisk /\ [Next]_vars => StagedIsOnDisk'
    BY StagedPreserved
  <1>3. QED
    BY <1>1, <1>2, Invariance, PTL DEF Spec

(* The tree a commit or a merge records is the working tree of that moment.*)
THEOREM CommitsAreOnDisk == Spec => CommittedIsOnDisk
  <1>1. StagedIsOnDisk /\ [Next]_vars
           => [(SwapHead \/ MergePoint) /\ head' # head => head'.tree = wt]_vars
    BY DEF StagedIsOnDisk, Committing, SwapHead, MergePoint
  <1>2. QED
    BY <1>1, StagedInvariance, PTL DEF Spec, CommittedIsOnDisk

-----------------------------------------------------------------------------
(* No step but the merge's takes anything out of the history: neither a    *)
(* commit nor a fast-forward overwrites a push it has not seen.            *)
THEOREM PushesKept == Spec => ReceivedHistoryKept
  <1>1. ASSUME IInv, [Next]_vars PROVE [~MergePoint => head.hist \subseteq head'.hist]_vars
    <2>1. SUFFICES ASSUME Next, ~MergePoint PROVE head.hist \subseteq head'.hist
      BY <1>1 DEF vars
    <2>2. CASE \E h \in Handlers : Receive(h)
      BY <2>2 DEF Receive
    <2>3. CASE SwapHead
      BY <2>3 DEF SwapHead, HeadUnmoved
    <2>4. CASE FastForward
      BY <1>1, <2>4 DEF FastForward, HeadUnmoved, IInv, ForwardIsAhead
    <2>5. CASE DrainPendingResets \/ UserStep \/ BeginCommit \/ StageAll \/ ReadParent
               \/ CommitFails \/ FetchPeer \/ BeginMerge \/ DropFetched \/ Crash
               \/ \E t \in Threads : ResetStep(t)
      BY <2>5 DEF DrainPendingResets, UserStep, OpenWrite, AtomicFinalize, TokenAges,
         WriteFails, BeginCommit, StageAll, ReadParent, CommitFails, FetchPeer,
         BeginMerge, DropFetched, Crash, ResetStep, GuardYoungToken, ResetUnderLock,
         ResetTimeout
    <2>6. CASE Compare \/ ForwardReset \/ MergeWrite \/ ReapplySnapshot
      BY <2>6 DEF Compare, ForwardReset, MergeWrite, ReapplySnapshot
    <2>7. QED
      BY <2>1, <2>2, <2>3, <2>4, <2>5, <2>6 DEF Next, CommitStep, MergeStep
  <1>2. QED
    BY <1>1, Invariance, PTL DEF Spec, ReceivedHistoryKept

-----------------------------------------------------------------------------
(* No local edit is in a tree, ours or a first parent's, without being in  *)
(* the history of that commit: HEAD's first parent, which an integration   *)
(* takes for the tree before the push, has no unsaved edit.                *)
Recorded(c) == (c.tree \cup c.first) \cap Local \subseteq c.hist

CommitsAreRecorded ==
    /\ Recorded(head) /\ Recorded(fetched.tip)
    /\ Recorded(job.saw) /\ Recorded(job.peer.tip)

LEMMA RecordedAfterReceive ==
  ASSUME IInv, CommitsAreRecorded, NEW h \in Handlers, Receive(h)
  PROVE  Recorded(head')
  <1>1. PICK S \in SUBSET (Peer \ head.hist) \ {{}} : \E first \in FirstParents(S) :
            head' = [tree |-> head.tree \cup S, first |-> first,
                     hist |-> head.hist \cup S]
    BY DEF Receive
  <1>2. PICK first \in FirstParents(S) :
            head' = [tree |-> head.tree \cup S, first |-> first,
                     hist |-> head.hist \cup S]
    BY <1>1
  <1>3. first \cap Local \subseteq head.tree
    BY <1>1, <1>2, EditAssumption DEF FirstParents
  <1>4. S \cap Local = {}
    BY EditAssumption
  <1>5. QED
    BY <1>2, <1>3, <1>4 DEF CommitsAreRecorded, Recorded

LEMMA RecordedAfterFetch ==
  ASSUME IInv, CommitsAreRecorded, FetchPeer
  PROVE  Recorded(fetched'.tip)
  <1>1. PICK S \in SUBSET (Peer \ head.hist) \ {{}}, fork \in {head, Root} :
          fetched' = [tip |-> [tree |-> fork.tree \cup S, first |-> fork.tree,
                               hist |-> fork.hist \cup S],
                      fork |-> fork]
    BY DEF FetchPeer
  <1>2. Recorded(fork)
    BY <1>1 DEF CommitsAreRecorded, Recorded, Root
  <1>3. S \cap Local = {}
    BY EditAssumption
  <1>4. QED
    BY <1>1, <1>2, <1>3 DEF Recorded

LEMMA RecordedAfterJob ==
  ASSUME IInv, CommitsAreRecorded, CommitStep \/ MergeStep
  PROVE  Recorded(head') /\ Recorded(job'.saw) /\ Recorded(job'.peer.tip)
  <1> USE DEF CommitsAreRecorded
  <1>1. Recorded(NoJob.saw) /\ Recorded(NoJob.peer.tip)
    BY DEF NoJob, NoPeer, NoCommit, Recorded
  <1>2. ASSUME job' = NoJob \/ UNCHANGED <<job.saw, job.peer>>
        PROVE  Recorded(job'.saw) /\ Recorded(job'.peer.tip)
    BY <1>1, <1>2
  <1>3. ASSUME NEW ok \in BOOLEAN
        PROVE  \/ AfterCommitStep(ok) = NoJob
               \/ AfterCommitStep(ok).saw = job.saw /\ AfterCommitStep(ok).peer = job.peer
    BY DEF AfterCommitStep, IInv, TypeOK, Jobs
  <1>4. CASE StageAll \/ CommitFails
    BY <1>2, <1>3, <1>4 DEF StageAll, CommitFails, IInv, TypeOK, Jobs
  <1>5. CASE ReadParent
    BY <1>5 DEF ReadParent, IInv, TypeOK, Jobs
  <1>6. CASE SwapHead
    <2>1. Recorded(head')
      BY <1>6 DEF SwapHead, Recorded
    <2>2. QED
      BY <1>2, <1>3, <1>6, <2>1 DEF SwapHead, HeadUnmoved
  <1>7. CASE Compare
    BY <1>1, <1>7 DEF Compare, IInv, TypeOK, Jobs
  <1>8. CASE FastForward
    BY <1>2, <1>8 DEF FastForward, IInv, TypeOK, Jobs
  <1>9. CASE ForwardReset \/ MergeWrite
    BY <1>2, <1>9 DEF ForwardReset, MergeWrite, IInv, TypeOK, Jobs
  <1>10. CASE MergePoint
    <2>1. Recorded(head')
      BY <1>10 DEF MergePoint, Recorded
    <2>2. QED
      BY <1>2, <1>10, <2>1 DEF MergePoint, IInv, TypeOK, Jobs
  <1>11. CASE ReapplySnapshot
    BY <1>1, <1>11 DEF ReapplySnapshot, NoJob
  <1>12. QED
    BY <1>4, <1>5, <1>6, <1>7, <1>8, <1>9, <1>10, <1>11 DEF CommitStep, MergeStep

LEMMA RecordedPreserved ==
  ASSUME IInv, CommitsAreRecorded, [Next]_vars PROVE CommitsAreRecorded'
  <1> USE DEF CommitsAreRecorded
  <1>1. Recorded(NoJob.saw) /\ Recorded(NoJob.peer.tip) /\ Recorded(NoPeer.tip)
    BY DEF NoJob, NoPeer, NoCommit, Recorded
  <1>2. CASE UNCHANGED vars
    BY <1>2 DEF vars
  <1>3. CASE \E h \in Handlers : Receive(h)
    BY <1>3, RecordedAfterReceive DEF Receive
  <1>4. CASE DrainPendingResets \/ UserStep \/ \E t \in Threads : ResetStep(t)
    BY <1>4 DEF DrainPendingResets, UserStep, OpenWrite, AtomicFinalize, TokenAges,
       WriteFails, ResetStep, GuardYoungToken, ResetUnderLock, ResetTimeout
  <1>5. CASE FetchPeer
    BY <1>5, RecordedAfterFetch DEF FetchPeer
  <1>6. CASE BeginCommit \/ BeginMerge
    <2>1. job'.saw = NoJob.saw /\ (job'.peer = NoJob.peer \/ job'.peer = fetched)
      BY <1>6 DEF BeginCommit, BeginMerge, NoJob
    <2>2. QED
      BY <1>1, <1>6, <2>1 DEF BeginCommit, BeginMerge
  <1>7. CASE DropFetched \/ Crash
    BY <1>1, <1>7 DEF DropFetched, Crash
  <1>8. CASE CommitStep \/ MergeStep
    <2>1. UNCHANGED fetched
      BY <1>8 DEF CommitStep, StageAll, ReadParent, SwapHead, CommitFails, MergeStep,
         Compare, FastForward, ForwardReset, MergeWrite, MergePoint, ReapplySnapshot
    <2>2. QED
      BY <1>8, <2>1, RecordedAfterJob
  <1>9. QED
    BY <1>2, <1>3, <1>4, <1>5, <1>6, <1>7, <1>8 DEF Next

(* Every local edit a commit shows, or its first parent shows, is in its   *)
(* history, for HEAD, the HEAD a job has read and the heads fetched.       *)
THEOREM TreesInHistory == Spec => []CommitsAreRecorded
  <1>1. Init => CommitsAreRecorded
    BY DEF Init, Root, CommitsAreRecorded, Recorded, NoJob, NoPeer, NoCommit
  <1>2. IInv /\ CommitsAreRecorded /\ [Next]_vars => CommitsAreRecorded'
    BY RecordedPreserved
  <1>3. QED
    BY <1>1, <1>2, Invariance, PTL DEF Spec

(* What commit_repo tells its caller is true: when it has committed, or    *)
(* has found nothing to commit, every local edit that is on disk is in the *)
(* history, whatever was staged, failed or was received before.            *)
THEOREM CommitsSaveAll == Spec => CommitSavesAll
  <1>1. ASSUME StagedIsOnDisk, CommitsAreRecorded, [Next]_vars
        PROVE  [(StageAll /\ ~HasStaged(wt)) \/ (SwapHead /\ HeadUnmoved)
                  => wt \cap Local \subseteq head'.hist]_vars
    <2>1. ASSUME StageAll, ~HasStaged(wt) PROVE wt \cap Local \subseteq head'.hist
      BY <1>1, <2>1 DEF StageAll, HasStaged, CommitsAreRecorded, Recorded
    <2>2. ASSUME SwapHead, HeadUnmoved PROVE wt \cap Local \subseteq head'.hist
      BY <1>1, <2>2 DEF SwapHead, StagedIsOnDisk, Committing
    <2>3. QED
      BY <2>1, <2>2
  <1>2. QED
    BY <1>1, StagedInvariance, TreesInHistory, PTL DEF Spec, CommitSavesAll

-----------------------------------------------------------------------------
(* The two ways a reset takes, for an edit that neither HEAD's tree nor    *)
(* the tree taken for its parent's has.                                    *)

LEMMA IntegrateKeeps ==
  ASSUME NEW w, NEW b, NEW h, NEW e \in Edits, e \in w, e \notin b
  PROVE  e \in Integrate(w, b, h)
  BY DEF Integrate, FromFiles, In, LiftMerge

LEMMA HardResetKeeps ==
  ASSUME NEW i, NEW w, NEW t, NEW e \in Edits, e \in w, e \notin i,
         Unstaged(i, w) = {}, Tracked(i, FileOf[e]) \/ In(t, FileOf[e]) = {}
  PROVE  e \in HardReset(i, w, t)
  <1>1. FileOf[e] \in Files
    BY FileAssumption
  <1>2. ~Tracked(i, FileOf[e])
    BY <1>1 DEF Unstaged, In
  <1>3. e \in In(w, FileOf[e])
    BY DEF In
  <1>4. QED
    BY <1>2, <1>3 DEF HardReset, FromFiles

LEMMA ResetSpares ==
  ASSUME IInv, CommitsAreRecorded, ResetOrIntegrate, NEW e \in Unsaved
  PROVE  e \in wt'
  <1>1. e \in Edits /\ e \in Local
    BY SeedIsTree DEF Unsaved, IInv, TypeOK
  <1>2. e \in wt /\ e \notin index /\ e \notin head.first
    BY <1>1 DEF Unsaved, CommitsAreRecorded, Recorded
  <1>3. CASE MustIntegrate
    BY <1>1, <1>2, <1>3, IntegrateKeeps DEF ResetOrIntegrate
  <1>4. CASE ~MustIntegrate
    <2>1. wt' = HardReset(index, wt, head.tree)
      BY <1>4 DEF ResetOrIntegrate
    <2>2. Tracked(index, FileOf[e]) \/ In(head.tree, FileOf[e]) = {}
      BY DEF Unsaved
    <2>3. QED
      BY <1>1, <1>2, <1>4, <2>1, <2>2, HardResetKeeps DEF MustIntegrate
  <1>5. QED
    BY <1>3, <1>4

LEMMA UserSpares ==
  ASSUME IInv, UserStep, NEW e \in Unsaved
  PROVE  e \in wt' \/ WrittenOver(e)
  <1>1. CASE TokenAges \/ WriteFails \/ \E new \in Local : OpenWrite(new)
    BY <1>1 DEF TokenAges, WriteFails, OpenWrite, Unsaved
  <1>2. ASSUME NEW new \in Local, AtomicFinalize(new) PROVE e \in wt' \/ WrittenOver(e)
    <2>1. e \in wt' \/ (FileOf[e] = FileOf[new] /\ e \notin token.content)
      BY <1>2 DEF AtomicFinalize, Unsaved, In
    <2>2. QED
      BY <1>2, <2>1 DEF WrittenOver
  <1>3. QED
    BY <1>1, <1>2 DEF UserStep

(* A confirmed edit that no commit step has staged survives every step but *)
(* a client's own write of its file and the reset a commit absorbs.        *)
THEOREM UnsavedWorkSurvives == Spec => UnstagedSurvives
  <1>1. ASSUME IInv, StagedIsOnDisk, CommitsAreRecorded, [Next]_vars
        PROVE  [\A e \in Unsaved :
                   e \in wt' \/ WrittenOver(e) \/ (BeginCommit /\ queued)]_vars
    <2>1. SUFFICES ASSUME Next, NEW e \in Unsaved, ~WrittenOver(e), ~(BeginCommit /\ queued)
                   PROVE  e \in wt'
      BY <1>1
    <2>2. e \in wt /\ e \notin index
      BY DEF Unsaved
    <2>3. ASSUME UNCHANGED wt PROVE e \in wt'
      BY <2>2, <2>3
    <2>4. CASE \E h \in Handlers : Receive(h)
      BY <2>3, <2>4 DEF Receive
    <2>5. CASE \E t \in Threads : ResetStep(t)
      BY <1>1, <2>3, <2>5, ResetSpares
      DEF ResetStep, GuardYoungToken, ResetTimeout, ResetUnderLock
    <2>6. CASE UserStep
      BY <1>1, <2>1, <2>6, UserSpares
    <2>7. CASE BeginCommit
      BY <2>1, <2>3, <2>7 DEF BeginCommit
    <2>8. CASE CommitStep \/ DrainPendingResets \/ FetchPeer \/ BeginMerge
               \/ DropFetched \/ Crash
      BY <2>3, <2>8 DEF CommitStep, StageAll, ReadParent, SwapHead, CommitFails,
         DrainPendingResets, FetchPeer, BeginMerge, DropFetched, Crash
    <2>9. CASE MergeStep
      <3>1. CASE Compare \/ FastForward \/ MergePoint
        BY <2>3, <3>1 DEF Compare, FastForward, MergePoint
      <3>2. CASE ForwardReset
        BY <1>1, <2>3, <3>2, ResetSpares DEF ForwardReset
      <3>3. CASE MergeWrite \/ ReapplySnapshot
        BY <1>1, <2>2, <3>3 DEF MergeWrite, ReapplySnapshot, StagedIsOnDisk, Committing
      <3>4. QED
        BY <2>9, <3>1, <3>2, <3>3 DEF MergeStep
    <2>10. QED
      BY <2>1, <2>4, <2>5, <2>6, <2>7, <2>8, <2>9 DEF Next
  <1>2. QED
    BY <1>1, Invariance, StagedInvariance, TreesInHistory, PTL DEF Spec, UnstagedSurvives

-----------------------------------------------------------------------------
(* What a reset, an integration and a merge bring to the working tree.     *)

LEMMA IntegrateTakes ==
  ASSUME NEW w, NEW b, NEW h, NEW e \in Edits, e \in h, e \notin b, FileOf[e] \in LiftFiles
  PROVE  e \in Integrate(w, b, h)
  <1> DEFINE f == FileOf[e]
  <1>1. e \in In(h, f) /\ e \notin In(b, f)
    BY DEF In
  <1>2. In(h, f) # In(b, f) /\ In(h, f) # {}
    BY <1>1
  <1>3. e \in LiftMerge(In(b, f), In(w, f), In(h, f))
    BY <1>1 DEF LiftMerge
  <1>4. QED
    BY <1>1, <1>2, <1>3 DEF Integrate, FromFiles

LEMMA HardResetTakes ==
  ASSUME NEW i, NEW w, NEW t, NEW e \in Edits, e \in t
  PROVE  e \in HardReset(i, w, t)
  <1>1. e \in In(t, FileOf[e])
    BY DEF In
  <1>2. QED
    BY <1>1 DEF HardReset, FromFiles

LEMMA ResetTakes ==
  ASSUME IInv, ResetOrIntegrate, NEW e \in head.tree \ head.first, FileOf[e] \in LiftFiles
  PROVE  e \in wt'
  <1>1. e \in Edits
    BY DEF IInv, TypeOK, Commits, Trees
  <1>2. QED
    BY <1>1, IntegrateTakes, HardResetTakes DEF ResetOrIntegrate

(* The latest commit of the branch gets to the working tree, whichever way *)
(* a reset goes and whatever is on disk: an addition to a LIFT file is not *)
(* kept out by what the user has written into the same file.               *)
THEOREM LastCommitTaken == Spec => LastCommitIsTaken
  <1>1. IInv /\ [Next]_vars
        => [(\E t \in Threads : ResetUnderLock(t)) \/ (ForwardReset /\ ~token.young)
               => \A e \in head.tree \ head.first : FileOf[e] \in LiftFiles => e \in wt']_vars
    BY ResetTakes DEF ResetUnderLock, ForwardReset
  <1>2. QED
    BY <1>1, Invariance, PTL DEF Spec, LastCommitIsTaken

(* One file: what one side alone has, and what ours has added.             *)
LEMMA MergeFileTakes ==
  ASSUME NEW f, NEW b, NEW o, NEW t, NEW e, e \notin b
  PROVE  /\ e \in o => e \in MergeFile(f, b, o, t)
         /\ f \in LiftFiles /\ e \in t => e \in MergeFile(f, b, o, t)
  <1>1. CASE f \in LiftFiles /\ BothChanged(b, o, t)
    BY <1>1 DEF MergeFile, LiftMerge
  <1>2. CASE ~(f \in LiftFiles /\ BothChanged(b, o, t)) /\ (o = b \/ (o = {} /\ t # b))
    BY <1>2 DEF MergeFile
  <1>3. CASE ~(f \in LiftFiles /\ BothChanged(b, o, t)) /\ ~(o = b \/ (o = {} /\ t # b))
    <2>1. MergeFile(f, b, o, t) = o
      BY <1>3 DEF MergeFile
    <2>2. f \in LiftFiles /\ e \in t => o = t
      BY <1>3 DEF BothChanged
    <2>3. QED
      BY <2>1, <2>2
  <1>4. QED
    BY <1>1, <1>2, <1>3

LEMMA MergeTakes ==
  ASSUME NEW w, NEW b, NEW o, NEW t, NEW e \in Edits, e \notin b,
         e \in o \cap w \/ (e \in t \ o /\ FileOf[e] \in LiftFiles)
  PROVE  e \in MergeIntoTree(w, b, o, t)
  <1> DEFINE f == FileOf[e]
             merged == MergeFile(f, In(b, f), In(o, f), In(t, f))
  <1>1. e \notin In(b, f) /\ (e \in In(o, f) \/ (f \in LiftFiles /\ e \in In(t, f)))
    BY DEF In
  <1>2. e \in merged
    BY <1>1, MergeFileTakes
  <1>3. merged = In(o, f) => e \in In(w, f)
    BY <1>2 DEF In
  <1>4. QED
    BY <1>2, <1>3 DEF MergeIntoTree, FromFiles

(* No merge drops what either side has added, as far as it can be on disk. *)
THEOREM BothSidesMerged == Spec => BothSidesAreMerged
  <1>1. ASSUME IInv, MergeWrite
        PROVE  /\ \A e \in job.peer.tip.tree \ (MergeBase \cup job.saw.tree) :
                     FileOf[e] \in LiftFiles => e \in wt'
               /\ \A e \in (job.saw.tree \cap wt) \ MergeBase : e \in wt'
    <2>1. wt' = MergeIntoTree(wt, MergeBase, job.saw.tree, job.peer.tip.tree)
      BY <1>1 DEF MergeWrite
    <2>2. wt \subseteq Edits /\ job.peer.tip.tree \subseteq Edits
      BY <1>1 DEF IInv, TypeOK, Jobs, Commits, Trees
    <2>3. QED
      BY <2>1, <2>2, MergeTakes
  <1>2. IInv /\ [Next]_vars
        => [MergeWrite =>
               /\ \A e \in job.peer.tip.tree \ (MergeBase \cup job.saw.tree) :
                     FileOf[e] \in LiftFiles => e \in wt'
               /\ \A e \in (job.saw.tree \cap wt) \ MergeBase : e \in wt']_vars
    BY <1>1
  <1>3. QED
    BY <1>2, Invariance, PTL DEF Spec, BothSidesAreMerged

(* Two devices that merge the same heads, each as its own side, get a file *)
(* with the same edits, unless both have changed it and it is not merged   *)
(* by entry.  (For the order of what they get see LanFanOut.)              *)
THEOREM MergeIsSymmetric ==
  ASSUME NEW f, NEW b, NEW o, NEW t, f \in LiftFiles \/ ~BothChanged(b, o, t)
  PROVE  MergeFile(f, b, o, t) = MergeFile(f, b, t, o)
  <1>1. BothChanged(b, o, t) <=> BothChanged(b, t, o)
    BY DEF BothChanged
  <1>2. CASE BothChanged(b, o, t)
    BY <1>1, <1>2 DEF MergeFile, LiftMerge
  <1>3. CASE ~BothChanged(b, o, t)
    <2>1. o = {} \/ t = {} \/ o = t \/ b = o \/ b = t
      BY <1>3 DEF BothChanged
    <2>2. QED
      BY <1>1, <1>3, <2>1 DEF MergeFile
  <1>4. QED
    BY <1>2, <1>3
=============================================================================
