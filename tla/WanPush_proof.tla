---------------------------- MODULE WanPush_proof ---------------------------
(***************************************************************************)
(* The safety of one push (WanPush), for any edits, capacity and bound:    *)
(* the branch is written without a compare at several places, and what     *)
(* makes this safe for the edits of this device is what each place knows   *)
(* of local_sha.                                                           *)
(***************************************************************************)
EXTENDS WanPush, TLAPS

(* Places at which local_sha was read under the lock.                      *)
LocalRead == {"merge", "route", "review", "set", "promote", "delete", "direct"}
(* Places at which local_sha means nothing yet.                            *)
LocalUnread == {"idle", "lock", "fetch", "read"}

HeldWhere ==
    /\ at \in LocalRead \cup {"fetch", "read"} => held
    /\ at \in {"idle", "lock"} => ~held

(* What was read is still on the branch; what the branch has of our own    *)
(* was read.                                                               *)
LocalIsBehind == at \notin LocalUnread => local \subseteq branch
OwnWasRead == (held /\ at \notin LocalUnread) => branch \cap Own \subseteq local

(* The topic branch and its mirror have nothing that the branch lacks, nor *)
(* the head that is pushed.                                                *)
TopicBehind ==
    /\ topic # NoRef => topic \subseteq branch
    /\ topicMirror # NoRef => topicMirror \subseteq branch
TopicBehindLocal ==
    at \notin LocalUnread =>
        /\ topic # NoRef => topic \subseteq local
        /\ topicMirror # NoRef => topicMirror \subseteq local

(* What the push was to bring is in what it pushes, and at the end on main. *)
WantedIsPushed ==
    /\ at \notin LocalUnread => wanted \subseteq local
    /\ at \in {"lock", "fetch", "read"} => wanted \subseteq branch
    /\ at = "delete" => wanted \subseteq main

(* The invariant but for the types.                                        *)
Bounds ==
    /\ HeldWhere /\ LocalIsBehind /\ OwnWasRead
    /\ TopicBehind /\ TopicBehindLocal /\ WantedIsPushed
    /\ PushedIsOnHost /\ MirrorNotAhead /\ TopicIsOurs

IInv == TypeOK /\ Bounds

-----------------------------------------------------------------------------
(* A chunk is a part of what is pushed, and a commit if that is one.       *)
LEMMA BetweenIsPart ==
    ASSUME NEW b, NEW t \in Commits, objects \in SUBSET Commits, NEW c \in Between(b, t)
    PROVE  c \subseteq t /\ c \in Commits
  BY DEF Between

(* No commit is the branch that does not exist.                            *)
LEMMA NoRefIsNoCommit == \A c \in Commits : c # NoRef
  BY EditAssumption DEF Commits, NoRef

(* Heads are made of heads and edits.                                      *)
LEMMA CommitsAreClosed ==
    /\ {} \in Commits
    /\ \A a, b \in Commits : a \cup b \in Commits
    /\ \A a \in Commits, e \in Edits : a \cup {e} \in Commits
    /\ \A a \in Commits : \A b \in SUBSET a : b \in Commits
  BY DEF Commits

LEMMA InitInv == Init => IInv
<1> SUFFICES ASSUME Init PROVE IInv
  OBVIOUS
<1>1. 0 \in 0..MaxPromotes
  BY BoundAssumption
<1>2. objects \in SUBSET Commits /\ sides \in SUBSET Commits
  BY CommitsAreClosed DEF Init
<1>3. TypeOK
  BY <1>1, <1>2, CommitsAreClosed DEF Init, TypeOK, Places, Results
<1> QED
  BY <1>3 DEF Init, IInv, Bounds, HeldWhere, LocalRead, LocalUnread, LocalIsBehind, OwnWasRead,
     TopicBehind, TopicBehindLocal, WantedIsPushed, PushedIsOnHost, MirrorNotAhead, TopicIsOurs

(* The bound on tries lets a push begin and try once more.                 *)
LEMMA Tries ==
    /\ 0 \in 0..MaxPromotes
    /\ tries \in 0..MaxPromotes /\ tries < MaxPromotes => tries + 1 \in 0..MaxPromotes
  BY BoundAssumption

(* What is said to be pushed next is a part of the head.                   *)
LEMMA ChunkIsPart ==
    ASSUME TypeOK, NEW b
    PROVE  \A c \in Between(b, local) : c \subseteq local /\ c \in Commits
  BY BetweenIsPart DEF TypeOK

(* Every step keeps the types.                                             *)
LEMMA TypeStep == IInv /\ [Next]_vars => TypeOK'
<1> SUFFICES ASSUME IInv, [Next]_vars PROVE TypeOK'
  OBVIOUS
<1> USE DEF vars, host, project, mirrors, push, IInv, TypeOK, Places, Results
<1>1. CASE StartPush
  BY <1>1, CommitsAreClosed, Tries DEF StartPush
<1>2. CASE EnterUpload
  BY <1>2, CommitsAreClosed, Tries DEF EnterUpload, Sweep, EndUpload, AfterUpload, Return
<1>3. CASE PushChunk
  BY <1>3, ChunkIsPart DEF PushChunk, TakesChunk, AfterUpload
<1>4. CASE ChunkCutOff
  <2>1. topic' \in Commits
    BY <1>4, ChunkIsPart DEF ChunkCutOff
  <2> QED
    BY <1>4, <2>1, CommitsAreClosed, Tries DEF ChunkCutOff, EndUpload, Return
<1>5. CASE ChunkDiverged
  BY <1>5, CommitsAreClosed, Tries DEF ChunkDiverged, EndUpload, AfterUpload, Return
<1>6. CASE BankSide
  BY <1>6, CommitsAreClosed, Tries DEF BankSide
<1>7. CASE Preseed
  <2>1. PICK c \in Between(Base, local) : \E b \in SUBSET (c \ OnHost) : seeds' = seeds \cup b
    BY <1>7 DEF Preseed
  <2>2. PICK b \in SUBSET (c \ OnHost) : seeds' = seeds \cup b
    BY <2>1
  <2>3. c \in Commits /\ b \in SUBSET c
    BY <2>1, <2>2, ChunkIsPart
  <2>4. seeds' \in Commits
    BY <2>2, <2>3, CommitsAreClosed
  <2> QED
    BY <1>7, <2>4 DEF Preseed
<1>8. CASE UploadFails
  BY <1>8, CommitsAreClosed, Tries DEF UploadFails, EndUpload, Return
<1>9. CASE TakeLock
  BY <1>9, CommitsAreClosed, Tries DEF TakeLock
<1>10. CASE LockBusy
  BY <1>10, CommitsAreClosed, Tries DEF LockBusy, Return
<1>11. CASE Fetch
  BY <1>11, CommitsAreClosed, Tries DEF Fetch, FetchOrigin, Having
<1>12. CASE FetchFails
  BY <1>12, CommitsAreClosed, Tries DEF FetchFails, Return
<1>13. CASE ReadRefs
  BY <1>13, CommitsAreClosed, Tries DEF ReadRefs, DeleteTopic
<1>14. CASE FastForward
  BY <1>14, CommitsAreClosed, Tries DEF FastForward
<1>15. CASE NoMerge
  BY <1>15, CommitsAreClosed, Tries DEF NoMerge
<1>16. CASE Merge
  <2>1. local \cup remote \in Commits /\ disk \cup local \cup remote \in Commits
    BY CommitsAreClosed
  <2>2. objects' \in SUBSET Commits
    BY <1>16, <2>1 DEF Merge, MergeWith
  <2> QED
    BY <1>16, <2>1, <2>2 DEF Merge, MergeWith
<1>17. CASE MergeFails
  BY <1>17, CommitsAreClosed, Tries DEF MergeFails, Return
<1>18. CASE Route
  BY <1>18, CommitsAreClosed, Tries DEF Route
<1>19. CASE Review
  <2>1. mirror' \in Commits /\ topicMirror' \in Commits \cup {NoRef}
    BY <1>19 DEF Review, FetchOrigin
  <2>2. tries + 1 \in 0..MaxPromotes
    BY <1>19, Tries DEF Review, MayPromote
  <2>3. local \cup mirror' \in Commits
    BY <2>1, CommitsAreClosed
  <2>4. CASE mirror' \subseteq local /\ at' = "set" /\ remote' = mirror' /\ tries' = tries + 1
             /\ objects' = Having(mirror') /\ UNCHANGED <<branch, disk, held, local, wanted, result>>
    BY <1>19, <2>1, <2>2, <2>4 DEF Review, Having
  <2>5. CASE branch' = mirror' /\ objects' = Having(mirror') /\ disk' = disk /\ Return("PULLED")
    BY <1>19, <2>1, <2>5, Tries, CommitsAreClosed DEF Review, Having, Return
  <2>6. CASE MergeWith(mirror') /\ at' = "set" /\ remote' = mirror' /\ tries' = tries + 1
             /\ UNCHANGED <<held, wanted, result>>
    <3>1. disk \cup local \cup mirror' \in Commits
      BY <2>1, CommitsAreClosed
    <3> QED
      BY <1>19, <2>1, <2>2, <2>3, <2>6, <3>1 DEF Review, MergeWith
  <2> QED
    BY <1>19, <2>4, <2>5, <2>6 DEF Review
<1>20. CASE ReviewFails
  BY <1>20, CommitsAreClosed, Tries DEF ReviewFails, Return
<1>21. CASE SetBranch
  BY <1>21, CommitsAreClosed, Tries DEF SetBranch
<1>22. CASE Promote
  BY <1>22, CommitsAreClosed, Tries DEF Promote, TakesBranch
<1>23. CASE PromoteRefused
  BY <1>23, CommitsAreClosed, Tries DEF PromoteRefused
<1>24. CASE PromoteFails
  BY <1>24, CommitsAreClosed, Tries DEF PromoteFails, TakesBranch, Return
<1>25. CASE Delete
  BY <1>25, CommitsAreClosed, Tries DEF Delete, DeleteTopic, Return
<1>26. CASE DirectPush
  <2>1. PICK c \in Between(remote, local) :
             /\ main' = Sent(c) /\ mirror' = c
             /\ IF c = local THEN Return("PUSHED")
                ELSE remote' = c /\ UNCHANGED <<at, held, local, tries, wanted, result>>
    BY <1>26 DEF DirectPush
  <2>2. c \in Commits /\ main' \in Commits
    BY <2>1, ChunkIsPart DEF Sent
  <2> QED
    BY <1>26, <2>1, <2>2, CommitsAreClosed, Tries DEF DirectPush, Return
<1>27. CASE DirectCutOff
  BY <1>27, ChunkIsPart DEF DirectCutOff, Takes, Sent
<1>28. CASE DirectReconcile
  <2>1. /\ mirror' \in Commits /\ topicMirror' \in Commits \cup {NoRef}
        /\ local \cup main \in Commits /\ disk \cup main \in Commits
        /\ disk \cup local \cup main \in Commits
    BY <1>28, CommitsAreClosed DEF DirectReconcile
  <2>2. CASE MergeWith(main) /\ remote' = main /\ UNCHANGED <<at, held, tries, wanted, result>>
    BY <1>28, <2>1, <2>2 DEF DirectReconcile, MergeWith
  <2>3. CASE Return("PUSHED") /\ objects' = Having(main)
             /\ (UNCHANGED <<branch, disk>> \/ (branch' = main /\ disk' = disk \cup main))
    BY <1>28, <2>1, <2>3, CommitsAreClosed, Tries DEF DirectReconcile, Return, Having
  <2>4. CASE remote' = main /\ objects' = Having(main) /\ UNCHANGED <<branch, disk>>
             /\ UNCHANGED <<at, held, local, tries, wanted, result>>
    BY <1>28, <2>1, <2>4 DEF DirectReconcile, Having
  <2> QED
    BY <1>28, <2>2, <2>3, <2>4 DEF DirectReconcile
<1>29. CASE DirectFails
  BY <1>29, CommitsAreClosed, Tries DEF DirectFails, Return
<1>30. CASE Commit
  <2>1. PICK e \in Own : branch' = branch \cup {e} /\ disk' = disk \cup {e}
                         /\ objects' = Having(branch \cup {e})
    BY <1>30 DEF Commit
  <2>2. branch' \in Commits /\ disk' \in Commits
    BY <2>1, CommitsAreClosed DEF Edits
  <2>3. objects' \in SUBSET Commits
    BY <2>1, <2>2 DEF Having
  <2> QED
    BY <1>30, <2>2, <2>3 DEF Commit
<1>31. CASE Receive
  <2>1. PICK e \in Lan : branch' = branch \cup {e} /\ disk' = disk \cup {e}
                         /\ objects' = Having(branch \cup {e})
    BY <1>31 DEF Receive
  <2>2. branch' \in Commits /\ disk' \in Commits
    BY <2>1, CommitsAreClosed DEF Edits
  <2>3. objects' \in SUBSET Commits
    BY <2>1, <2>2 DEF Having
  <2> QED
    BY <1>31, <2>2, <2>3 DEF Receive
<1>32. CASE OtherPushes
  <2>1. PICK c \in objects, es \in SUBSET Foreign : main' = main \cup c \cup es
    BY <1>32 DEF OtherPushes
  <2>2. c \in Commits /\ es \in Commits
    BY <2>1 DEF Commits, Edits
  <2>3. main' \in Commits
    BY <2>1, <2>2, CommitsAreClosed
  <2> QED
    BY <1>32, <2>3 DEF OtherPushes
<1>33. CASE Crash
  BY <1>33, CommitsAreClosed, Tries DEF Crash, Return
<1>34. CASE UNCHANGED vars
  BY <1>34
<1> QED
  BY <1>1, <1>2, <1>3, <1>4, <1>5, <1>6, <1>7, <1>8, <1>9, <1>10, <1>11, <1>12, <1>13, <1>14, <1>15, <1>16, <1>17, <1>18, <1>19, <1>20, <1>21, <1>22, <1>23, <1>24, <1>25, <1>26, <1>27, <1>28, <1>29, <1>30, <1>31, <1>32, <1>33, <1>34 DEF Next, Upload, Locked, Promotion, Direct

(* Every step keeps the rest of the invariant.                             *)
LEMMA BoundsStep == IInv /\ [Next]_vars => Bounds'
<1> SUFFICES ASSUME IInv, [Next]_vars PROVE Bounds'
  OBVIOUS
<1> USE DEF vars, host, project, mirrors, push, TypeOK, IInv, Bounds, HeldWhere, LocalRead, LocalUnread,
    LocalIsBehind, OwnWasRead, TopicBehind, TopicBehindLocal, WantedIsPushed,
    PushedIsOnHost, MirrorNotAhead, TopicIsOurs
<1>1. CASE StartPush
  BY <1>1, NoRefIsNoCommit DEF StartPush
<1>2. CASE EnterUpload
  BY <1>2, NoRefIsNoCommit DEF EnterUpload, Sweep, EndUpload, AfterUpload, Return
<1>3. CASE PushChunk
  BY <1>3, ChunkIsPart, NoRefIsNoCommit DEF PushChunk, TakesChunk, AfterUpload
<1>4. CASE ChunkCutOff
  BY <1>4, ChunkIsPart, NoRefIsNoCommit DEF ChunkCutOff, TakesChunk, EndUpload, Return
<1>5. CASE ChunkDiverged
  BY <1>5, NoRefIsNoCommit DEF ChunkDiverged, EndUpload, AfterUpload, Return
<1>6. CASE BankSide
  BY <1>6, NoRefIsNoCommit DEF BankSide
<1>7. CASE Preseed
  BY <1>7, NoRefIsNoCommit DEF Preseed, OnHost
<1>8. CASE UploadFails
  BY <1>8, NoRefIsNoCommit DEF UploadFails, EndUpload, Return
<1>9. CASE TakeLock
  BY <1>9, NoRefIsNoCommit DEF TakeLock
<1>10. CASE LockBusy
  BY <1>10, NoRefIsNoCommit DEF LockBusy, Return
<1>11. CASE Fetch
  BY <1>11, NoRefIsNoCommit DEF Fetch, FetchOrigin, Having
<1>12. CASE FetchFails
  BY <1>12, NoRefIsNoCommit DEF FetchFails, Return
<1>13. CASE ReadRefs
  BY <1>13, NoRefIsNoCommit DEF ReadRefs, DeleteTopic
<1>14. CASE FastForward
  BY <1>14, NoRefIsNoCommit DEF FastForward
<1>15. CASE NoMerge
  BY <1>15, NoRefIsNoCommit DEF NoMerge
<1>16. CASE Merge
  BY <1>16, NoRefIsNoCommit DEF Merge, MergeWith
<1>17. CASE MergeFails
  BY <1>17, NoRefIsNoCommit DEF MergeFails, Return
<1>18. CASE Route
  BY <1>18, NoRefIsNoCommit DEF Route
<1>19. CASE Review
  <2>1. /\ mirror' \subseteq main' /\ topicMirror' \in {topicMirror, topic}
        /\ UNCHANGED <<main, topic>> /\ at = "review" /\ held
    BY <1>19 DEF Review, FetchOrigin
  <2>2. /\ topic # NoRef => topic \subseteq local
        /\ topicMirror' # NoRef => topicMirror' \subseteq local
        /\ wanted \subseteq local /\ local \subseteq branch /\ branch \cap Own \subseteq local
    BY <2>1
  <2>3. CASE at' = "set" /\ UNCHANGED <<branch, held, local, wanted, result>>
    BY <2>1, <2>2, <2>3
  <2>4. CASE local \subseteq mirror' /\ branch' = mirror' /\ Return("PULLED")
    BY <2>1, <2>2, <2>4 DEF Return
  <2>5. CASE MergeWith(mirror') /\ at' = "set" /\ UNCHANGED <<held, wanted, result>>
    BY <2>1, <2>2, <2>5 DEF MergeWith
  <2> QED
    BY <1>19, <2>3, <2>4, <2>5 DEF Review
<1>20. CASE ReviewFails
  BY <1>20, NoRefIsNoCommit DEF ReviewFails, Return
<1>21. CASE SetBranch
  BY <1>21, NoRefIsNoCommit DEF SetBranch
<1>22. CASE Promote
  BY <1>22, NoRefIsNoCommit DEF Promote, TakesBranch
<1>23. CASE PromoteRefused
  BY <1>23, NoRefIsNoCommit DEF PromoteRefused
<1>24. CASE PromoteFails
  BY <1>24, NoRefIsNoCommit DEF PromoteFails, TakesBranch, Return
<1>25. CASE Delete
  BY <1>25, NoRefIsNoCommit DEF Delete, DeleteTopic, Return
<1>26. CASE DirectPush
  BY <1>26, ChunkIsPart, NoRefIsNoCommit DEF DirectPush, Takes, Sent, Return
<1>27. CASE DirectCutOff
  BY <1>27, ChunkIsPart, NoRefIsNoCommit DEF DirectCutOff, Takes, Sent
<1>28. CASE DirectReconcile
  <2>1. /\ mirror' = main' /\ topicMirror' \in {topicMirror, topic}
        /\ UNCHANGED <<main, topic>> /\ at = "direct" /\ held
    BY <1>28 DEF DirectReconcile
  <2>2. /\ topic # NoRef => topic \subseteq local
        /\ topicMirror' # NoRef => topicMirror' \subseteq local
        /\ wanted \subseteq local /\ local \subseteq branch /\ branch \cap Own \subseteq local
    BY <2>1
  <2>3. CASE UNCHANGED <<at, held, local, wanted, result, branch>>
    BY <2>1, <2>2, <2>3
  <2>4. CASE local \subseteq main /\ Return("PUSHED") /\ branch' \in {branch, main}
    BY <2>1, <2>2, <2>4 DEF Return
  <2>5. CASE MergeWith(main) /\ UNCHANGED <<at, held, wanted, result>>
    BY <2>1, <2>2, <2>5 DEF MergeWith
  <2> QED
    BY <1>28, <2>3, <2>4, <2>5 DEF DirectReconcile
<1>29. CASE DirectFails
  BY <1>29, NoRefIsNoCommit DEF DirectFails, Return
<1>30. CASE Commit
  BY <1>30, EditAssumption DEF Commit, Having, LockIsFree
<1>31. CASE Receive
  BY <1>31, EditAssumption DEF Receive, Having
<1>32. CASE OtherPushes
  BY <1>32, NoRefIsNoCommit DEF OtherPushes
<1>33. CASE Crash
  BY <1>33, NoRefIsNoCommit DEF Crash, Return
<1>34. CASE UNCHANGED vars
  BY <1>34
<1> QED
  BY <1>1, <1>2, <1>3, <1>4, <1>5, <1>6, <1>7, <1>8, <1>9, <1>10, <1>11, <1>12, <1>13, <1>14, <1>15, <1>16, <1>17, <1>18, <1>19, <1>20, <1>21, <1>22, <1>23, <1>24, <1>25, <1>26, <1>27, <1>28, <1>29, <1>30, <1>31, <1>32, <1>33, <1>34 DEF Next, Upload, Locked, Promotion, Direct
-----------------------------------------------------------------------------
(* What holds in every state of a push.                                    *)
THEOREM Invariance == Spec => []IInv
<1>1. IInv /\ [Next]_vars => IInv'
  BY TypeStep, BoundsStep DEF IInv
<1> QED
  BY InitInv, <1>1, PTL DEF Spec

(* The state of a push is of its type: promotes are never tried more often *)
(* than MAX_PROMOTE_RETRIES says.                                          *)
THEOREM TypeCorrect == Spec => []TypeOK
  BY Invariance, PTL DEF IInv

(* PUSHED is said only when main has what the push began with.             *)
THEOREM PushedIsOnHostHolds == Spec => []PushedIsOnHost
  BY Invariance, PTL DEF IInv, Bounds

(* The mirror never shows as shared what the host does not have.           *)
THEOREM MirrorNotAheadHolds == Spec => []MirrorNotAhead
  BY Invariance, PTL DEF IInv, Bounds

(* A push meets no foreign topic branch under its own name.                *)
THEOREM TopicIsOursHolds == Spec => []TopicIsOurs
  BY Invariance, PTL DEF IInv, Bounds

(* No step of a push takes an edit of this device off its branch.          *)
LEMMA OwnWorkStep == IInv /\ [Next]_vars => branch \cap Own \subseteq branch'
<1> SUFFICES ASSUME IInv, [Next]_vars PROVE branch \cap Own \subseteq branch'
  OBVIOUS
<1>1. at \in LocalRead => held /\ branch \cap Own \subseteq local
  BY DEF IInv, Bounds, HeldWhere, OwnWasRead, LocalRead, LocalUnread
<1> USE DEF project, vars, LocalRead
<1>2. CASE FastForward \/ Merge \/ SetBranch
  BY <1>1, <1>2 DEF FastForward, Merge, SetBranch, MergeWith
<1>3. CASE Review
  BY <1>1, <1>3 DEF Review, MergeWith
<1>4. CASE DirectReconcile
  BY <1>1, <1>4 DEF DirectReconcile, MergeWith
<1>5. CASE Commit \/ Receive
  BY <1>5 DEF Commit, Receive
<1>6. CASE StartPush \/ Upload \/ OtherPushes \/ Crash \/ UNCHANGED vars
  BY <1>6 DEF StartPush, Upload, OtherPushes, Crash, EnterUpload, PushChunk, ChunkCutOff,
     ChunkDiverged, BankSide, Preseed, UploadFails
<1>7. CASE TakeLock \/ LockBusy \/ Fetch \/ FetchFails \/ ReadRefs \/ NoMerge \/ MergeFails \/ Route
  BY <1>7 DEF TakeLock, LockBusy, Fetch, FetchFails, ReadRefs, NoMerge, MergeFails, Route
<1>8. CASE ReviewFails \/ Promote \/ PromoteRefused \/ PromoteFails \/ Delete
           \/ DirectPush \/ DirectCutOff \/ DirectFails
  BY <1>8 DEF ReviewFails, Promote, PromoteRefused, PromoteFails, Delete,
     DirectPush, DirectCutOff, DirectFails
<1> QED
  BY <1>2, <1>3, <1>4, <1>5, <1>6, <1>7, <1>8 DEF Next, Locked, Promotion, Direct

(* What is committed on this device stays on its branch, though a push     *)
(* writes the branch without a compare and peers push to it meanwhile.     *)
THEOREM OwnWorkIsKept == Spec => OwnWorkKept
<1>1. IInv /\ [Next]_vars => [branch \cap Own \subseteq branch']_vars
  BY OwnWorkStep
<1> QED
  BY Invariance, <1>1, PTL DEF Spec, OwnWorkKept
-----------------------------------------------------------------------------
(* A push implements the sharing (EditSharing) of the device and the host. *)

(* What the project has of others' edits, the host has on main; what main  *)
(* or any commit has of this device's, the branch has.                     *)
Known ==
    /\ at = "merge" => remote \subseteq main
    /\ branch \cap Foreign \subseteq main /\ main \cap Own \subseteq branch
    /\ \A c \in objects : c \cap Foreign \subseteq main /\ c \cap Own \subseteq branch

(* What a step may do to the branch, to main and to the commits.           *)
Shares ==
    /\ main \subseteq main'
    /\ branch \cap Own \subseteq branch'
    /\ branch' = branch \/ main' = main
    /\ branch' \subseteq branch \cup main \cup Own \cup Lan
    /\ main' \subseteq main \cup branch \cup Foreign \cup Lan
    /\ \A c \in objects' : c \in objects \/ c \subseteq main \/ c \subseteq branch'
    /\ at' = "merge" => remote' \subseteq main'

LEMMA SharesStep == IInv /\ Known /\ [Next]_vars => Shares
<1> SUFFICES ASSUME IInv, Known, [Next]_vars PROVE Shares
  OBVIOUS
<1>1. branch \cap Own \subseteq branch'
  BY OwnWorkStep
<1>2. mirror \subseteq main /\ (at \in LocalRead => local \subseteq branch)
  BY DEF IInv, Bounds, MirrorNotAhead, LocalIsBehind, LocalRead, LocalUnread
<1> USE DEF Shares, project, host, push, vars
<1>3. CASE StartPush \/ Crash \/ UNCHANGED vars
  BY <1>1, <1>3 DEF StartPush, Crash, Return, Known
<1>4. CASE Upload
  <2>1. UNCHANGED <<main, project>> /\ at # "merge" /\ at' # "merge"
    BY <1>4 DEF Upload, EnterUpload, PushChunk, ChunkCutOff, ChunkDiverged, BankSide, Preseed,
       UploadFails, EndUpload, Return, AfterUpload
  <2> QED
    BY <1>1, <2>1
<1>5. CASE TakeLock \/ LockBusy \/ FetchFails \/ ReadRefs
  BY <1>1, <1>2, <1>5 DEF TakeLock, LockBusy, FetchFails, ReadRefs, Return
<1>6. CASE Fetch
  BY <1>1, <1>6 DEF Fetch, Having
<1>7. CASE NoMerge \/ MergeFails \/ Route
  BY <1>1, <1>7 DEF NoMerge, MergeFails, Route, Return
<1>8. CASE FastForward
  BY <1>1, <1>8 DEF FastForward, Known
<1>9. CASE Merge
  <2>1. local \subseteq branch /\ remote \subseteq main /\ branch' = local \cup remote
        /\ objects' = objects \cup {remote, branch'} /\ UNCHANGED main /\ at' = "route"
    BY <1>2, <1>9 DEF Merge, MergeWith, Known, LocalRead
  <2> QED
    BY <1>1, <2>1
<1>10. CASE Review
  <2>1. local \subseteq branch /\ UNCHANGED main /\ at' # "merge"
    <3>1. at = "review" /\ UNCHANGED main
      BY <1>10 DEF Review
    <3>2. at' \in {"set", "idle"}
      BY <1>10 DEF Review, Return
    <3> QED
      BY <1>2, <3>1, <3>2 DEF LocalRead
  <2>2. mirror' \in {main, mirror}
    BY <1>10 DEF Review, FetchOrigin, mirrors
  <2>3. mirror' \subseteq main
    BY <1>2, <2>2
  <2>4. CASE branch' \in {branch, mirror'} /\ objects' = Having(mirror')
    BY <1>1, <2>1, <2>3, <2>4 DEF Having
  <2>5. CASE MergeWith(mirror')
    BY <1>1, <2>1, <2>3, <2>5 DEF MergeWith
  <2> QED
    BY <1>10, <2>4, <2>5 DEF Review
<1>11. CASE SetBranch
  BY <1>1, <1>2, <1>11 DEF SetBranch, LocalRead
<1>12. CASE Promote \/ PromoteFails
  BY <1>1, <1>12 DEF Promote, PromoteFails, TakesBranch, Return
<1>13. CASE ReviewFails \/ PromoteRefused \/ Delete \/ DirectFails
  BY <1>1, <1>13 DEF ReviewFails, PromoteRefused, Delete, DirectFails, Return
<1>14. CASE DirectPush \/ DirectCutOff
  <2>1. at = "direct" /\ at' # "merge" /\ UNCHANGED project
    BY <1>14 DEF DirectPush, DirectCutOff, Return
  <2>2. PICK c \in Between(remote, local) : Takes(c) /\ main' = Sent(c)
    BY <1>14 DEF DirectPush, DirectCutOff
  <2>3. main \subseteq main' /\ main' \subseteq branch
    BY <1>2, <2>1, <2>2, ChunkIsPart DEF Takes, Sent, LocalRead, IInv
  <2> QED
    BY <1>1, <2>1, <2>3
<1>15. CASE DirectReconcile
  <2>1. local \subseteq branch /\ UNCHANGED main /\ at' # "merge"
    BY <1>2, <1>15 DEF DirectReconcile, LocalRead, Return
  <2>2. CASE branch' \in {branch, main} /\ objects' = Having(main)
    BY <1>1, <2>1, <2>2 DEF Having
  <2>3. CASE MergeWith(main)
    BY <1>1, <2>1, <2>3 DEF MergeWith
  <2> QED
    BY <1>15, <2>2, <2>3 DEF DirectReconcile
<1>16. CASE Commit
  BY <1>1, <1>16 DEF Commit, Having, Known
<1>17. CASE Receive
  BY <1>1, <1>17 DEF Receive, Having, Known
<1>18. CASE OtherPushes
  <2>1. PICK c \in objects, es \in SUBSET Foreign : main' = main \cup c \cup es
    BY <1>18 DEF OtherPushes
  <2>2. c \subseteq Own \cup Lan \cup Foreign
    BY DEF IInv, TypeOK, Commits, Edits
  <2>3. main' \subseteq main \cup branch \cup Foreign \cup Lan
    BY <2>1, <2>2 DEF Known
  <2> QED
    BY <1>1, <1>18, <2>1, <2>3 DEF OtherPushes, Known
<1> QED
  BY <1>3, <1>4, <1>5, <1>6, <1>7, <1>8, <1>9, <1>10, <1>11, <1>12, <1>13, <1>14, <1>15, <1>16,
     <1>17, <1>18 DEF Next, Locked, Promotion, Direct

LEMMA KnownStep == IInv /\ Known /\ [Next]_vars => Known'
<1> SUFFICES ASSUME IInv, Known, [Next]_vars PROVE Known'
  OBVIOUS
<1>1. Shares
  BY SharesStep
<1>2. branch' \cap Foreign \subseteq main' /\ main' \cap Own \subseteq branch'
  BY <1>1, EditAssumption DEF Shares, Known
<1>3. ASSUME NEW c \in objects' PROVE c \cap Foreign \subseteq main' /\ c \cap Own \subseteq branch'
  BY <1>1, <1>2 DEF Shares, Known
<1> QED
  BY <1>1, <1>2, <1>3 DEF Shares, Known

LEMMA StepShares ==
    IInv /\ Known /\ [Next]_vars
    => [Sharing!SharingNext]_([s \in Sites |-> (IF s = "device" THEN branch ELSE main) \ Lan])
<1> DEFINE view == [s \in Sites |-> (IF s = "device" THEN branch ELSE main) \ Lan]
           made == [s \in Sites |-> IF s = "device" THEN Own ELSE Foreign]
<1> SUFFICES ASSUME IInv, Known, [Next]_vars PROVE Sharing!SharingNext \/ view' = view
  OBVIOUS
<1>1. Shares
  BY SharesStep
<1>2. /\ "device" \in Sites /\ "host" \in Sites
      /\ view["device"] = branch \ Lan /\ view["host"] = main \ Lan
      /\ made["device"] = Own /\ made["host"] = Foreign
  BY DEF Sites
<1>3. Sharing!Made = (branch \cup main) \ Lan
  BY DEF Sharing!Made, Sites
<1>4. CASE main' = main
  <2>1. view' = [view EXCEPT !["device"] = branch' \ Lan]
    BY <1>4 DEF Sites
  <2>2. branch' \ Lan \in SUBSET (Sharing!Made \cup made["device"])
    BY <1>1, <1>2, <1>3 DEF Shares
  <2>3. view["device"] \cap made["device"] \subseteq branch' \ Lan
    BY <1>1, <1>2 DEF Shares
  <2> QED
    BY <1>2, <2>1, <2>2, <2>3 DEF Sharing!SharingNext, Sharing!Change
<1>5. CASE branch' = branch
  <2>1. view' = [view EXCEPT !["host"] = main' \ Lan]
    BY <1>5 DEF Sites
  <2>2. main' \ Lan \in SUBSET (Sharing!Made \cup made["host"])
    BY <1>1, <1>2, <1>3 DEF Shares
  <2>3. view["host"] \cap made["host"] \subseteq main' \ Lan
    BY <1>1, <1>2 DEF Shares
  <2> QED
    BY <1>2, <2>1, <2>2, <2>3 DEF Sharing!SharingNext, Sharing!Change
<1> QED
  BY <1>1, <1>4, <1>5 DEF Shares

(* A push and everybody else, cut off anywhere, share what is promised:    *)
(* main loses no edit of another device, the branch none of this one's,    *)
(* and neither gets an edit of the other before the other has it.          *)
THEOREM Implements == Spec => ImplementsSharing
<1>1. Init => Sharing!SharingInit
  BY DEF Init, Sites, Sharing!SharingInit, Sharing!Owned
<1>2. Init => Known
  BY DEF Init, Known
<1> QED
  BY <1>1, <1>2, KnownStep, StepShares, Invariance, PTL
     DEF Spec, ImplementsSharing, Sharing!SharingSpec

(* The host has no edit of this device that the branch lacks, nor the      *)
(* branch one of another device that has dropped out of the host's main.   *)
THEOREM EditsAreWithOwners == Spec => []Sharing!Owned
<1>1. Init => Known
  BY DEF Init, Known
<1>2. Known => Sharing!Owned
  BY DEF Known, Sites, Sharing!Owned
<1> QED
  BY <1>1, <1>2, KnownStep, Invariance, PTL DEF Spec
=============================================================================
