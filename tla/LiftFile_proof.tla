--------------------------- MODULE LiftFile_proof ---------------------------
(***************************************************************************)
(* Two things about the LIFT file: what becomes of a write to it, for any  *)
(* sets of edits (FileWrites), and that a merge of two leaves no conflict  *)
(* unmarked, loses no addition and no change, and brings nothing back that *)
(* was deleted, for any files (LiftMerge).                                 *)
(*                                                                         *)
(* Of the writes: the order of renames, merges, moves and deletions is     *)
(* what counts, so the invariant says of which writes the recovery and the *)
(* handlers may have a scratch file in hand, and that what they delete was *)
(* recorded first.                                                         *)
(*                                                                         *)
(* Of the merges: an element is a tree of any height, so the argument goes *)
(* by induction on the height, with the recursive functions of LiftMerge   *)
(* supposed to be their definitions.  The invariant says that every        *)
(* element in a file, and in the base of the next merge, shows its         *)
(* conflicts: what a merge writes does because it was normalised, and an   *)
(* edit keeps it.  And that a merge loses nothing that one side has added  *)
(* or changed: every child is in a pair of its key, and what is made of a  *)
(* pair is in the merge.  The deletes need the other direction: that there *)
(* is no other pair, and nothing in the merge but what is made of them.    *)
(***************************************************************************)
EXTENDS FileWrites, LiftMerge, FiniteSetTheorems, SequenceTheorems, TLAPS

(* The scratch files that the recovery has its hands on, and the handlers, *)
(* are of writes that the app has done with; a client that falls back has  *)
(* none; one that is there has the edit of its write.                      *)
Begun(w) == client[w] # "idle" /\ ~(client[w] = "writing" /\ scratch[w] = "part")

InHand ==
    /\ \A w \in old \cup names \cup orphan : Begun(w)
    /\ \A w \in handler : client[w] \in {"asked", "done"}
    /\ \A w \in Writes : client[w] \in {"idle", "fallback"} => scratch[w] = "none"
    /\ \A w \in Writes : scratch[w] # "none" => w \in copy[w]

(* The LIFT file, and what the recovery takes for it, have no edit that    *)
(* has not landed; what it has merged and will delete has landed.          *)
Recorded ==
    /\ lift \cap Writes \subseteq landed /\ current \cap Writes \subseteq landed
    /\ \A w \in orphan : scratch[w] = "whole" => w \in landed

(* A submit_file has the lock, and what it merged is in the file.          *)
Locked ==
    editor \in {"sent", "staged"} =>
        /\ ~sync /\ at \in {"idle", "wait"}
        /\ (saw \ base) \cup (buffer \ base) \subseteq lift

(* All that is kept by every step.                                         *)
IInv == TypeOK /\ InHand /\ Recorded /\ Locked

-----------------------------------------------------------------------------
(* Every action keeps the types.                                           *)
LEMMA TypeStep ==
    ASSUME TypeOK, [Next]_vars
    PROVE  TypeOK'
<1>1. CASE Commit
  BY <1>1 DEF Commit, repo, android, recovery, desktop, TypeOK, Files, Edits
<1>2. CASE SyncTakesLock
  BY <1>2 DEF SyncTakesLock, repo, android, recovery, desktop, TypeOK, Files,
     Edits
<1>3. CASE SyncEnds
  BY <1>3 DEF SyncEnds, Write, repo, android, recovery, desktop, TypeOK, Files,
     Edits
<1>4. CASE Receive
  BY <1>4 DEF Receive, repo, android, recovery, desktop, TypeOK, Files, Edits
<1>5. CASE Follow
  BY <1>5 DEF Follow, Write, repo, android, recovery, desktop, TypeOK, Files,
     Edits
<1>6. CASE SurgicalEdit
  BY <1>6 DEF SurgicalEdit, Write, repo, android, recovery, desktop, TypeOK,
     Files, Edits
<1>7. ASSUME NEW w \in Writes, OpenWrite(w) PROVE TypeOK'
  BY <1>7 DEF OpenWrite, repo, android, recovery, desktop, TypeOK, Files, Edits
<1>8. ASSUME NEW w \in Writes, WriteEnds(w) PROVE TypeOK'
  BY <1>8 DEF WriteEnds, repo, android, recovery, desktop, TypeOK, Files, Edits
<1>9. ASSUME NEW w \in Writes, AppDies(w) PROVE TypeOK'
  BY <1>9 DEF AppDies, repo, android, recovery, desktop, TypeOK, Files, Edits
<1>10. ASSUME NEW w \in Writes, Ages(w) PROVE TypeOK'
  BY <1>10 DEF Ages, repo, android, recovery, desktop, TypeOK, Files, Edits
<1>11. ASSUME NEW w \in Writes, Finalize(w) PROVE TypeOK'
  BY <1>11 DEF Finalize, repo, android, recovery, desktop, TypeOK, Files, Edits
<1>12. ASSUME NEW w \in Writes, FinalizeLands(w) PROVE TypeOK'
  BY <1>12 DEF FinalizeLands, Write, Answer, Remove, repo, android, recovery,
     desktop, TypeOK, Files, Edits
<1>13. ASSUME NEW w \in Writes, FinalizeFails(w) PROVE TypeOK'
  BY <1>13 DEF FinalizeFails, Answer, Remove, repo, android, recovery, desktop,
     TypeOK, Files, Edits
<1>14. ASSUME NEW w \in Writes, AtomicCommit(w) PROVE TypeOK'
  BY <1>14 DEF AtomicCommit, Write, repo, android, recovery, desktop, TypeOK,
     Files, Edits
<1>15. ASSUME NEW w \in Writes, Discard(w) PROVE TypeOK'
  BY <1>15 DEF Discard, Remove, IsGarbage, repo, android, recovery, desktop,
     TypeOK, Files, Edits
<1>16. ASSUME NEW w \in Writes, WriteMerged(w) PROVE TypeOK'
  BY <1>16 DEF WriteMerged, Write, Merged, Bytes, IsGarbage, repo, android,
     recovery, desktop, TypeOK, Files, Edits
<1>17. ASSUME NEW w \in Writes, StashUnmergeable(w) PROVE TypeOK'
  BY <1>17 DEF StashUnmergeable, Remove, repo, android, recovery, desktop,
     TypeOK, Files, Edits
<1>18. ASSUME NEW w \in Writes, Unlink(w) PROVE TypeOK'
  BY <1>18 DEF Unlink, Remove, repo, android, recovery, desktop, TypeOK, Files,
     Edits
<1>19. CASE Scan
  BY <1>19 DEF Scan, OfAge, repo, android, recovery, desktop, TypeOK, Files,
     Edits
<1>20. CASE ScanTakesLock
  BY <1>20 DEF ScanTakesLock, repo, android, recovery, desktop, TypeOK, Files,
     Edits
<1>21. CASE LowMemory
  BY <1>21 DEF LowMemory, repo, android, recovery, desktop, TypeOK, Files, Edits
<1>22. CASE CommitRecovery
  BY <1>22 DEF CommitRecovery, repo, android, recovery, desktop, TypeOK, Files,
     Edits
<1>23. CASE ScanEnds
  BY <1>23 DEF ScanEnds, repo, android, recovery, desktop, TypeOK, Files, Edits
<1>24. CASE AskHead
  BY <1>24 DEF AskHead, repo, android, recovery, desktop, TypeOK, Files, Edits
<1>25. CASE Load
  BY <1>25 DEF Load, repo, android, recovery, desktop, TypeOK, Files, Edits
<1>26. CASE Edit
  BY <1>26 DEF Edit, repo, android, recovery, desktop, TypeOK, Files, Edits
<1>27. CASE SubmitFile
  BY <1>27 DEF SubmitFile, Write, Submitted, Merged, repo, android, recovery,
     desktop, TypeOK, Files, Edits
<1>28. CASE SubmitBusy
  BY <1>28 DEF SubmitBusy, repo, android, recovery, desktop, TypeOK, Files,
     Edits
<1>29. CASE SubmitStages
  BY <1>29 DEF SubmitStages, repo, android, recovery, desktop, TypeOK, Files,
     Edits
<1>30. CASE SubmitCommits
  BY <1>30 DEF SubmitCommits, Answered, HeadUnmoved, repo, android, recovery,
     desktop, TypeOK, Files, Edits
<1>31. CASE SubmitUnsigned
  BY <1>31 DEF SubmitUnsigned, Answered, repo, android, recovery, desktop,
     TypeOK, Files, Edits
<1>32. CASE DirectWrite
  BY <1>32 DEF DirectWrite, Write, repo, android, recovery, desktop, TypeOK,
     Files, Edits
<1>33. CASE Crash
  BY <1>33 DEF Crash, repo, android, recovery, desktop, TypeOK, Files, Edits
<1>34. CASE UNCHANGED vars
  BY <1>34 DEF vars, repo, android, recovery, desktop, TypeOK, Files, Edits
<1> QED
  BY <1>1, <1>2, <1>3, <1>4, <1>5, <1>6, <1>7, <1>8, <1>9, <1>10, <1>11, <1>12,
     <1>13, <1>14, <1>15, <1>16, <1>17, <1>18, <1>19, <1>20, <1>21, <1>22,
     <1>23, <1>24, <1>25, <1>26, <1>27, <1>28, <1>29, <1>30, <1>31, <1>32,
     <1>33, <1>34 DEF Next, App, Dispose

(* No action takes hold of a scratch file that is still being written.     *)
LEMMA InHandStep ==
    ASSUME TypeOK, InHand, [Next]_vars
    PROVE  InHand'
<1>1. CASE Commit
  BY <1>1 DEF Commit, repo, android, recovery, desktop, TypeOK, InHand, Begun
<1>2. CASE SyncTakesLock
  BY <1>2 DEF SyncTakesLock, repo, android, recovery, desktop, TypeOK, InHand,
     Begun
<1>3. CASE SyncEnds
  BY <1>3 DEF SyncEnds, Write, repo, android, recovery, desktop, TypeOK,
     InHand, Begun
<1>4. CASE Receive
  BY <1>4 DEF Receive, repo, android, recovery, desktop, TypeOK, InHand, Begun
<1>5. CASE Follow
  BY <1>5 DEF Follow, Write, repo, android, recovery, desktop, TypeOK, InHand,
     Begun
<1>6. CASE SurgicalEdit
  BY <1>6 DEF SurgicalEdit, Write, repo, android, recovery, desktop, TypeOK,
     InHand, Begun
<1>7. ASSUME NEW w \in Writes, OpenWrite(w) PROVE InHand'
  BY <1>7 DEF OpenWrite, repo, android, recovery, desktop, TypeOK, InHand,
     Begun
<1>8. ASSUME NEW w \in Writes, WriteEnds(w) PROVE InHand'
  BY <1>8 DEF WriteEnds, repo, android, recovery, desktop, TypeOK, InHand,
     Begun
<1>9. ASSUME NEW w \in Writes, AppDies(w) PROVE InHand'
  BY <1>9 DEF AppDies, repo, android, recovery, desktop, TypeOK, InHand, Begun
<1>10. ASSUME NEW w \in Writes, Ages(w) PROVE InHand'
  BY <1>10 DEF Ages, repo, android, recovery, desktop, TypeOK, InHand, Begun
<1>11. ASSUME NEW w \in Writes, Finalize(w) PROVE InHand'
  BY <1>11 DEF Finalize, repo, android, recovery, desktop, TypeOK, InHand,
     Begun
<1>12. ASSUME NEW w \in Writes, FinalizeLands(w) PROVE InHand'
  BY <1>12 DEF FinalizeLands, Write, Answer, Remove, repo, android, recovery,
     desktop, TypeOK, InHand, Begun
<1>13. ASSUME NEW w \in Writes, FinalizeFails(w) PROVE InHand'
  BY <1>13 DEF FinalizeFails, Answer, Remove, repo, android, recovery, desktop,
     TypeOK, InHand, Begun
<1>14. ASSUME NEW w \in Writes, AtomicCommit(w) PROVE InHand'
  BY <1>14 DEF AtomicCommit, Write, repo, android, recovery, desktop, TypeOK,
     InHand, Begun
<1>15. ASSUME NEW w \in Writes, Discard(w) PROVE InHand'
  BY <1>15 DEF Discard, Remove, IsGarbage, repo, android, recovery, desktop,
     TypeOK, InHand, Begun
<1>16. ASSUME NEW w \in Writes, WriteMerged(w) PROVE InHand'
  BY <1>16 DEF WriteMerged, Write, Merged, Bytes, IsGarbage, repo, android,
     recovery, desktop, TypeOK, InHand, Begun
<1>17. ASSUME NEW w \in Writes, StashUnmergeable(w) PROVE InHand'
  BY <1>17 DEF StashUnmergeable, Remove, repo, android, recovery, desktop,
     TypeOK, InHand, Begun
<1>18. ASSUME NEW w \in Writes, Unlink(w) PROVE InHand'
  BY <1>18 DEF Unlink, Remove, repo, android, recovery, desktop, TypeOK,
     InHand, Begun
<1>19. CASE Scan
  BY <1>19 DEF Scan, OfAge, repo, android, recovery, desktop, TypeOK, InHand,
     Begun
<1>20. CASE ScanTakesLock
  BY <1>20 DEF ScanTakesLock, repo, android, recovery, desktop, TypeOK, InHand,
     Begun
<1>21. CASE LowMemory
  BY <1>21 DEF LowMemory, repo, android, recovery, desktop, TypeOK, InHand,
     Begun
<1>22. CASE CommitRecovery
  BY <1>22 DEF CommitRecovery, repo, android, recovery, desktop, TypeOK,
     InHand, Begun
<1>23. CASE ScanEnds
  BY <1>23 DEF ScanEnds, repo, android, recovery, desktop, TypeOK, InHand,
     Begun
<1>24. CASE AskHead
  BY <1>24 DEF AskHead, repo, android, recovery, desktop, TypeOK, InHand, Begun
<1>25. CASE Load
  BY <1>25 DEF Load, repo, android, recovery, desktop, TypeOK, InHand, Begun
<1>26. CASE Edit
  BY <1>26 DEF Edit, repo, android, recovery, desktop, TypeOK, InHand, Begun
<1>27. CASE SubmitFile
  BY <1>27 DEF SubmitFile, Write, Submitted, Merged, repo, android, recovery,
     desktop, TypeOK, InHand, Begun
<1>28. CASE SubmitBusy
  BY <1>28 DEF SubmitBusy, repo, android, recovery, desktop, TypeOK, InHand,
     Begun
<1>29. CASE SubmitStages
  BY <1>29 DEF SubmitStages, repo, android, recovery, desktop, TypeOK, InHand,
     Begun
<1>30. CASE SubmitCommits
  BY <1>30 DEF SubmitCommits, Answered, HeadUnmoved, repo, android, recovery,
     desktop, TypeOK, InHand, Begun
<1>31. CASE SubmitUnsigned
  BY <1>31 DEF SubmitUnsigned, Answered, repo, android, recovery, desktop,
     TypeOK, InHand, Begun
<1>32. CASE DirectWrite
  BY <1>32 DEF DirectWrite, Write, repo, android, recovery, desktop, TypeOK,
     InHand, Begun
<1>33. CASE Crash
  BY <1>33 DEF Crash, repo, android, recovery, desktop, TypeOK, InHand, Begun
<1>34. CASE UNCHANGED vars
  BY <1>34 DEF vars, repo, android, recovery, desktop, TypeOK, InHand, Begun
<1> QED
  BY <1>1, <1>2, <1>3, <1>4, <1>5, <1>6, <1>7, <1>8, <1>9, <1>10, <1>11, <1>12,
     <1>13, <1>14, <1>15, <1>16, <1>17, <1>18, <1>19, <1>20, <1>21, <1>22,
     <1>23, <1>24, <1>25, <1>26, <1>27, <1>28, <1>29, <1>30, <1>31, <1>32,
     <1>33, <1>34 DEF Next, App, Dispose

(* What is written to the LIFT file is recorded before a file is deleted.  *)
LEMMA RecordedStep ==
    ASSUME TypeOK, InHand, Recorded, [Next]_vars
    PROVE  Recorded'
<1>1. CASE Commit
  BY <1>1 DEF Commit, repo, android, recovery, desktop, TypeOK, InHand, Begun,
     Recorded
<1>2. CASE SyncTakesLock
  BY <1>2 DEF SyncTakesLock, repo, android, recovery, desktop, TypeOK, InHand,
     Begun, Recorded
<1>3. CASE SyncEnds
  BY <1>3 DEF SyncEnds, Write, repo, android, recovery, desktop, TypeOK,
     InHand, Begun, Recorded
<1>4. CASE Receive
  BY <1>4 DEF Receive, repo, android, recovery, desktop, TypeOK, InHand, Begun,
     Recorded
<1>5. CASE Follow
  BY <1>5 DEF Follow, Write, repo, android, recovery, desktop, TypeOK, InHand,
     Begun, Recorded
<1>6. CASE SurgicalEdit
  BY <1>6 DEF SurgicalEdit, Write, repo, android, recovery, desktop, TypeOK,
     InHand, Begun, Recorded
<1>7. ASSUME NEW w \in Writes, OpenWrite(w) PROVE Recorded'
  BY <1>7 DEF OpenWrite, repo, android, recovery, desktop, TypeOK, InHand,
     Begun, Recorded
<1>8. ASSUME NEW w \in Writes, WriteEnds(w) PROVE Recorded'
  BY <1>8 DEF WriteEnds, repo, android, recovery, desktop, TypeOK, InHand,
     Begun, Recorded
<1>9. ASSUME NEW w \in Writes, AppDies(w) PROVE Recorded'
  BY <1>9 DEF AppDies, repo, android, recovery, desktop, TypeOK, InHand, Begun,
     Recorded
<1>10. ASSUME NEW w \in Writes, Ages(w) PROVE Recorded'
  BY <1>10 DEF Ages, repo, android, recovery, desktop, TypeOK, InHand, Begun,
     Recorded
<1>11. ASSUME NEW w \in Writes, Finalize(w) PROVE Recorded'
  BY <1>11 DEF Finalize, repo, android, recovery, desktop, TypeOK, InHand,
     Begun, Recorded
<1>12. ASSUME NEW w \in Writes, FinalizeLands(w) PROVE Recorded'
  BY <1>12 DEF FinalizeLands, Write, Answer, Remove, repo, android, recovery,
     desktop, TypeOK, InHand, Begun, Recorded
<1>13. ASSUME NEW w \in Writes, FinalizeFails(w) PROVE Recorded'
  BY <1>13 DEF FinalizeFails, Answer, Remove, repo, android, recovery, desktop,
     TypeOK, InHand, Begun, Recorded
<1>14. ASSUME NEW w \in Writes, AtomicCommit(w) PROVE Recorded'
  BY <1>14 DEF AtomicCommit, Write, repo, android, recovery, desktop, TypeOK,
     InHand, Begun, Recorded
<1>15. ASSUME NEW w \in Writes, Discard(w) PROVE Recorded'
  BY <1>15 DEF Discard, Remove, IsGarbage, repo, android, recovery, desktop,
     TypeOK, InHand, Begun, Recorded
<1>16. ASSUME NEW w \in Writes, WriteMerged(w) PROVE Recorded'
  BY <1>16 DEF WriteMerged, Write, Merged, Bytes, IsGarbage, repo, android,
     recovery, desktop, TypeOK, InHand, Begun, Recorded
<1>17. ASSUME NEW w \in Writes, StashUnmergeable(w) PROVE Recorded'
  BY <1>17 DEF StashUnmergeable, Remove, repo, android, recovery, desktop,
     TypeOK, InHand, Begun, Recorded
<1>18. ASSUME NEW w \in Writes, Unlink(w) PROVE Recorded'
  BY <1>18 DEF Unlink, Remove, repo, android, recovery, desktop, TypeOK,
     InHand, Begun, Recorded
<1>19. CASE Scan
  BY <1>19 DEF Scan, OfAge, repo, android, recovery, desktop, TypeOK, InHand,
     Begun, Recorded
<1>20. CASE ScanTakesLock
  BY <1>20 DEF ScanTakesLock, repo, android, recovery, desktop, TypeOK, InHand,
     Begun, Recorded
<1>21. CASE LowMemory
  BY <1>21 DEF LowMemory, repo, android, recovery, desktop, TypeOK, InHand,
     Begun, Recorded
<1>22. CASE CommitRecovery
  BY <1>22 DEF CommitRecovery, repo, android, recovery, desktop, TypeOK,
     InHand, Begun, Recorded
<1>23. CASE ScanEnds
  BY <1>23 DEF ScanEnds, repo, android, recovery, desktop, TypeOK, InHand,
     Begun, Recorded
<1>24. CASE AskHead
  BY <1>24 DEF AskHead, repo, android, recovery, desktop, TypeOK, InHand,
     Begun, Recorded
<1>25. CASE Load
  BY <1>25 DEF Load, repo, android, recovery, desktop, TypeOK, InHand, Begun,
     Recorded
<1>26. CASE Edit
  BY <1>26 DEF Edit, repo, android, recovery, desktop, TypeOK, InHand, Begun,
     Recorded
<1>27. CASE SubmitFile
  BY <1>27 DEF SubmitFile, Write, Submitted, Merged, repo, android, recovery,
     desktop, TypeOK, InHand, Begun, Recorded
<1>28. CASE SubmitBusy
  BY <1>28 DEF SubmitBusy, repo, android, recovery, desktop, TypeOK, InHand,
     Begun, Recorded
<1>29. CASE SubmitStages
  BY <1>29 DEF SubmitStages, repo, android, recovery, desktop, TypeOK, InHand,
     Begun, Recorded
<1>30. CASE SubmitCommits
  BY <1>30 DEF SubmitCommits, Answered, HeadUnmoved, repo, android, recovery,
     desktop, TypeOK, InHand, Begun, Recorded
<1>31. CASE SubmitUnsigned
  BY <1>31 DEF SubmitUnsigned, Answered, repo, android, recovery, desktop,
     TypeOK, InHand, Begun, Recorded
<1>32. CASE DirectWrite
  BY <1>32 DEF DirectWrite, Write, repo, android, recovery, desktop, TypeOK,
     InHand, Begun, Recorded
<1>33. CASE Crash
  BY <1>33 DEF Crash, repo, android, recovery, desktop, TypeOK, InHand, Begun,
     Recorded
<1>34. CASE UNCHANGED vars
  BY <1>34 DEF vars, repo, android, recovery, desktop, TypeOK, InHand, Begun,
     Recorded
<1> QED
  BY <1>1, <1>2, <1>3, <1>4, <1>5, <1>6, <1>7, <1>8, <1>9, <1>10, <1>11, <1>12,
     <1>13, <1>14, <1>15, <1>16, <1>17, <1>18, <1>19, <1>20, <1>21, <1>22,
     <1>23, <1>24, <1>25, <1>26, <1>27, <1>28, <1>29, <1>30, <1>31, <1>32,
     <1>33, <1>34 DEF Next, App, Dispose

(* Nobody else writes the LIFT file while a submit_file has the lock.      *)
LEMMA LockedStep ==
    ASSUME TypeOK, Locked, [Next]_vars
    PROVE  Locked'
<1>1. CASE Commit
  BY <1>1 DEF Commit, repo, android, recovery, desktop, LockFree, Locked
<1>2. CASE SyncTakesLock
  BY <1>2 DEF SyncTakesLock, repo, android, recovery, desktop, LockFree, Locked
<1>3. CASE SyncEnds
  BY <1>3 DEF SyncEnds, Write, repo, android, recovery, desktop, LockFree, Locked
<1>4. CASE Receive
  BY <1>4 DEF Receive, repo, android, recovery, desktop, LockFree, Locked
<1>5. CASE Follow
  BY <1>5 DEF Follow, Write, repo, android, recovery, desktop, LockFree, Locked
<1>6. CASE SurgicalEdit
  BY <1>6 DEF SurgicalEdit, Write, repo, android, recovery, desktop, LockFree,
     Locked
<1>7. ASSUME NEW w \in Writes, OpenWrite(w) PROVE Locked'
  BY <1>7 DEF OpenWrite, repo, android, recovery, desktop, LockFree, Locked
<1>8. ASSUME NEW w \in Writes, WriteEnds(w) PROVE Locked'
  BY <1>8 DEF WriteEnds, repo, android, recovery, desktop, LockFree, Locked
<1>9. ASSUME NEW w \in Writes, AppDies(w) PROVE Locked'
  BY <1>9 DEF AppDies, repo, android, recovery, desktop, LockFree, Locked
<1>10. ASSUME NEW w \in Writes, Ages(w) PROVE Locked'
  BY <1>10 DEF Ages, repo, android, recovery, desktop, LockFree, Locked
<1>11. ASSUME NEW w \in Writes, Finalize(w) PROVE Locked'
  BY <1>11 DEF Finalize, repo, android, recovery, desktop, LockFree, Locked
<1>12. ASSUME NEW w \in Writes, FinalizeLands(w) PROVE Locked'
  BY <1>12 DEF FinalizeLands, Write, Answer, Remove, repo, android, recovery,
     desktop, LockFree, Locked
<1>13. ASSUME NEW w \in Writes, FinalizeFails(w) PROVE Locked'
  BY <1>13 DEF FinalizeFails, Answer, Remove, repo, android, recovery, desktop,
     LockFree, Locked
<1>14. ASSUME NEW w \in Writes, AtomicCommit(w) PROVE Locked'
  BY <1>14 DEF AtomicCommit, Write, repo, android, recovery, desktop, LockFree,
     Locked
<1>15. ASSUME NEW w \in Writes, Discard(w) PROVE Locked'
  BY <1>15 DEF Discard, Remove, IsGarbage, repo, android, recovery, desktop,
     LockFree, Locked
<1>16. ASSUME NEW w \in Writes, WriteMerged(w) PROVE Locked'
  BY <1>16 DEF WriteMerged, Write, Merged, Bytes, IsGarbage, repo, android,
     recovery, desktop, LockFree, Locked
<1>17. ASSUME NEW w \in Writes, StashUnmergeable(w) PROVE Locked'
  BY <1>17 DEF StashUnmergeable, Remove, repo, android, recovery, desktop,
     LockFree, Locked
<1>18. ASSUME NEW w \in Writes, Unlink(w) PROVE Locked'
  BY <1>18 DEF Unlink, Remove, repo, android, recovery, desktop, LockFree, Locked
<1>19. CASE Scan
  BY <1>19 DEF Scan, OfAge, repo, android, recovery, desktop, LockFree, Locked
<1>20. CASE ScanTakesLock
  BY <1>20 DEF ScanTakesLock, repo, android, recovery, desktop, LockFree, Locked
<1>21. CASE LowMemory
  BY <1>21 DEF LowMemory, repo, android, recovery, desktop, LockFree, Locked
<1>22. CASE CommitRecovery
  BY <1>22 DEF CommitRecovery, repo, android, recovery, desktop, LockFree, Locked
<1>23. CASE ScanEnds
  BY <1>23 DEF ScanEnds, repo, android, recovery, desktop, LockFree, Locked
<1>24. CASE AskHead
  BY <1>24 DEF AskHead, repo, android, recovery, desktop, LockFree, Locked
<1>25. CASE Load
  BY <1>25 DEF Load, repo, android, recovery, desktop, LockFree, Locked
<1>26. CASE Edit
  BY <1>26 DEF Edit, repo, android, recovery, desktop, LockFree, Locked
<1>27. CASE SubmitFile
  BY <1>27 DEF SubmitFile, Write, Submitted, Merged, repo, android, recovery,
     desktop, LockFree, Locked
<1>28. CASE SubmitBusy
  BY <1>28 DEF SubmitBusy, repo, android, recovery, desktop, LockFree, Locked
<1>29. CASE SubmitStages
  BY <1>29 DEF SubmitStages, repo, android, recovery, desktop, LockFree, Locked
<1>30. CASE SubmitCommits
  BY <1>30 DEF SubmitCommits, Answered, HeadUnmoved, repo, android, recovery,
     desktop, LockFree, Locked
<1>31. CASE SubmitUnsigned
  BY <1>31 DEF SubmitUnsigned, Answered, repo, android, recovery, desktop,
     LockFree, Locked
<1>32. CASE DirectWrite
  BY <1>32 DEF DirectWrite, Write, repo, android, recovery, desktop, LockFree,
     Locked
<1>33. CASE Crash
  BY <1>33 DEF Crash, repo, android, recovery, desktop, LockFree, Locked
<1>34. CASE UNCHANGED vars
  BY <1>34 DEF vars, repo, android, recovery, desktop, LockFree, Locked
<1> QED
  BY <1>1, <1>2, <1>3, <1>4, <1>5, <1>6, <1>7, <1>8, <1>9, <1>10, <1>11, <1>12,
     <1>13, <1>14, <1>15, <1>16, <1>17, <1>18, <1>19, <1>20, <1>21, <1>22,
     <1>23, <1>24, <1>25, <1>26, <1>27, <1>28, <1>29, <1>30, <1>31, <1>32,
     <1>33, <1>34 DEF Next, App, Dispose

-----------------------------------------------------------------------------
(* The invariant holds in every state.                                     *)
THEOREM Invariance == Spec => []IInv
<1>1. Init => IInv
  BY ContentAssumption
     DEF Init, IInv, TypeOK, InHand, Begun, Recorded, Locked, Files, Edits
<1>2. IInv /\ [Next]_vars => IInv'
  BY TypeStep, InHandStep, RecordedStep, LockedStep DEF IInv
<1> QED
  BY <1>1, <1>2, PTL DEF Spec

(* The files, the handlers and the recovery have their types.              *)
THEOREM TypeCorrect == Spec => []TypeOK
<1>1. IInv => TypeOK
  BY DEF IInv
<1> QED
  BY <1>1, Invariance, PTL

(* One step, for one write: an action that takes the file has recorded it. *)
LEMMA LandStep ==
    ASSUME IInv, [Next]_vars, NEW w \in Writes,
           scratch[w] = "whole", scratch'[w] = "none", ~FinalizeFails(w)
    PROVE  w \in landed' \cup stash'
<1> USE DEF IInv, TypeOK, InHand, Begun, Recorded
<1>1. ASSUME NEW x \in Writes, OpenWrite(x) PROVE w \in landed' \cup stash'
  BY <1>1 DEF OpenWrite, android
<1>2. ASSUME NEW x \in Writes, WriteEnds(x) PROVE w \in landed' \cup stash'
  BY <1>2 DEF WriteEnds, android
<1>3. ASSUME NEW x \in Writes, AppDies(x) PROVE w \in landed' \cup stash'
  BY <1>3 DEF AppDies, android
<1>4. ASSUME NEW x \in Writes, Ages(x) PROVE w \in landed' \cup stash'
  BY <1>4 DEF Ages, android
<1>5. ASSUME NEW x \in Writes, Finalize(x) PROVE w \in landed' \cup stash'
  BY <1>5 DEF Finalize, android
<1>6. ASSUME NEW x \in Writes, FinalizeLands(x) PROVE w \in landed' \cup stash'
  BY <1>6 DEF FinalizeLands, Write, Answer, Remove, android
<1>7. ASSUME NEW x \in Writes, FinalizeFails(x) PROVE w \in landed' \cup stash'
  BY <1>7 DEF FinalizeFails, Answer, Remove, android
<1>8. ASSUME NEW x \in Writes, AtomicCommit(x) PROVE w \in landed' \cup stash'
  BY <1>8 DEF AtomicCommit, Write, android
<1>9. ASSUME NEW x \in Writes, Discard(x) PROVE w \in landed' \cup stash'
  BY <1>9 DEF Discard, Remove, IsGarbage, android
<1>10. ASSUME NEW x \in Writes, WriteMerged(x) PROVE w \in landed' \cup stash'
  BY <1>10 DEF WriteMerged, Write, Merged, Bytes, IsGarbage, android
<1>11. ASSUME NEW x \in Writes, StashUnmergeable(x) PROVE w \in landed' \cup stash'
  BY <1>11 DEF StashUnmergeable, Remove, android
<1>12. ASSUME NEW x \in Writes, Unlink(x) PROVE w \in landed' \cup stash'
  BY <1>12 DEF Unlink, Remove, android
<1>13. CASE UNCHANGED android
  BY <1>13 DEF android
<1>14. CASE Crash
  BY <1>14 DEF Crash
<1> QED
  BY <1>1, <1>2, <1>3, <1>4, <1>5, <1>6, <1>7, <1>8, <1>9, <1>10, <1>11, <1>12,
     <1>13, <1>14 DEF Next, App, Dispose, vars, Commit, SyncTakesLock, SyncEnds,
     Receive, Follow, SurgicalEdit, Scan, ScanTakesLock, LowMemory,
     CommitRecovery, ScanEnds, AskHead, Load, Edit, SubmitFile, SubmitBusy,
     SubmitStages, SubmitCommits, SubmitUnsigned, DirectWrite

(* The scratch file of a write that is whole goes only when its edit has   *)
(* landed in the LIFT file, when it was put aside, or when a finalize has  *)
(* failed and its client been told so.                                     *)
THEOREM WholeWritesLandAlways == Spec => WholeWritesLand
<1>1. IInv /\ [Next]_vars
      => [\A w \in Writes :
            scratch[w] = "whole" /\ scratch'[w] = "none" /\ ~FinalizeFails(w)
                => w \in landed' \cup stash']_vars
  BY LandStep
<1> QED
  BY <1>1, Invariance, PTL DEF Spec, WholeWritesLand

(* One step, for one write: no action takes the file.                      *)
LEMMA WritingStep ==
    ASSUME IInv, [Next]_vars, NEW w \in Writes,
           client[w] = "writing", scratch[w] = "part"
    PROVE  scratch'[w] # "none"
<1> USE DEF IInv, TypeOK, InHand, Begun
<1>1. ASSUME NEW x \in Writes, OpenWrite(x) PROVE scratch'[w] # "none"
  BY <1>1 DEF OpenWrite, android
<1>2. ASSUME NEW x \in Writes, WriteEnds(x) PROVE scratch'[w] # "none"
  BY <1>2 DEF WriteEnds, android
<1>3. ASSUME NEW x \in Writes, AppDies(x) PROVE scratch'[w] # "none"
  BY <1>3 DEF AppDies, android
<1>4. ASSUME NEW x \in Writes, Ages(x) PROVE scratch'[w] # "none"
  BY <1>4 DEF Ages, android
<1>5. ASSUME NEW x \in Writes, Finalize(x) PROVE scratch'[w] # "none"
  BY <1>5 DEF Finalize, android
<1>6. ASSUME NEW x \in Writes, FinalizeLands(x) PROVE scratch'[w] # "none"
  BY <1>6 DEF FinalizeLands, Write, Answer, Remove, android
<1>7. ASSUME NEW x \in Writes, FinalizeFails(x) PROVE scratch'[w] # "none"
  BY <1>7 DEF FinalizeFails, Answer, Remove, android
<1>8. ASSUME NEW x \in Writes, AtomicCommit(x) PROVE scratch'[w] # "none"
  BY <1>8 DEF AtomicCommit, Write, android
<1>9. ASSUME NEW x \in Writes, Discard(x) PROVE scratch'[w] # "none"
  BY <1>9 DEF Discard, Remove, IsGarbage, android
<1>10. ASSUME NEW x \in Writes, WriteMerged(x) PROVE scratch'[w] # "none"
  BY <1>10 DEF WriteMerged, Write, Merged, Bytes, IsGarbage, android
<1>11. ASSUME NEW x \in Writes, StashUnmergeable(x) PROVE scratch'[w] # "none"
  BY <1>11 DEF StashUnmergeable, Remove, android
<1>12. ASSUME NEW x \in Writes, Unlink(x) PROVE scratch'[w] # "none"
  BY <1>12 DEF Unlink, Remove, android
<1>13. CASE UNCHANGED android
  BY <1>13 DEF android
<1>14. CASE Crash
  BY <1>14 DEF Crash
<1> QED
  BY <1>1, <1>2, <1>3, <1>4, <1>5, <1>6, <1>7, <1>8, <1>9, <1>10, <1>11, <1>12,
     <1>13, <1>14 DEF Next, App, Dispose, vars, Commit, SyncTakesLock, SyncEnds,
     Receive, Follow, SurgicalEdit, Scan, ScanTakesLock, LowMemory,
     CommitRecovery, ScanEnds, AskHead, Load, Edit, SubmitFile, SubmitBusy,
     SubmitStages, SubmitCommits, SubmitUnsigned, DirectWrite

(* Neither the recovery nor a handler takes the scratch file of a write    *)
(* that is under way.                                                      *)
THEOREM WritingIsLeftAloneAlways == Spec => WritingIsLeftAlone
<1>1. IInv /\ [Next]_vars
      => [\A w \in Writes : client[w] = "writing" /\ scratch[w] = "part"
                               => scratch'[w] # "none"]_vars
  BY WritingStep
<1> QED
  BY <1>1, Invariance, PTL DEF Spec, WritingIsLeftAlone

(* A submit_file that commits has in its commit what HEAD had gained since *)
(* the editor's base, and what the editor has changed.  It says nothing of *)
(* changes in the file that were not committed: the merge takes the other  *)
(* side from HEAD, and the submit overwrites the file.                     *)
THEOREM SubmitMergesAlways == Spec => SubmitMerges
<1>1. IInv /\ [Next]_vars
      => [SubmitCommits => \/ head' = head
                           \/ /\ head = parent
                              /\ (saw \ base) \cup (buffer \ base) \subseteq head']_vars
  BY DEF IInv, Locked, SubmitCommits, HeadUnmoved
<1> QED
  BY <1>1, Invariance, PTL DEF Spec, SubmitMerges

-----------------------------------------------------------------------------
(* Numbers and sequences.                                                  *)

(* Induction on the numbers, for a set.                                    *)
LEMMA NatSets ==
  ASSUME NEW S, 0 \in S, \A n \in Nat : n \in S => n + 1 \in S
  PROVE  Nat \subseteq S
<1>. SUFFICES ASSUME Nat \ S # {} PROVE FALSE
  OBVIOUS
<1>. DEFINE less == OpToRel(<, Nat)
<1>1. \A x, y \in Nat : <<x, y>> \in less <=> x < y
  BY DEF OpToRel
<1>2. IsWellFoundedOn(less, Nat)
  BY NatLessThanWellFounded
<1>3. PICK m \in Nat \ S : \A y \in Nat \ S : <<y, m>> \notin less
  <2>. HIDE DEF less
  <2>. QED  BY <1>2, WFMin
<1>4. m # 0 /\ m - 1 \in Nat /\ m - 1 < m /\ m = (m - 1) + 1
  <2>. HIDE DEF less
  <2>. QED  OBVIOUS
<1>5. m - 1 \in S
  BY <1>1, <1>3, <1>4
<1>. QED  BY <1>3, <1>4, <1>5

(* The elements of a finite set in a strict order, each counted by those   *)
(* below it: every number up to the size is the rank of one of them.       *)
LEMMA Ranks ==
  ASSUME NEW S, IsFiniteSet(S), NEW below \in [S -> SUBSET S],
         \A p \in S : p \notin below[p],
         \A p, q \in S : p # q => \/ below[p] \cup {p} \subseteq below[q]
                                  \/ below[q] \cup {q} \subseteq below[p]
  PROVE  /\ Cardinality(S) \in Nat
         /\ \A n \in 1..Cardinality(S) : \E p \in S : Cardinality(below[p]) = n - 1
         /\ \A p \in S : Cardinality(below[p]) + 1 \in 1..Cardinality(S)
         /\ \A p, q \in S : Cardinality(below[p]) = Cardinality(below[q]) => p = q
<1>. DEFINE N == Cardinality(S)
            rank == [p \in S |-> Cardinality(below[p]) + 1]
<1>1. N \in Nat
  BY FS_CardinalityType
<1>2. ASSUME NEW p \in S
      PROVE  /\ IsFiniteSet(below[p]) /\ Cardinality(below[p]) \in Nat
             /\ Cardinality(below[p]) + 1 \in 1..N
  <2>1. IsFiniteSet(S \ {p}) /\ Cardinality(S \ {p}) = N - 1
    BY FS_RemoveElement
  <2>2. below[p] \in SUBSET (S \ {p})
    OBVIOUS
  <2>3. IsFiniteSet(below[p]) /\ Cardinality(below[p]) <= N - 1
    BY <2>1, <2>2, FS_Subset
  <2>4. Cardinality(below[p]) \in Nat
    BY <2>3, FS_CardinalityType
  <2>. QED  BY <1>1, <2>3, <2>4
<1>3. ASSUME NEW p \in S, NEW q \in S, p # q, below[p] \cup {p} \subseteq below[q]
      PROVE  Cardinality(below[p]) # Cardinality(below[q])
  <2>1. IsFiniteSet(below[q])
    BY <1>2
  <2>2. below[p] \in SUBSET below[q] /\ below[p] # below[q]
    BY <1>3
  <2>. QED  BY <2>1, <2>2, FS_Subset
<1>4. \A p, q \in S : Cardinality(below[p]) = Cardinality(below[q]) => p = q
  BY <1>3
<1>5. rank \in Injection(S, 1..N)
  <2>1. rank \in [S -> 1..N]
    BY <1>2
  <2>2. \A p, q \in S : rank[p] = rank[q] => p = q
    BY <1>2, <1>4
  <2>. QED  BY <2>1, <2>2 DEF Injection, IsInjective
<1>6. IsFiniteSet(1..N) /\ Cardinality(1..N) = N
  BY <1>1, FS_Interval
<1>7. rank \in Surjection(S, 1..N)
  BY <1>5, <1>6, FS_Injection
<1>8. \A n \in 1..N : \E p \in S : rank[p] = n
  BY <1>7 DEF Surjection
<1>9. ASSUME NEW n \in 1..N PROVE \E p \in S : Cardinality(below[p]) = n - 1
  <2>1. PICK p \in S : rank[p] = n
    BY <1>8
  <2>2. Cardinality(below[p]) + 1 = n
    BY <2>1
  <2>. QED  BY <1>2, <2>2
<1>. QED  BY <1>1, <1>2, <1>4, <1>9

(* What makes TLC compute a sequence does not change it.                   *)
LEMMA EagerIs ==
  ASSUME NEW S, NEW s \in Seq(S)
  PROVE  Eager(s) = s
BY ConcatEmptySeq DEF Eager

(* The elements at some positions: those of the sequence there, all of     *)
(* them, and two from two.                                                 *)
LEMMA AtIs ==
  ASSUME NEW S, NEW s \in Seq(S), NEW P \in SUBSET (DOMAIN s)
  PROVE  /\ At(s, P) \in Seq(S)
         /\ \A n \in DOMAIN At(s, P) : \E i \in P : At(s, P)[n] = s[i]
         /\ \A i \in P : \E n \in DOMAIN At(s, P) : At(s, P)[n] = s[i]
         /\ \A m, n \in DOMAIN At(s, P) :
               m # n => \E i, j \in P : i # j /\ At(s, P)[m] = s[i] /\ At(s, P)[n] = s[j]
<1>1. CASE P = DOMAIN s
  BY <1>1 DEF At
<1>2. CASE P # DOMAIN s
  <2>. DEFINE below == [i \in P |-> PositionsBefore(P, i)]
              N == Cardinality(P)
              nth(n) == CHOOSE i \in P : Cardinality(PositionsBefore(P, i)) = n - 1
              f == [n \in 1..N |-> s[nth(n)]]
  <2>1. DOMAIN s = 1..Len(s) /\ Len(s) \in Nat /\ P \subseteq Nat /\ \A i \in P : s[i] \in S
    OBVIOUS
  <2>2. IsFiniteSet(P)
    <3>1. IsFiniteSet(1..Len(s))
      BY <2>1, FS_Interval
    <3>. QED  BY <2>1, <3>1, FS_Subset
  <2>3. below \in [P -> SUBSET P]
    BY DEF PositionsBefore
  <2>4. \A p \in P : p \notin below[p]
    BY <2>1 DEF PositionsBefore
  <2>5. \A p, q \in P : p # q => \/ below[p] \cup {p} \subseteq below[q]
                                 \/ below[q] \cup {q} \subseteq below[p]
    BY <2>1 DEF PositionsBefore
  <2>6. /\ N \in Nat
        /\ \A n \in 1..N : \E p \in P : Cardinality(below[p]) = n - 1
        /\ \A p \in P : Cardinality(below[p]) + 1 \in 1..N
        /\ \A p, q \in P : Cardinality(below[p]) = Cardinality(below[q]) => p = q
    <3>. HIDE DEF below
    <3>. QED  BY <2>2, <2>3, <2>4, <2>5, Ranks
  <2>7. \A p \in P : below[p] = PositionsBefore(P, p)
    OBVIOUS
  <2>8. ASSUME NEW n \in 1..N
        PROVE  nth(n) \in P /\ Cardinality(below[nth(n)]) = n - 1
    <3>1. \E i \in P : Cardinality(PositionsBefore(P, i)) = n - 1
      BY <2>6, <2>7
    <3>2. nth(n) \in P /\ Cardinality(PositionsBefore(P, nth(n))) = n - 1
      BY <3>1
    <3>. QED  BY <2>7, <3>2
  <2>9. f \in [1..N -> S]
    BY <2>1, <2>8
  <2>10. f \in Seq(S)
    <3>. HIDE DEF f, N
    <3>. QED  BY <2>6, <2>9, SeqDef
  <2>11. At(s, P) = f
    <3>1. At(s, P) = Eager(f)
      BY <1>2 DEF At
    <3>. QED  BY <3>1, <2>10, EagerIs
  <2>12. ASSUME NEW i \in P PROVE \E n \in 1..N : nth(n) = i
    <3>. DEFINE n == Cardinality(below[i]) + 1
    <3>1. n \in 1..N
      BY <2>6
    <3>2. nth(n) \in P /\ Cardinality(below[nth(n)]) = n - 1
      BY <2>8, <3>1
    <3>2a. Cardinality(below[i]) \in Int
      BY <2>2, <2>3, FS_Subset, FS_CardinalityType
    <3>3. Cardinality(below[nth(n)]) = Cardinality(below[i])
      BY <3>2, <3>2a
    <3>4. nth(n) = i
      BY <2>6, <3>2, <3>3
    <3>. QED  BY <3>1, <3>4
  <2>13. ASSUME NEW m \in 1..N, NEW n \in 1..N, m # n PROVE nth(m) # nth(n)
    BY <2>6, <2>8, <2>13
  <2>14. DOMAIN f = 1..N /\ \A n \in 1..N : f[n] = s[nth(n)]
    OBVIOUS
  <2>. HIDE DEF f, nth, N, below
  <2>15. \A n \in DOMAIN f : \E i \in P : f[n] = s[i]
    BY <2>8, <2>14
  <2>16. \A i \in P : \E n \in DOMAIN f : f[n] = s[i]
    BY <2>12, <2>14
  <2>17. \A m, n \in DOMAIN f : m # n => \E i, j \in P : i # j /\ f[m] = s[i] /\ f[n] = s[j]
    BY <2>8, <2>13, <2>14
  <2>. QED  BY <2>10, <2>11, <2>15, <2>16, <2>17
<1>. QED  BY <1>1, <1>2

(* The places of a sequence of sequences are finitely many.                *)
LEMMA PlacesIn ==
  ASSUME NEW S, NEW ss \in Seq(Seq(S))
  PROVE  /\ IsFiniteSet(Places(ss))
         /\ \A p : p \in Places(ss) <=> /\ p \in Nat \X Nat
                                         /\ p[1] \in DOMAIN ss /\ p[2] \in DOMAIN ss[p[1]]
         /\ \A p \in Places(ss) : ss[p[1]][p[2]] \in S
<1>. DEFINE part(i) == {i} \X DOMAIN ss[i]
            parts == {part(i) : i \in DOMAIN ss}
            f == [i \in DOMAIN ss |-> part(i)]
<1>1. DOMAIN ss = 1..Len(ss) /\ Len(ss) \in Nat /\ \A i \in DOMAIN ss : ss[i] \in Seq(S)
  OBVIOUS
<1>2. \A i \in DOMAIN ss : DOMAIN ss[i] = 1..Len(ss[i]) /\ Len(ss[i]) \in Nat
  BY <1>1
<1>3. IsFiniteSet(parts)
  <2>1. f \in Surjection(DOMAIN ss, parts)
    BY DEF Surjection
  <2>2. IsFiniteSet(DOMAIN ss)
    BY <1>1, FS_Interval
  <2>. HIDE DEF f, parts
  <2>. QED  BY <2>1, <2>2, FS_Surjection
<1>4. ASSUME NEW i \in DOMAIN ss PROVE IsFiniteSet(part(i))
  <2>1. IsFiniteSet(DOMAIN ss[i])
    <3>1. DOMAIN ss[i] = 1..Len(ss[i]) /\ Len(ss[i]) \in Int
      BY <1>2
    <3>2. ASSUME NEW m \in Int PROVE IsFiniteSet(1..m)
      <4>1. 1 \in Int
        OBVIOUS
      <4>. QED  BY <4>1, FS_Interval
    <3>3. IsFiniteSet(1..Len(ss[i]))
      BY <3>1, <3>2, Zenon
    <3>. QED  BY <3>1, <3>3, Zenon
  <2>2. IsFiniteSet({i})
    BY FS_Singleton
  <2>3. \A T : IsFiniteSet(T) => IsFiniteSet({i} \X T)
    BY <2>2, FS_Product, Zenon
  <2>. QED  BY <2>1, <2>3, Zenon
<1>5. Places(ss) = UNION parts
  BY DEF Places
<1>6. IsFiniteSet(Places(ss))
  <2>1. \A T \in parts : IsFiniteSet(T)
    BY <1>4
  <2>. HIDE DEF parts
  <2>. QED  BY <1>3, <1>5, <2>1, FS_UNION
<1>7. ASSUME NEW p
      PROVE p \in Places(ss) <=> /\ p \in Nat \X Nat
                                 /\ p[1] \in DOMAIN ss /\ p[2] \in DOMAIN ss[p[1]]
  BY <1>1, <1>2 DEF Places
<1>. QED  BY <1>1, <1>2, <1>6, <1>7

(* Sequences one after the other: what is at their places, all of it, and  *)
(* two from two.                                                           *)
LEMMA FlatIs ==
  ASSUME NEW S, NEW ss \in Seq(Seq(S))
  PROVE  /\ Flat(ss) \in Seq(S)
         /\ \A n \in DOMAIN Flat(ss) : \E p \in Places(ss) : Flat(ss)[n] = ss[p[1]][p[2]]
         /\ \A p \in Places(ss) : \E n \in DOMAIN Flat(ss) : Flat(ss)[n] = ss[p[1]][p[2]]
         /\ \A m, n \in DOMAIN Flat(ss) :
               m # n => \E p, q \in Places(ss) :
                          p # q /\ Flat(ss)[m] = ss[p[1]][p[2]] /\ Flat(ss)[n] = ss[q[1]][q[2]]
<1>. DEFINE P == Places(ss)
            below == [p \in P |-> PlacesBefore(P, p)]
            N == Cardinality(P)
            nth(n) == CHOOSE p \in P : Cardinality(PlacesBefore(P, p)) = n - 1
            f == [n \in 1..N |-> ss[nth(n)[1]][nth(n)[2]]]
<1>1. /\ IsFiniteSet(P) /\ P \subseteq Nat \X Nat
      /\ \A p \in P : ss[p[1]][p[2]] \in S
  BY PlacesIn
<1>. HIDE DEF P
<1>2. below \in [P -> SUBSET P] /\ \A p \in P : below[p] = PlacesBefore(P, p)
  BY DEF PlacesBefore
<1>3. \A p \in P : p \notin below[p]
  BY <1>1 DEF PlacesBefore
<1>4. ASSUME NEW p \in P, NEW q \in P, p # q
      PROVE  \/ below[p] \cup {p} \subseteq below[q]
             \/ below[q] \cup {q} \subseteq below[p]
  <2>1. /\ p[1] \in Nat /\ p[2] \in Nat /\ q[1] \in Nat /\ q[2] \in Nat
        /\ p[1] # q[1] \/ p[2] # q[2]
    BY <1>1, <1>4
  <2>2. \A r \in P : r[1] \in Nat /\ r[2] \in Nat
    BY <1>1
  <2>. QED  BY <2>1, <2>2 DEF PlacesBefore
<1>5. /\ N \in Nat
      /\ \A n \in 1..N : \E p \in P : Cardinality(below[p]) = n - 1
      /\ \A p \in P : Cardinality(below[p]) + 1 \in 1..N
      /\ \A p, q \in P : Cardinality(below[p]) = Cardinality(below[q]) => p = q
  <2>. HIDE DEF below
  <2>. QED  BY <1>1, <1>2, <1>3, <1>4, Ranks
<1>6. ASSUME NEW n \in 1..N
      PROVE  nth(n) \in P /\ Cardinality(below[nth(n)]) = n - 1
  <2>1. \E p \in P : Cardinality(PlacesBefore(P, p)) = n - 1
    BY <1>2, <1>5
  <2>2. nth(n) \in P /\ Cardinality(PlacesBefore(P, nth(n))) = n - 1
    BY <2>1
  <2>. QED  BY <1>2, <2>2
<1>7. f \in [1..N -> S]
  BY <1>1, <1>6
<1>8. f \in Seq(S)
  <2>. HIDE DEF f, N
  <2>. QED  BY <1>5, <1>7, SeqDef
<1>9. Flat(ss) = f
  <2>1. Flat(ss) = Eager(f)
    BY DEF Flat, P
  <2>. QED  BY <2>1, <1>8, EagerIs
<1>10. ASSUME NEW p \in P PROVE \E n \in 1..N : nth(n) = p
  <2>. DEFINE n == Cardinality(below[p]) + 1
  <2>1. n \in 1..N
    BY <1>5
  <2>2. nth(n) \in P /\ Cardinality(below[nth(n)]) = n - 1
    BY <1>6, <2>1
  <2>3. Cardinality(below[p]) \in Int
    BY <1>1, <1>2, FS_Subset, FS_CardinalityType
  <2>4. Cardinality(below[nth(n)]) = Cardinality(below[p])
    BY <2>2, <2>3
  <2>5. nth(n) = p
    BY <1>5, <2>2, <2>4
  <2>. QED  BY <2>1, <2>5
<1>11. ASSUME NEW m \in 1..N, NEW n \in 1..N, m # n PROVE nth(m) # nth(n)
  BY <1>5, <1>6, <1>11
<1>12. DOMAIN f = 1..N /\ \A n \in 1..N : f[n] = ss[nth(n)[1]][nth(n)[2]]
  OBVIOUS
<1>. HIDE DEF f, nth, N, below
<1>13. \A n \in DOMAIN f : \E p \in P : f[n] = ss[p[1]][p[2]]
  BY <1>6, <1>12
<1>14. \A p \in P : \E n \in DOMAIN f : f[n] = ss[p[1]][p[2]]
  BY <1>10, <1>12
<1>15. \A m, n \in DOMAIN f :
         m # n => \E p, q \in P : p # q /\ f[m] = ss[p[1]][p[2]] /\ f[n] = ss[q[1]][q[2]]
  BY <1>6, <1>11, <1>12
<1>. QED  BY <1>8, <1>9, <1>13, <1>14, <1>15 DEF P

-----------------------------------------------------------------------------
(* The elements of a LIFT file, over some tags, keys and pairs: finite, and *)
(* an annotation says a side.                                              *)
CONSTANTS
    Names,   \* the tags and the keys
    Pairs    \* attributes and texts with their values

(* What an annotation says.                                                *)
MarkVals == {m.val : m \in Marks}

(* The elements over some children; what has the key of an annotation says *)
(* the side.                                                               *)
Grown(S) ==
    {e \in [tag : Names, key : Names, val : SUBSET Pairs, kids : Seq(S)] :
        IsMark(e) => e.val \in MarkVals}

(* The elements of a height, on the annotations.                           *)
Level[n \in Nat] == IF n = 0 THEN Marks ELSE Grown(Level[n - 1])

(* The elements of all heights.                                            *)
Trees == UNION {Level[n] : n \in Nat}

(* The tags, the keys and the pairs have those of the annotations; the     *)
(* guid of a copy is not the key of one.                                   *)
Alphabet ==
    /\ {"", "annotation", "azt-lift-conflict"} \subseteq Names
    /\ \A side \in {"ours", "theirs", "conflict"} : <<"value", side>> \in Pairs
    /\ \A k \in Names : Theirs(k) \in Names \ {"azt-lift-conflict"}

(* The levels as they are built, each on the one before.                   *)
LEMMA Levels ==
  /\ Level[0] = Marks
  /\ \A n \in Nat : Level[n + 1] = Grown(Level[n])
<1>. DEFINE Upto(g, n) == g[0] = Marks /\ \A i \in 0..(n - 1) : g[i + 1] = Grown(g[i])
            best(n) == CHOOSE g : Upto(g, n)
            f == [n \in Nat |-> best(n)[n]]
            Def(g) == g = [n \in Nat |-> IF n = 0 THEN Marks ELSE Grown(g[n - 1])]
<1>1. \A n \in Nat : \E g : Upto(g, n)
  <2>. DEFINE S == {n \in Nat : \E g : Upto(g, n)}
  <2>1. 0 \in S
    <3>1. Upto([i \in {0} |-> Marks], 0)
      OBVIOUS
    <3>. QED  BY <3>1
  <2>2. ASSUME NEW n \in Nat, n \in S PROVE n + 1 \in S
    <3>1. PICK g : Upto(g, n)
      BY <2>2
    <3>. DEFINE h == [i \in 0..(n + 1) |-> IF i = n + 1 THEN Grown(g[n]) ELSE g[i]]
    <3>2. /\ h[0] = g[0]
          /\ h[n + 1] = Grown(g[n])
          /\ \A i \in 0..n : h[i] = g[i]
      OBVIOUS
    <3>3. ASSUME NEW i \in 0..n PROVE h[i + 1] = Grown(h[i])
      <4>. HIDE DEF h
      <4>1. CASE i = n
        BY <3>2, <4>1
      <4>2. CASE i # n
        <5>1. i \in 0..(n - 1) /\ i + 1 \in 0..n
          BY <4>2
        <5>. QED  BY <3>1, <3>2, <5>1
      <4>. QED  BY <4>1, <4>2
    <3>4. Upto(h, n + 1)
      <4>. HIDE DEF h
      <4>. QED  BY <3>1, <3>2, <3>3
    <3>. HIDE DEF h, Upto
    <3>. QED  BY <3>4
  <2>. HIDE DEF Upto
  <2>3. Nat \subseteq S
    <3>. HIDE DEF S
    <3>. QED  BY <2>1, <2>2, NatSets
  <2>. QED  BY <2>3
<1>2. ASSUME NEW g, NEW h, NEW n \in Nat, NEW m \in Nat, n <= m, Upto(g, n), Upto(h, m)
      PROVE  g[n] = h[n]
  <2>. DEFINE S == {i \in Nat : i <= n => g[i] = h[i]}
  <2>1. 0 \in S
    BY <1>2
  <2>2. ASSUME NEW i \in Nat, i \in S PROVE i + 1 \in S
    <3>1. CASE i + 1 <= n
      <4>1. i \in 0..(n - 1) /\ i \in 0..(m - 1)
        BY <3>1, <1>2
      <4>2. g[i] = h[i]
        BY <2>2, <4>1
      <4>3. g[i + 1] = Grown(g[i]) /\ h[i + 1] = Grown(h[i])
        BY <1>2, <4>1
      <4>. QED  BY <4>2, <4>3
    <3>2. CASE ~(i + 1 <= n)
      BY <3>2
    <3>. QED  BY <3>1, <3>2
  <2>3. Nat \subseteq S
    <3>. HIDE DEF S, Upto
    <3>. QED  BY <2>1, <2>2, NatSets
  <2>. QED  BY <2>3
<1>3. \A n \in Nat : Upto(best(n), n)
  <2>. HIDE DEF Upto
  <2>. QED  BY <1>1
<1>4. f[0] = Marks
  BY <1>3
<1>5. ASSUME NEW n \in Nat PROVE f[n + 1] = Grown(f[n])
  <2>1. Upto(best(n + 1), n + 1) /\ Upto(best(n), n)
    <3>. HIDE DEF best, Upto
    <3>. QED  BY <1>3
  <2>. HIDE DEF best
  <2>2. best(n)[n] = best(n + 1)[n]
    <3>. HIDE DEF Upto
    <3>1. n + 1 \in Nat /\ n <= n + 1
      OBVIOUS
    <3>. QED  BY <1>2, <2>1, <3>1
  <2>3. best(n + 1)[n + 1] = Grown(best(n + 1)[n])
    BY <2>1
  <2>. QED  BY <2>2, <2>3
<1>. HIDE DEF best, Upto
<1>6. DOMAIN f = Nat
  OBVIOUS
<1>7. Def(f)
  <2>1. ASSUME NEW n \in Nat PROVE f[n] = IF n = 0 THEN Marks ELSE Grown(f[n - 1])
    <3>. HIDE DEF f
    <3>1. CASE n = 0
      BY <1>4, <3>1
    <3>2. CASE n # 0
      <4>1. n - 1 \in Nat /\ (n - 1) + 1 = n
        BY <3>2
      <4>2. f[(n - 1) + 1] = Grown(f[n - 1])
        BY <1>5, <4>1
      <4>. QED  BY <3>2, <4>1, <4>2
    <3>. QED  BY <3>1, <3>2
  <2>2. f = [n \in Nat |-> f[n]]
    OBVIOUS
  <2>. HIDE DEF f
  <2>. QED  BY <2>1, <2>2
<1>8. Def(Level)
  <2>1. Level = CHOOSE g : Def(g)
    BY DEF Level
  <2>. HIDE DEF Def, f
  <2>. QED  BY <1>7, <2>1
<1>9. \A n \in Nat : Level[n] = IF n = 0 THEN Marks ELSE Grown(Level[n - 1])
  BY <1>8
<1>10. ASSUME NEW n \in Nat PROVE Level[n + 1] = Grown(Level[n])
  <2>1. n + 1 \in Nat /\ n + 1 # 0 /\ (n + 1) - 1 = n
    OBVIOUS
  <2>2. Level[n + 1] = Grown(Level[(n + 1) - 1])
    BY <1>9, <2>1
  <2>. QED  BY <2>1, <2>2
<1>. QED  BY <1>9, <1>10

(* The annotations are told by tag and key.                                *)
LEMMA MarkFacts ==
  /\ \A side : LET m == Mark(side) IN
        m.tag = "annotation" /\ m.key = "azt-lift-conflict" /\ m.kids = <<>>
        /\ m.val = {<<"value", side>>} /\ IsMark(m)
  /\ \A e : IsMark(e) <=> e.tag = "annotation" /\ e.key = "azt-lift-conflict"
  /\ MarkVals = {{<<"value", side>>} : side \in {"ours", "theirs", "conflict"}}
<1>1. \A side : LET m == Mark(side) IN
        m.tag = "annotation" /\ m.key = "azt-lift-conflict" /\ m.kids = <<>>
        /\ m.val = {<<"value", side>>}
  BY DEF Mark, Elem
<1>2. Key(Mark("ours")) = <<"annotation", "azt-lift-conflict">>
  BY <1>1 DEF Key
<1>3. \A e : IsMark(e) <=> e.tag = "annotation" /\ e.key = "azt-lift-conflict"
  <2>. SUFFICES ASSUME NEW e PROVE IsMark(e) <=> e.tag = "annotation" /\ e.key = "azt-lift-conflict"
    OBVIOUS
  <2>1. Key(e) = <<e.tag, e.key>>
    BY DEF Key
  <2>2. IsMark(e) <=> Key(e) = Key(Mark("ours"))
    BY DEF IsMark
  <2>. QED  BY <1>2, <2>1, <2>2
<1>4. MarkVals = {{<<"value", side>>} : side \in {"ours", "theirs", "conflict"}}
  <2>1. Marks = {Mark(side) : side \in {"ours", "theirs", "conflict"}}
    BY DEF Marks
  <2>2. MarkVals = {m.val : m \in Marks}
    BY DEF MarkVals
  <2>3. MarkVals \subseteq {{<<"value", side>>} : side \in {"ours", "theirs", "conflict"}}
    BY <1>1, <2>1, <2>2
  <2>4. {{<<"value", side>>} : side \in {"ours", "theirs", "conflict"}} \subseteq MarkVals
    <3>. SUFFICES ASSUME NEW side \in {"ours", "theirs", "conflict"}
                  PROVE  {<<"value", side>>} \in MarkVals
      OBVIOUS
    <3>1. Mark(side) \in Marks /\ Mark(side).val = {<<"value", side>>}
      BY <1>1, <2>1
    <3>. QED  BY <2>2, <3>1
  <2>. QED  BY <2>3, <2>4
<1>. QED
  <2>1. \A side : IsMark(Mark(side))
    BY <1>1, <1>3
  <2>. HIDE DEF MarkVals
  <2>. QED  BY <1>1, <1>3, <1>4, <2>1

(* The elements over some children, said as their fields.                  *)
LEMMA GrownIs ==
  ASSUME NEW S, NEW e
  PROVE  e \in Grown(S) <=>
            /\ e \in [tag : Names, key : Names, val : SUBSET Pairs, kids : Seq(S)]
            /\ IsMark(e) => e.val \in MarkVals
BY DEF Grown

(* An annotation is an element over any children.                          *)
LEMMA MarksGrow ==
  ASSUME Alphabet, NEW S
  PROVE  Marks \subseteq Grown(S)
<1>1. SUFFICES ASSUME NEW side \in {"ours", "theirs", "conflict"}
      PROVE  Mark(side) \in Grown(S)
  BY DEF Marks
<1>2. Mark(side) \in [tag : Names, key : Names, val : SUBSET Pairs, kids : Seq(S)]
  <2>1. /\ "annotation" \in Names /\ "azt-lift-conflict" \in Names
        /\ {<<"value", side>>} \in SUBSET Pairs
    BY DEF Alphabet
  <2>2. <<>> \in Seq(S)
    BY EmptySeq
  <2>3. Mark(side) = [tag |-> "annotation", key |-> "azt-lift-conflict",
                      val |-> {<<"value", side>>}, kids |-> <<>>]
    BY DEF Mark, Elem
  <2>. QED  BY <2>1, <2>2, <2>3
<1>3. Mark(side).val \in MarkVals
  BY DEF MarkVals, Marks
<1>. QED  BY <1>2, <1>3, GrownIs

(* More children make more elements.                                       *)
LEMMA GrownMono ==
  ASSUME NEW S, NEW T, S \subseteq T
  PROVE  Grown(S) \subseteq Grown(T)
<1>1. Seq(S) \subseteq Seq(T)
  BY SeqMonotonic
<1>. QED  BY <1>1 DEF Grown

(* A level is in those above it.                                           *)
LEMMA LevelUp ==
  ASSUME Alphabet, NEW m \in Nat, NEW n \in Nat, m <= n
  PROVE  Level[m] \subseteq Level[n]
<1>. DEFINE S == {k \in Nat : Level[k] \subseteq Level[k + 1]}
            T == {k \in Nat : Level[m] \subseteq Level[m + k]}
<1>1. Nat \subseteq S
  <2>1. 0 \in S
    BY Levels, MarksGrow
  <2>2. ASSUME NEW k \in Nat, k \in S PROVE k + 1 \in S
    <3>1. k + 1 \in Nat
      OBVIOUS
    <3>2. Level[k + 1] = Grown(Level[k]) /\ Level[(k + 1) + 1] = Grown(Level[k + 1])
      BY <3>1, Levels
    <3>3. Grown(Level[k]) \subseteq Grown(Level[k + 1])
      BY <2>2, GrownMono
    <3>. QED  BY <3>1, <3>2, <3>3
  <2>. HIDE DEF S
  <2>. QED  BY <2>1, <2>2, NatSets
<1>2. Nat \subseteq T
  <2>1. 0 \in T
    OBVIOUS
  <2>2. ASSUME NEW k \in Nat, k \in T PROVE k + 1 \in T
    <3>1. m + k \in S /\ m + (k + 1) = (m + k) + 1
      BY <1>1
    <3>. QED  BY <2>2, <3>1
  <2>. HIDE DEF T
  <2>. QED  BY <2>1, <2>2, NatSets
<1>3. n - m \in Nat /\ m + (n - m) = n
  OBVIOUS
<1>4. n - m \in T
  BY <1>2, <1>3
<1>. QED  BY <1>3, <1>4

(* Finitely many elements are of one level.                                *)
LEMMA SeqLevel ==
  ASSUME Alphabet, NEW s \in Seq(Trees)
  PROVE  \E n \in Nat : s \in Seq(Level[n])
<1>. DEFINE In(k) == \E n \in Nat : \A i \in 1..k : s[i] \in Level[n]
            S == {k \in Nat : k <= Len(s) => In(k)}
<1>1. Len(s) \in Nat /\ s \in [1..Len(s) -> Trees]
  OBVIOUS
<1>2. 0 \in S
  OBVIOUS
<1>3. ASSUME NEW k \in Nat, k \in S PROVE k + 1 \in S
  <2>1. CASE k + 1 <= Len(s)
    <3>1. PICK n \in Nat : \A i \in 1..k : s[i] \in Level[n]
      BY <1>1, <1>3, <2>1
    <3>2. s[k + 1] \in Trees
      BY <1>1, <2>1
    <3>3. PICK m \in Nat : s[k + 1] \in Level[m]
      BY <3>2 DEF Trees
    <3>4. PICK top \in Nat : n <= top /\ m <= top
      <4>1. n <= n + m /\ m <= n + m /\ n + m \in Nat
        OBVIOUS
      <4>. QED  BY <4>1
    <3>5. Level[n] \subseteq Level[top] /\ Level[m] \subseteq Level[top]
      BY <3>4, LevelUp
    <3>6. \A i \in 1..(k + 1) : i \in 1..k \/ i = k + 1
      OBVIOUS
    <3>7. \A i \in 1..(k + 1) : s[i] \in Level[top]
      BY <3>1, <3>3, <3>5, <3>6
    <3>8. In(k + 1)
      BY <3>7
    <3>9. k + 1 \in Nat
      OBVIOUS
    <3>. HIDE DEF In
    <3>. QED  BY <3>8, <3>9
  <2>2. CASE ~(k + 1 <= Len(s))
    <3>. HIDE DEF In
    <3>. QED  BY <2>2
  <2>. QED  BY <2>1, <2>2
<1>4. Nat \subseteq S
  <2>. HIDE DEF S
  <2>. QED  BY <1>2, <1>3, NatSets
<1>5. In(Len(s))
  <2>. HIDE DEF In
  <2>. QED  BY <1>1, <1>4
<1>6. PICK n \in Nat : \A i \in 1..Len(s) : s[i] \in Level[n]
  BY <1>5
<1>7. s \in Seq(Level[n])
  BY <1>1, <1>6
<1>. QED  BY <1>7

(* The trees are the least set that building keeps.                        *)
LEMMA TreesAre ==
  ASSUME Alphabet
  PROVE  /\ Trees = Grown(Trees)
         /\ Marks \subseteq Trees
         /\ \A n \in Nat : Level[n] \subseteq Trees
<1>1. \A n \in Nat : Level[n] \subseteq Trees
  BY DEF Trees
<1>2. ASSUME NEW e \in Trees PROVE e \in Grown(Trees)
  <2>1. PICK n \in Nat : e \in Level[n]
    BY DEF Trees
  <2>2. Level[n] \subseteq Level[n + 1] /\ Level[n + 1] = Grown(Level[n])
    BY Levels, LevelUp
  <2>3. Grown(Level[n]) \subseteq Grown(Trees)
    BY <1>1, GrownMono
  <2>. QED  BY <2>1, <2>2, <2>3
<1>3. ASSUME NEW e \in Grown(Trees) PROVE e \in Trees
  <2>1. /\ e \in [tag : Names, key : Names, val : SUBSET Pairs, kids : Seq(Trees)]
        /\ IsMark(e) => e.val \in MarkVals
    BY GrownIs
  <2>2. PICK n \in Nat : e.kids \in Seq(Level[n])
    BY <2>1, SeqLevel
  <2>3. e \in [tag : Names, key : Names, val : SUBSET Pairs, kids : Seq(Level[n])]
    BY <2>1, <2>2
  <2>4. e \in Grown(Level[n])
    BY <2>1, <2>3, GrownIs
  <2>5. n + 1 \in Nat /\ e \in Level[n + 1]
    BY <2>4, Levels
  <2>. QED  BY <1>1, <2>5
<1>4. Marks \subseteq Trees
  BY <1>1, Levels
<1>. QED  BY <1>1, <1>2, <1>3, <1>4

(* Induction on an element: what holds of one when it holds of its         *)
(* children holds of all.                                                  *)
LEMMA TreeInduction ==
  ASSUME Alphabet, NEW S, \A e \in Trees : e \in Grown(S) => e \in S
  PROVE  Trees \subseteq S
<1>. DEFINE T == {n \in Nat : Level[n] \subseteq S}
<1>1. 0 \in T
  BY Levels, MarksGrow, TreesAre
<1>2. ASSUME NEW n \in Nat, n \in T PROVE n + 1 \in T
  <2>1. Level[n + 1] = Grown(Level[n]) /\ Level[n + 1] \subseteq Trees
    BY Levels, TreesAre
  <2>2. Grown(Level[n]) \subseteq Grown(S)
    BY <1>2, GrownMono
  <2>. QED  BY <2>1, <2>2
<1>3. Nat \subseteq T
  <2>. HIDE DEF T
  <2>. QED  BY <1>1, <1>2, NatSets
<1>. QED  BY <1>3 DEF Trees

(* The fields of an element.                                               *)
LEMMA TreeFields ==
  ASSUME Alphabet, NEW e \in Trees
  PROVE  /\ e.tag \in Names /\ e.key \in Names /\ e.val \in SUBSET Pairs
         /\ e.kids \in Seq(Trees)
         /\ IsMark(e) => e.val \in MarkVals
BY TreesAre, GrownIs

(* An element with other children is an element, of the same tag and key.  *)
LEMMA NewKids ==
  ASSUME Alphabet, NEW e \in Trees, NEW kids \in Seq(Trees)
  PROVE  LET f == [e EXCEPT !.kids = kids] IN
           f \in Trees /\ f.tag = e.tag /\ f.key = e.key /\ f.val = e.val /\ f.kids = kids
           /\ Key(f) = Key(e) /\ (IsMark(f) <=> IsMark(e))
<1>. DEFINE f == [e EXCEPT !.kids = kids]
<1>1. e \in [tag : Names, key : Names, val : SUBSET Pairs, kids : Seq(Trees)]
  BY TreesAre, GrownIs
<1>2. /\ f \in [tag : Names, key : Names, val : SUBSET Pairs, kids : Seq(Trees)]
      /\ f.tag = e.tag /\ f.key = e.key /\ f.val = e.val /\ f.kids = kids
  BY <1>1
<1>. HIDE DEF f
<1>3. Key(f) = Key(e) /\ (IsMark(f) <=> IsMark(e))
  BY <1>2 DEF Key, IsMark
<1>4. f \in Grown(Trees)
  BY <1>2, <1>3, TreeFields, GrownIs
<1>5. f \in Trees
  BY <1>4, TreesAre
<1>6. f = [e EXCEPT !.kids = kids]
  BY DEF f
<1>. QED  BY <1>2, <1>3, <1>5, <1>6

-----------------------------------------------------------------------------
(* Each function that recurses is its definition, on the elements.         *)
Recursion ==
    /\ \A e \in Trees : Clean(e) = Cleaned(e)
    /\ \A e \in Trees : Normalize(e) = Normalized(e)
    /\ \A e \in Trees : Changes(e) = ChangesOf(e)
    /\ \A b, o, t \in Trees : \A multi \in BOOLEAN : MergePair(b, o, t, multi) = MergedPair(b, o, t, multi)
    /\ \A e \in Trees : \A path \in Seq(Names \X Names) : Nodes(e, path) = NodesIn(e, path)

(* A child is an annotation.                                               *)
Flagged(e) == \E i \in DOMAIN e.kids : IsMark(e.kids[i])

(* Of two forms of one key among the children each has an annotation.      *)
Shown(e) ==
    \A i, j \in DOMAIN e.kids :
        i # j /\ e.kids[i].tag = "form" /\ Key(e.kids[i]) = Key(e.kids[j]) => Side(e.kids[i]) # ""

(* The elements that show their conflicts, and whose children do.          *)
Good == UNION {S \in SUBSET Trees : \A e \in S : Shown(e) /\ e.kids \in Seq(S)}

(* A good element shows its conflicts and has good children, and what does *)
(* is good.                                                                *)
LEMMA GoodIs ==
  ASSUME NEW e
  PROVE  e \in Good <=> e \in Trees /\ Shown(e) /\ e.kids \in Seq(Good)
<1>. DEFINE Fine(S) == \A x \in S : Shown(x) /\ x.kids \in Seq(S)
<1>1. ASSUME NEW x \in Good PROVE x \in Trees /\ Shown(x) /\ x.kids \in Seq(Good)
  <2>1. PICK S \in SUBSET Trees : Fine(S) /\ x \in S
    BY DEF Good
  <2>2. S \subseteq Good
    BY <2>1 DEF Good
  <2>3. Seq(S) \subseteq Seq(Good)
    BY <2>2, SeqMonotonic
  <2>. QED  BY <2>1, <2>3
<1>2. ASSUME e \in Trees, Shown(e), e.kids \in Seq(Good) PROVE e \in Good
  <2>. DEFINE S == Good \cup {e}
  <2>1. Seq(Good) \subseteq Seq(S)
    BY SeqMonotonic
  <2>2. S \in SUBSET Trees
    BY <1>1, <1>2
  <2>3. Fine(S)
    BY <1>1, <1>2, <2>1
  <2>. HIDE DEF Fine, S
  <2>4. S \in {U \in SUBSET Trees : Fine(U)}
    BY <2>2, <2>3
  <2>5. e \in S
    BY DEF S
  <2>. QED  BY <2>4, <2>5 DEF Good, Fine
<1>. QED  BY <1>1, <1>2

(* Other children of the same set.                                         *)
LEMMA GrownKids ==
  ASSUME NEW S, NEW e \in Grown(S), NEW kids \in Seq(S)
  PROVE  LET f == [e EXCEPT !.kids = kids] IN
           f \in Grown(S) /\ f.tag = e.tag /\ f.key = e.key /\ f.val = e.val /\ f.kids = kids
<1>. DEFINE f == [e EXCEPT !.kids = kids]
<1>1. e \in [tag : Names, key : Names, val : SUBSET Pairs, kids : Seq(S)]
  BY GrownIs
<1>2. /\ f \in [tag : Names, key : Names, val : SUBSET Pairs, kids : Seq(S)]
      /\ f.tag = e.tag /\ f.key = e.key /\ f.val = e.val /\ f.kids = kids
  BY <1>1
<1>. HIDE DEF f
<1>3. IsMark(f) <=> IsMark(e)
  BY <1>2, MarkFacts
<1>4. f \in Grown(S)
  BY <1>2, <1>3, GrownIs
<1>5. f = [e EXCEPT !.kids = kids]
  BY DEF f
<1>. QED  BY <1>2, <1>4, <1>5

(* What is left without annotations has children of the same set.          *)
LEMMA CleanedIn ==
  ASSUME NEW S, NEW e, e.kids \in Seq(S), \A k \in S : Clean(k) \in S
  PROVE  \E ks \in Seq(S) : Cleaned(e) = [e EXCEPT !.kids = ks]
<1>. DEFINE P == {i \in DOMAIN e.kids : ~ IsMark(e.kids[i])}
            kept == At(e.kids, P)
            ks == [i \in DOMAIN kept |-> Clean(kept[i])]
<1>1. kept \in Seq(S)
  <2>1. P \in SUBSET (DOMAIN e.kids)
    OBVIOUS
  <2>. HIDE DEF P
  <2>. QED  BY <2>1, AtIs
<1>2. ks \in Seq(S)
  <2>. HIDE DEF kept
  <2>1. DOMAIN kept = 1..Len(kept) /\ Len(kept) \in Nat /\ \A i \in DOMAIN kept : kept[i] \in S
    BY <1>1
  <2>. QED  BY <2>1
<1>3. Eager(ks) = ks
  <2>. HIDE DEF ks
  <2>. QED  BY <1>2, EagerIs
<1>4. Cleaned(e) = [e EXCEPT !.kids = Eager(ks)]
  BY DEF Cleaned
<1>. HIDE DEF ks
<1>. QED  BY <1>2, <1>3, <1>4

(* The kids of an element are a level down; those of a mark are none.      *)
Below(n) == IF n = 0 THEN {} ELSE Level[n - 1]

(* A level is made of the elements over what is below it.                  *)
LEMMA LevelIs ==
  ASSUME Alphabet, NEW n \in Nat
  PROVE  /\ Level[n] \subseteq Grown(Below(n))
         /\ Below(n) \subseteq Level[n]
         /\ Below(n) \subseteq Trees
         /\ n # 0 => Level[n] = Grown(Below(n))
         /\ n # 0 => Marks \subseteq Below(n)
<1>1. CASE n = 0
  BY <1>1, Levels, MarksGrow DEF Below
<1>2. CASE n # 0
  <2>1. n - 1 \in Nat /\ (n - 1) + 1 = n /\ n - 1 <= n /\ 0 <= n - 1 /\ 0 \in Nat
    BY <1>2
  <2>2. Level[(n - 1) + 1] = Grown(Level[n - 1])
    BY <2>1, Levels
  <2>3. Level[n] = Grown(Level[n - 1])
    BY <2>1, <2>2
  <2>4. Level[n - 1] \subseteq Level[n] /\ Level[0] \subseteq Level[n - 1]
    BY <2>1, LevelUp
  <2>5. Level[n - 1] \subseteq Trees
    BY <2>1, TreesAre
  <2>. QED  BY <1>2, <2>3, <2>4, <2>5, Levels DEF Below
<1>. QED  BY <1>1, <1>2

(* Other children from below leave an element on its level.                *)
LEMMA LevelKids ==
  ASSUME Alphabet, NEW n \in Nat, NEW e \in Level[n], NEW kids \in Seq(Below(n))
  PROVE  LET f == [e EXCEPT !.kids = kids] IN
           f \in Level[n] /\ f.tag = e.tag /\ f.key = e.key /\ f.val = e.val /\ f.kids = kids
<1>. DEFINE f == [e EXCEPT !.kids = kids]
<1>1. e \in Grown(Below(n))
  BY LevelIs
<1>2. f \in Grown(Below(n)) /\ f.tag = e.tag /\ f.key = e.key /\ f.val = e.val /\ f.kids = kids
  BY <1>1, GrownKids
<1>3. CASE n # 0
  BY <1>2, <1>3, LevelIs
<1>4. CASE n = 0
  <2>1. kids = <<>>
    <3>1. kids \in Seq({})
      BY <1>4 DEF Below
    <3>. QED  BY <3>1
  <2>2. e \in Marks /\ e.kids = <<>>
    BY <1>4, Levels, MarkFacts DEF Marks
  <2>3. f = e
    <3>1. e \in [tag : Names, key : Names, val : SUBSET Pairs, kids : Seq(Below(n))]
      BY <1>1, GrownIs
    <3>. QED  BY <2>1, <2>2, <3>1
  <2>. QED  BY <1>2, <2>3
<1>. QED  BY <1>3, <1>4

(* Every element is of some level.                                         *)
LEMMA TreeLevel ==
  ASSUME NEW e \in Trees
  PROVE  \E n \in Nat : e \in Level[n]
BY DEF Trees

(* An element without its annotations is of the same level, tag and key.   *)
LEMMA CleanLevel ==
  ASSUME Alphabet, Recursion
  PROVE  \A n \in Nat : \A e \in Level[n] :
            /\ Clean(e) \in Level[n]
            /\ Clean(e).tag = e.tag /\ Clean(e).key = e.key /\ Clean(e).val = e.val
<1>. DEFINE Fine(n) == \A e \in Level[n] :
                          /\ Clean(e) \in Level[n]
                          /\ Clean(e).tag = e.tag /\ Clean(e).key = e.key /\ Clean(e).val = e.val
            T == {n \in Nat : Fine(n)}
<1>1. ASSUME NEW n \in Nat, \A k \in Below(n) : Clean(k) \in Below(n)
      PROVE  Fine(n)
  <2>1. SUFFICES ASSUME NEW e \in Level[n]
        PROVE  /\ Clean(e) \in Level[n]
               /\ Clean(e).tag = e.tag /\ Clean(e).key = e.key /\ Clean(e).val = e.val
    OBVIOUS
  <2>2. e.kids \in Seq(Below(n))
    BY LevelIs, GrownIs
  <2>3. PICK ks \in Seq(Below(n)) : Cleaned(e) = [e EXCEPT !.kids = ks]
    BY <1>1, <2>2, CleanedIn
  <2>4. Clean(e) = Cleaned(e)
    BY TreesAre DEF Recursion
  <2>. QED  BY <2>3, <2>4, LevelKids
<1>2. 0 \in T
  <2>1. \A k \in Below(0) : Clean(k) \in Below(0)
    BY DEF Below
  <2>. HIDE DEF Fine
  <2>. QED  BY <1>1, <2>1
<1>3. ASSUME NEW n \in Nat, n \in T PROVE n + 1 \in T
  <2>1. n + 1 \in Nat /\ Below(n + 1) = Level[n]
    BY DEF Below
  <2>2. \A k \in Below(n + 1) : Clean(k) \in Below(n + 1)
    BY <1>3, <2>1
  <2>. HIDE DEF Fine
  <2>. QED  BY <1>1, <2>1, <2>2
<1>4. Nat \subseteq T
  <2>. HIDE DEF T
  <2>. QED  BY <1>2, <1>3, NatSets
<1>. QED  BY <1>4

(* An element without its annotations (_strip_conflict_annotations) is     *)
(* one, of the same tag and key.                                           *)
LEMMA CleanIs ==
  ASSUME Alphabet, Recursion, NEW e \in Trees
  PROVE  /\ Clean(e) \in Trees
         /\ Clean(e).tag = e.tag /\ Clean(e).key = e.key /\ Clean(e).val = e.val
         /\ Key(Clean(e)) = Key(e)
<1>1. PICK n \in Nat : e \in Level[n]
  BY TreeLevel
<1>. QED  BY <1>1, CleanLevel, TreesAre DEF Key

(* _conflict_side says a side just of what has an annotation.              *)
LEMMA SideIs ==
  ASSUME Alphabet, NEW e \in Trees
  PROVE  Side(e) # "" <=> Flagged(e)
<1>. DEFINE P == {i \in DOMAIN e.kids : IsMark(e.kids[i])}
            marks == At(e.kids, P)
<1>1. e.kids \in Seq(Trees)
  BY TreeFields
<1>2. /\ marks \in Seq(Trees)
      /\ \A n \in DOMAIN marks : \E i \in P : marks[n] = e.kids[i]
      /\ \A i \in P : \E n \in DOMAIN marks : marks[n] = e.kids[i]
  <2>1. P \in SUBSET (DOMAIN e.kids)
    OBVIOUS
  <2>. HIDE DEF P
  <2>. QED  BY <1>1, <2>1, AtIs
<1>3. Side(e) = IF marks = <<>> THEN "" ELSE (CHOOSE v \in marks[1].val : TRUE)[2]
  BY DEF Side
<1>4. Flagged(e) <=> P # {}
  BY DEF Flagged
<1>5. CASE marks = <<>>
  <2>1. P = {}
    <3>. HIDE DEF marks, P
    <3>1. DOMAIN marks = {}
      BY <1>5
    <3>. QED  BY <1>2, <3>1
  <2>. QED  BY <1>3, <1>4, <1>5, <2>1
<1>6. CASE marks # <<>>
  <2>1. 1 \in DOMAIN marks
    <3>. HIDE DEF marks
    <3>. QED  BY <1>2, <1>6
  <2>2. PICK i \in P : marks[1] = e.kids[i]
    <3>. HIDE DEF marks, P
    <3>. QED  BY <1>2, <2>1
  <2>3. IsMark(marks[1]) /\ marks[1] \in Trees
    <3>1. i \in DOMAIN e.kids /\ IsMark(e.kids[i])
      BY <2>2
    <3>2. e.kids[i] \in Trees
      BY <1>1, <3>1
    <3>3. marks[1] = e.kids[i]
      BY <2>2
    <3>4. IsMark(marks[1])
      BY <3>1, <3>3, Zenon
    <3>5. marks[1] \in Trees
      BY <3>2, <3>3, Zenon
    <3>. QED  BY <3>4, <3>5
  <2>4. marks[1].val \in MarkVals
    <3>. HIDE DEF marks
    <3>. QED  BY <2>3, TreeFields
  <2>5. PICK side \in {"ours", "theirs", "conflict"} : marks[1].val = {<<"value", side>>}
    <3>. HIDE DEF marks
    <3>. QED  BY <2>4, MarkFacts
  <2>6. (CHOOSE v \in marks[1].val : TRUE)[2] = side
    <3>. HIDE DEF marks
    <3>1. (CHOOSE v \in marks[1].val : TRUE) = <<"value", side>>
      BY <2>5
    <3>2. <<"value", side>>[2] = side
      OBVIOUS
    <3>. QED  BY <3>1, <3>2, Zenon
  <2>. HIDE DEF marks, P
  <2>7. Side(e) = side
    BY <1>3, <1>6, <2>6, Zenon
  <2>8. P # {}
    BY <2>2
  <2>. QED  BY <1>4, <2>7, <2>8
<1>. QED  BY <1>5, <1>6

-----------------------------------------------------------------------------
(* A function on the first numbers is a sequence.                          *)
LEMMA EagerFun ==
  ASSUME NEW n \in Nat, NEW f, f = [i \in 1..n |-> f[i]]
  PROVE  /\ f \in Seq(Range(f)) /\ DOMAIN f = 1..n /\ Len(f) = n
         /\ Eager(f) = f
<1>1. \A i \in 1..n : f[i] \in Range(f)
  BY DEF Range
<1>2. f \in [1..n -> Range(f)]
  BY <1>1
<1>3. f \in Seq(Range(f))
  BY <1>2
<1>. QED  BY <1>2, <1>3, EagerIs

(* What is in a sequence is in another.                                    *)
Holds(all, p) == \A n \in DOMAIN p : \E m \in DOMAIN all : all[m] = p[n]

(* Two sequences, one after the other.                                     *)
LEMMA JoinTwo ==
  ASSUME NEW S, NEW q \in Seq(S), NEW r \in Seq(S)
  PROVE  /\ q \o r \in Seq(S)
         /\ Holds(q \o r, q) /\ Holds(q \o r, r)
<1>1. q \o r \in Seq(S)
  OBVIOUS
<1>2. \A n \in DOMAIN q : n \in DOMAIN (q \o r) /\ (q \o r)[n] = q[n]
  OBVIOUS
<1>3. \A n \in DOMAIN r : Len(q) + n \in DOMAIN (q \o r) /\ (q \o r)[Len(q) + n] = r[n]
  OBVIOUS
<1>4. \A n \in DOMAIN q : \E m \in DOMAIN (q \o r) : (q \o r)[m] = q[n]
  BY <1>2, Zenon
<1>5. \A n \in DOMAIN r : \E m \in DOMAIN (q \o r) : (q \o r)[m] = r[n]
  BY <1>3, Zenon
<1>. QED  BY <1>1, <1>4, <1>5, Zenon DEF Holds

(* And four.                                                               *)
LEMMA JoinIs ==
  ASSUME NEW S, NEW p1 \in Seq(S), NEW p2 \in Seq(S), NEW p3 \in Seq(S), NEW p4 \in Seq(S)
  PROVE  LET all == p1 \o p2 \o p3 \o p4 IN
         /\ all \in Seq(S)
         /\ Holds(all, p1) /\ Holds(all, p2) /\ Holds(all, p3) /\ Holds(all, p4)
<1>1. ASSUME NEW q \in Seq(S), NEW r \in Seq(S)
      PROVE  q \o r \in Seq(S) /\ Holds(q \o r, q) /\ Holds(q \o r, r)
  BY JoinTwo, Zenon
<1>2. ASSUME NEW x, NEW y, NEW z, Holds(x, y), Holds(y, z) PROVE Holds(x, z)
  <2>1. ASSUME NEW n \in DOMAIN z PROVE \E m \in DOMAIN x : x[m] = z[n]
    <3>1. PICK l \in DOMAIN y : y[l] = z[n]
      BY <1>2 DEF Holds
    <3>2. PICK m \in DOMAIN x : x[m] = y[l]
      BY <1>2 DEF Holds
    <3>. QED  BY <3>1, <3>2
  <2>. QED  BY <2>1 DEF Holds
<1>3. /\ p1 \o p2 \in Seq(S)
      /\ Holds(p1 \o p2, p1) /\ Holds(p1 \o p2, p2)
  BY <1>1, Zenon
<1>4. /\ p1 \o p2 \o p3 \in Seq(S)
      /\ Holds(p1 \o p2 \o p3, p1 \o p2) /\ Holds(p1 \o p2 \o p3, p3)
  BY <1>1, <1>3, Zenon
<1>5. /\ p1 \o p2 \o p3 \o p4 \in Seq(S)
      /\ Holds(p1 \o p2 \o p3 \o p4, p1 \o p2 \o p3) /\ Holds(p1 \o p2 \o p3 \o p4, p4)
  BY <1>1, <1>4, Zenon
<1>6. Holds(p1 \o p2 \o p3 \o p4, p3) /\ Holds(p1 \o p2 \o p3 \o p4, p1 \o p2)
  BY <1>2, <1>4, <1>5, Zenon
<1>7. Holds(p1 \o p2 \o p3 \o p4, p1) /\ Holds(p1 \o p2 \o p3 \o p4, p2)
  BY <1>2, <1>3, <1>6, Zenon
<1>. QED  BY <1>5, <1>6, <1>7, Zenon

(* What stands for no element is one, and the file cut short is a good     *)
(* file.                                                                   *)
LEMMA NoneIs ==
  ASSUME Alphabet
  PROVE  /\ None \in Trees /\ None \in Good
         /\ None.tag = "" /\ None.key = "" /\ None.kids = <<>>
         /\ CutShort \in Seq(Good)
<1>1. None = [tag |-> "", key |-> "", val |-> {}, kids |-> <<>>]
  BY DEF None, Elem
<1>2. "" \in Names /\ {} \in SUBSET Pairs /\ <<>> \in Seq(Trees) /\ <<>> \in Seq(Good)
  BY EmptySeq DEF Alphabet
<1>3. None \in [tag : Names, key : Names, val : SUBSET Pairs, kids : Seq(Trees)]
  BY <1>1, <1>2
<1>9. None.tag = "" /\ None.key = "" /\ None.kids = <<>>
  BY <1>1
<1>4. ~ IsMark(None)
  BY <1>9, MarkFacts
<1>5. None \in Trees
  BY <1>3, <1>4, GrownIs, TreesAre
<1>6. Shown(None)
  <2>1. DOMAIN <<>> = {}
    OBVIOUS
  <2>2. \A i \in DOMAIN None.kids : FALSE
    BY <1>9, <2>1, Zenon
  <2>. QED  BY <2>2 DEF Shown
<1>7. None \in Good
  BY <1>9, <1>2, <1>5, <1>6, GoodIs
<1>8. CutShort \in Seq(Good)
  BY <1>7 DEF CutShort
<1>. QED  BY <1>5, <1>7, <1>8, <1>9

(* The contents of elements are as many as they are.                       *)
LEMMA ContentsIs ==
  ASSUME Alphabet, Recursion, NEW s \in Seq(Trees)
  PROVE  /\ Contents(s) \in Seq(Range(Contents(s)))
         /\ DOMAIN Contents(s) = DOMAIN s
         /\ \A i, j \in DOMAIN s : Contents(s)[i] = Contents(s)[j] => i = j
<1>. DEFINE clean == Eager([i \in DOMAIN s |-> Clean(s[i])])
            upto(i) == {j \in 1..i : clean[j] = clean[i]}
            f == [i \in DOMAIN s |-> <<clean[i], Cardinality(upto(i))>>]
<1>1. DOMAIN s = 1..Len(s) /\ Len(s) \in Nat
  OBVIOUS
<1>2. Contents(s) = Eager(f)
  BY DEF Contents
<1>. HIDE DEF clean
<1>3. DOMAIN f = DOMAIN s /\ f = [i \in 1..Len(s) |-> f[i]]
  BY <1>1
<1>4. ASSUME NEW i \in DOMAIN s, NEW j \in DOMAIN s, i < j, clean[i] = clean[j]
      PROVE  Cardinality(upto(i)) # Cardinality(upto(j))
  <2>1. i \in 1..Len(s) /\ j \in 1..Len(s) /\ j \in Int
    BY <1>1
  <2>2. IsFiniteSet(upto(j))
    <3>1. \A m \in Int : IsFiniteSet(1..m)
      <4>1. 1 \in Int
        OBVIOUS
      <4>. QED  BY <4>1, FS_Interval
    <3>2. IsFiniteSet(1..j)
      BY <2>1, <3>1, Zenon
    <3>3. upto(j) \in SUBSET (1..j)
      OBVIOUS
    <3>. HIDE DEF upto
    <3>. QED  BY <3>2, <3>3, FS_Subset
  <2>3. j \in upto(j) /\ j \notin upto(i) /\ upto(i) \in SUBSET upto(j)
    BY <1>4, <2>1
  <2>. HIDE DEF upto
  <2>. QED  BY <2>2, <2>3, FS_Subset
<1>5. ASSUME NEW i \in DOMAIN s, NEW j \in DOMAIN s, f[i] = f[j] PROVE i = j
  <2>1. clean[i] = clean[j] /\ Cardinality(upto(i)) = Cardinality(upto(j))
    BY <1>5
  <2>2. i \in Nat /\ j \in Nat
    BY <1>1
  <2>. HIDE DEF upto, f
  <2>3. ~(i < j)
    BY <1>4, <2>1
  <2>4. ~(j < i)
    BY <1>4, <2>1
  <2>. QED  BY <2>2, <2>3, <2>4
<1>. HIDE DEF f
<1>6. Eager(f) = f /\ f \in Seq(Range(f))
  BY <1>1, <1>3, EagerFun
<1>. QED  BY <1>2, <1>3, <1>5, <1>6

(* The elements in a set: all of them, and elements.                       *)
LEMMA AmongIs ==
  ASSUME NEW S, NEW s \in Seq(S), NEW R
  PROVE  /\ Among(s, R) \in Seq(S)
         /\ \A i \in DOMAIN s : s[i] \in R => \E n \in DOMAIN Among(s, R) : Among(s, R)[n] = s[i]
<1>. DEFINE P == {i \in DOMAIN s : s[i] \in R}
<1>1. P \in SUBSET (DOMAIN s)
  OBVIOUS
<1>2. Among(s, R) = At(s, P)
  BY DEF Among
<1>3. \A i \in DOMAIN s : s[i] \in R => i \in P
  OBVIOUS
<1>. HIDE DEF P
<1>4. At(s, P) \in Seq(S) /\ \A i \in P : \E n \in DOMAIN At(s, P) : At(s, P)[n] = s[i]
  BY <1>1, AtIs
<1>. QED  BY <1>2, <1>3, <1>4

(* The same, of one element.                                               *)
LEMMA AmongHas ==
  ASSUME NEW S, NEW s \in Seq(S), NEW R, NEW i \in DOMAIN s, s[i] \in R
  PROVE  \E n \in DOMAIN Among(s, R) : Among(s, R)[n] = s[i]
BY AmongIs

(* The elements whose content is not among some others are elements.       *)
LEMMA UnlikeType ==
  ASSUME NEW S, NEW s \in Seq(S), NEW c, NEW R
  PROVE  Unlike(s, c, R) \in Seq(S)
<1>. DEFINE P == {n \in DOMAIN s : c[n] \notin R}
<1>1. P \in SUBSET (DOMAIN s)
  OBVIOUS
<1>2. Unlike(s, c, R) = At(s, P)
  BY DEF Unlike
<1>. HIDE DEF P
<1>. QED  BY <1>1, <1>2, AtIs

(* And all of those are there.                                             *)
LEMMA UnlikeHas ==
  ASSUME NEW S, NEW s \in Seq(S), NEW c, NEW R, NEW i \in DOMAIN s, c[i] \notin R
  PROVE  \E n \in DOMAIN Unlike(s, c, R) : Unlike(s, c, R)[n] = s[i]
<1>. DEFINE P == {n \in DOMAIN s : c[n] \notin R}
<1>1. P \in SUBSET (DOMAIN s) /\ i \in P
  OBVIOUS
<1>2. Unlike(s, c, R) = At(s, P)
  BY DEF Unlike
<1>. HIDE DEF P
<1>3. \E n \in DOMAIN At(s, P) : At(s, P)[n] = s[i]
  BY <1>1, AtIs
<1>. QED  BY <1>2, <1>3

(* The element of a content, or none.                                      *)
LEMMA OfContentType ==
  ASSUME NEW S, None \in S, NEW s \in Seq(S), NEW c, DOMAIN c = DOMAIN s, NEW content
  PROVE  OfContent(s, c, content) \in S
<1>1. CASE content \in Range(c)
  <2>1. \E i \in DOMAIN c : c[i] = content
    BY <1>1 DEF Range
  <2>2. (CHOOSE i \in DOMAIN c : c[i] = content) \in DOMAIN s
    BY <2>1
  <2>. QED  BY <1>1, <2>2 DEF OfContent
<1>2. CASE content \notin Range(c)
  BY <1>2 DEF OfContent
<1>. QED  BY <1>1, <1>2

(* Where no two contents are the same, that of an element has that         *)
(* element.                                                                *)
LEMMA OfContentIs ==
  ASSUME NEW s, NEW c, \A i, j \in DOMAIN c : c[i] = c[j] => i = j, NEW i \in DOMAIN c
  PROVE  OfContent(s, c, c[i]) = s[i]
<1>1. c[i] \in Range(c)
  BY DEF Range
<1>2. (CHOOSE j \in DOMAIN c : c[j] = c[i]) = i
  OBVIOUS
<1>. QED  BY <1>1, <1>2 DEF OfContent

(* An element of base, of ours and of theirs.                              *)
TriplesOf(B, A, C) == B \X A \X C

(* Every element of a side is in one of the pairs.                         *)
Covers(pairs, k, s) == \A i \in DOMAIN s : \E n \in DOMAIN pairs : pairs[n][k] = s[i]

(* _pair_same_key pairs what it is given: each of a pair is of its side,   *)
(* or none, and every element of ours and of theirs is in a pair.          *)
LEMMA PairSameKeyIs ==
  ASSUME Alphabet, Recursion,
         NEW B \in SUBSET Trees, NEW A \in SUBSET Trees, NEW C \in SUBSET Trees,
         None \in B, None \in A, None \in C,
         NEW bs \in Seq(B), NEW os \in Seq(A), NEW ts \in Seq(C)
  PROVE  LET pairs == PairSameKey(bs, os, ts) IN
         /\ pairs \in Seq(TriplesOf(B, A, C))
         /\ Covers(pairs, 2, os) /\ Covers(pairs, 3, ts)
<1>. DEFINE b == Contents(bs)
            o == Contents(os)
            t == Contents(ts)
            triple(content) == <<OfContent(bs, b, content), OfContent(os, o, content), OfContent(ts, t, content)>>
            Triples(found) ==
              [n \in DOMAIN found |->
                <<OfContent(bs, b, found[n]), OfContent(os, o, found[n]), OfContent(ts, t, found[n])>>]
            bLeft == Unlike(bs, b, Range(o) \cup Range(t))
            oLeft == Unlike(os, o, Range(b) \cup Range(t))
            tLeft == Unlike(ts, t, Range(b) \cup Range(o))
            rest == [i \in 1..Most(Len(oLeft), Len(tLeft)) |->
                       <<OrNone(bLeft, i), OrNone(oLeft, i), OrNone(tLeft, i)>>]
            p1 == Triples(Among(o, Range(t)))
            p2 == Triples(Among(o, Range(b) \ Range(t)))
            p3 == Triples(Among(t, Range(b) \ Range(o)))
            pairs == p1 \o p2 \o p3 \o rest
<1>1. PairSameKey(bs, os, ts) = pairs
  BY DEF PairSameKey
<1>2. bs \in Seq(Trees) /\ os \in Seq(Trees) /\ ts \in Seq(Trees)
  BY SeqMonotonic
<1>3. /\ b \in Seq(Range(b)) /\ DOMAIN b = DOMAIN bs
      /\ o \in Seq(Range(o)) /\ DOMAIN o = DOMAIN os
      /\ t \in Seq(Range(t)) /\ DOMAIN t = DOMAIN ts
  BY <1>2, ContentsIs
<1>4. \A i, j \in DOMAIN os : o[i] = o[j] => i = j
  BY <1>2, ContentsIs
<1>5. \A i, j \in DOMAIN ts : t[i] = t[j] => i = j
  BY <1>2, ContentsIs
<1>. HIDE DEF b, o, t
<1>6. \A content : triple(content) \in TriplesOf(B, A, C)
  <2>1. \A content : OfContent(bs, b, content) \in B
    BY <1>3, OfContentType
  <2>2. \A content : OfContent(os, o, content) \in A
    BY <1>3, OfContentType
  <2>3. \A content : OfContent(ts, t, content) \in C
    BY <1>3, OfContentType
  <2>. QED  BY <2>1, <2>2, <2>3 DEF TriplesOf
<1>7. \A i \in DOMAIN os : triple(o[i])[2] = os[i]
  <2>1. \A i, j \in DOMAIN o : o[i] = o[j] => i = j
    BY <1>3, <1>4
  <2>2. \A i \in DOMAIN o : OfContent(os, o, o[i]) = os[i]
    BY <2>1, OfContentIs
  <2>. QED  BY <1>3, <2>2
<1>8. \A i \in DOMAIN ts : triple(t[i])[3] = ts[i]
  <2>1. \A i, j \in DOMAIN t : t[i] = t[j] => i = j
    BY <1>3, <1>5
  <2>2. \A i \in DOMAIN t : OfContent(ts, t, t[i]) = ts[i]
    BY <2>1, OfContentIs
  <2>. QED  BY <1>3, <2>2
<1>9. ASSUME NEW S, NEW found \in Seq(S)
      PROVE  /\ Triples(found) \in Seq(TriplesOf(B, A, C))
             /\ \A n \in DOMAIN found : n \in DOMAIN Triples(found) /\ Triples(found)[n] = triple(found[n])
  <2>1. DOMAIN found = 1..Len(found) /\ Len(found) \in Nat
    OBVIOUS
  <2>2. /\ DOMAIN Triples(found) = DOMAIN found
        /\ Triples(found) = [n \in DOMAIN found |-> Triples(found)[n]]
        /\ \A n \in DOMAIN found : Triples(found)[n] = triple(found[n])
    OBVIOUS
  <2>. HIDE DEF triple, Triples
  <2>3. \A n \in 1..Len(found) : Triples(found)[n] \in TriplesOf(B, A, C)
    BY <1>6, <2>1, <2>2
  <2>. QED  BY <2>1, <2>2, <2>3
<1>. HIDE DEF triple, Triples
<1>10. /\ p1 \in Seq(TriplesOf(B, A, C)) /\ p2 \in Seq(TriplesOf(B, A, C))
       /\ p3 \in Seq(TriplesOf(B, A, C))
  BY <1>3, <1>9, AmongIs
<1>11. bLeft \in Seq(B) /\ oLeft \in Seq(A) /\ tLeft \in Seq(C)
  BY UnlikeType
<1>12. /\ Len(oLeft) \in Nat /\ DOMAIN oLeft = 1..Len(oLeft)
       /\ Len(tLeft) \in Nat /\ DOMAIN tLeft = 1..Len(tLeft)
  <2>. HIDE DEF oLeft, tLeft
  <2>. QED  BY <1>11
<1>13. /\ rest \in Seq(TriplesOf(B, A, C))
       /\ \A n \in DOMAIN oLeft : n \in DOMAIN rest /\ rest[n][2] = oLeft[n]
       /\ \A n \in DOMAIN tLeft : n \in DOMAIN rest /\ rest[n][3] = tLeft[n]
  <2>. HIDE DEF bLeft, oLeft, tLeft
  <2>1. /\ Most(Len(oLeft), Len(tLeft)) \in Nat
        /\ Len(oLeft) <= Most(Len(oLeft), Len(tLeft))
        /\ Len(tLeft) <= Most(Len(oLeft), Len(tLeft))
    BY <1>12 DEF Most
  <2>2. ASSUME NEW S, NEW elems \in Seq(S), None \in S, NEW i \in Nat \ {0} PROVE OrNone(elems, i) \in S
    BY <2>2 DEF OrNone
  <2>3. ASSUME NEW i \in 1..Most(Len(oLeft), Len(tLeft))
        PROVE  <<OrNone(bLeft, i), OrNone(oLeft, i), OrNone(tLeft, i)>> \in TriplesOf(B, A, C)
    <3>1. i \in Nat \ {0}
      BY <2>1
    <3>2. OrNone(bLeft, i) \in B /\ OrNone(oLeft, i) \in A /\ OrNone(tLeft, i) \in C
      BY <1>11, <2>2, <3>1
    <3>. QED  BY <3>2 DEF TriplesOf
  <2>4. rest \in Seq(TriplesOf(B, A, C))
    BY <2>1, <2>3
  <2>5. ASSUME NEW n \in DOMAIN oLeft PROVE n \in DOMAIN rest /\ rest[n][2] = oLeft[n]
    <3>1. n \in DOMAIN rest /\ OrNone(oLeft, n) = oLeft[n]
      BY <1>12, <2>1 DEF OrNone
    <3>. QED  BY <3>1
  <2>6. ASSUME NEW n \in DOMAIN tLeft PROVE n \in DOMAIN rest /\ rest[n][3] = tLeft[n]
    <3>1. n \in DOMAIN rest /\ OrNone(tLeft, n) = tLeft[n]
      BY <1>12, <2>1 DEF OrNone
    <3>. QED  BY <3>1
  <2>. HIDE DEF rest
  <2>. QED  BY <2>4, <2>5, <2>6
<1>14. /\ pairs \in Seq(TriplesOf(B, A, C))
       /\ Holds(pairs, p1) /\ Holds(pairs, p2) /\ Holds(pairs, p3) /\ Holds(pairs, rest)
  <2>. HIDE DEF p1, p2, p3, rest
  <2>. QED  BY <1>10, <1>13, JoinIs, Zenon
<1>. HIDE DEF rest, pairs
<1>15. ASSUME NEW S, NEW c \in Seq(S), NEW i \in DOMAIN c, NEW R, c[i] \in R
       PROVE  \E n \in DOMAIN Triples(Among(c, R)) : Triples(Among(c, R))[n] = triple(c[i])
  <2>1. Among(c, R) \in Seq(S)
    BY AmongIs
  <2>2. \E n \in DOMAIN Among(c, R) : Among(c, R)[n] = c[i]
    BY <1>15, AmongHas, Zenon
  <2>3. PICK n \in DOMAIN Among(c, R) : Among(c, R)[n] = c[i]
    BY <2>2
  <2>4. n \in DOMAIN Triples(Among(c, R)) /\ Triples(Among(c, R))[n] = triple(c[i])
    BY <1>9, <2>1, <2>3
  <2>. QED  BY <2>4
<1>16. ASSUME NEW i \in DOMAIN os PROVE \E n \in DOMAIN pairs : pairs[n][2] = os[i]
  <2>1. i \in DOMAIN o /\ triple(o[i])[2] = os[i]
    BY <1>3, <1>7
  <2>2. ASSUME NEW p, Holds(pairs, p), \E n \in DOMAIN p : p[n] = triple(o[i])
        PROVE  \E n \in DOMAIN pairs : pairs[n][2] = os[i]
    BY <2>1, <2>2 DEF Holds
  <2>3. CASE o[i] \in Range(t)
    <3>1. \E n \in DOMAIN p1 : p1[n] = triple(o[i])
      BY <1>3, <1>15, <2>1, <2>3
    <3>. HIDE DEF p1
    <3>. QED  BY <1>14, <2>2, <3>1
  <2>4. CASE o[i] \in Range(b) \ Range(t)
    <3>1. \E n \in DOMAIN p2 : p2[n] = triple(o[i])
      BY <1>3, <1>15, <2>1, <2>4
    <3>. HIDE DEF p2
    <3>. QED  BY <1>14, <2>2, <3>1
  <2>5. CASE o[i] \notin Range(b) \cup Range(t)
    <3>1. \E n \in DOMAIN oLeft : oLeft[n] = os[i]
      <4>. DEFINE R == Range(b) \cup Range(t)
      <4>1. o[i] \notin R
        BY <2>5
      <4>2. oLeft = Unlike(os, o, R)
        OBVIOUS
      <4>. HIDE DEF R, oLeft
      <4>. QED  BY <4>1, <4>2, UnlikeHas
    <3>. HIDE DEF oLeft
    <3>2. PICK n \in DOMAIN rest : rest[n][2] = os[i]
      BY <1>13, <3>1
    <3>. QED  BY <1>14, <3>2 DEF Holds
  <2>. QED  BY <2>3, <2>4, <2>5
<1>17. ASSUME NEW i \in DOMAIN ts PROVE \E n \in DOMAIN pairs : pairs[n][3] = ts[i]
  <2>1. i \in DOMAIN t /\ triple(t[i])[3] = ts[i]
    BY <1>3, <1>8
  <2>2. ASSUME NEW p, Holds(pairs, p), \E n \in DOMAIN p : p[n] = triple(t[i])
        PROVE  \E n \in DOMAIN pairs : pairs[n][3] = ts[i]
    BY <2>1, <2>2 DEF Holds
  <2>3. CASE t[i] \in Range(o)
    <3>1. PICK j \in DOMAIN o : o[j] = t[i]
      BY <2>3 DEF Range
    <3>2. o[j] \in Range(t)
      BY <2>1, <3>1 DEF Range
    <3>3. \E n \in DOMAIN p1 : p1[n] = triple(o[j])
      BY <1>3, <1>15, <3>2
    <3>. HIDE DEF p1
    <3>. QED  BY <1>14, <2>2, <3>1, <3>3
  <2>4. CASE t[i] \in Range(b) \ Range(o)
    <3>1. \E n \in DOMAIN p3 : p3[n] = triple(t[i])
      BY <1>3, <1>15, <2>1, <2>4
    <3>. HIDE DEF p3
    <3>. QED  BY <1>14, <2>2, <3>1
  <2>5. CASE t[i] \notin Range(b) \cup Range(o)
    <3>1. \E n \in DOMAIN tLeft : tLeft[n] = ts[i]
      <4>. DEFINE R == Range(b) \cup Range(o)
      <4>1. t[i] \notin R
        BY <2>5
      <4>2. tLeft = Unlike(ts, t, R)
        OBVIOUS
      <4>. HIDE DEF R, tLeft
      <4>. QED  BY <4>1, <4>2, UnlikeHas
    <3>. HIDE DEF tLeft
    <3>2. PICK n \in DOMAIN rest : rest[n][3] = ts[i]
      BY <1>13, <3>1
    <3>. QED  BY <1>14, <3>2 DEF Holds
  <2>. QED  BY <2>3, <2>4, <2>5
<1>18. Covers(pairs, 2, os) /\ Covers(pairs, 3, ts)
  BY <1>16, <1>17 DEF Covers
<1>. QED  BY <1>1, <1>14, <1>18

(* The least of some numbers.                                              *)
LEMMA NatLeast ==
  ASSUME NEW S \in SUBSET Nat, S # {}
  PROVE  \E m \in S : \A n \in S : m <= n
<1>. DEFINE less == OpToRel(<, Nat)
<1>1. \A x, y \in Nat : <<x, y>> \in less <=> x < y
  BY DEF OpToRel
<1>2. IsWellFoundedOn(less, Nat)
  BY NatLessThanWellFounded
<1>3. PICK m \in S : \A n \in S : <<n, m>> \notin less
  <2>. HIDE DEF less
  <2>. QED  BY <1>2, WFMin
<1>4. \A n \in S : ~(n < m)
  BY <1>1, <1>3, Zenon
<1>5. m \in Nat /\ \A n \in S : n \in Nat
  BY Zenon
<1>6. \A n \in S : m <= n
  <2>. HIDE DEF less
  <2>. QED  BY <1>4, <1>5
<1>. QED  BY <1>6, Zenon

(* The keys are those of the elements, of all of them.                     *)
LEMMA KeysOfIs ==
  ASSUME NEW S, NEW s \in Seq(S)
  PROVE  /\ DOMAIN KeysOf(s) = 1..Len(KeysOf(s)) /\ Len(KeysOf(s)) \in Nat
         /\ \A n \in DOMAIN KeysOf(s) : \E i \in DOMAIN s : KeysOf(s)[n] = Key(s[i])
         /\ \A i \in DOMAIN s : \E n \in DOMAIN KeysOf(s) : KeysOf(s)[n] = Key(s[i])
<1>. DEFINE P == {i \in DOMAIN s : \A j \in 1..(i - 1) : Key(s[j]) # Key(s[i])}
            firsts == At(s, P)
<1>1. P \in SUBSET (DOMAIN s)
  OBVIOUS
<1>2. /\ firsts \in Seq(S)
      /\ \A n \in DOMAIN firsts : \E i \in P : firsts[n] = s[i]
      /\ \A i \in P : \E n \in DOMAIN firsts : firsts[n] = s[i]
  <2>. HIDE DEF P
  <2>. QED  BY <1>1, AtIs
<1>3. KeysOf(s) = [n \in DOMAIN firsts |-> Key(firsts[n])]
  BY DEF KeysOf
<1>4. \A i \in DOMAIN s : \E j \in P : Key(s[j]) = Key(s[i])
  <2>1. DOMAIN s = 1..Len(s) /\ Len(s) \in Nat
    OBVIOUS
  <2>2. ASSUME NEW i \in DOMAIN s PROVE \E j \in P : Key(s[j]) = Key(s[i])
    <3>. DEFINE same == {j \in DOMAIN s : Key(s[j]) = Key(s[i])}
    <3>1. same \in SUBSET Nat /\ same # {}
      BY <2>1
    <3>. HIDE DEF same
    <3>2. PICK j \in same : \A n \in same : j <= n
      BY <3>1, NatLeast
    <3>3. j \in DOMAIN s /\ Key(s[j]) = Key(s[i])
      BY DEF same
    <3>4. ASSUME NEW n \in 1..(j - 1) PROVE Key(s[n]) # Key(s[j])
      <4>1. n \in DOMAIN s /\ ~(j <= n)
        BY <2>1, <3>3
      <4>2. n \notin same
        BY <3>2, <4>1
      <4>. QED  BY <3>3, <4>1, <4>2 DEF same
    <3>. QED  BY <3>3, <3>4
  <2>. QED  BY <2>2
<1>. HIDE DEF firsts
<1>5. KeysOf(s) = [n \in 1..Len(firsts) |-> Key(firsts[n])] /\ Len(firsts) \in Nat
  BY <1>2, <1>3
<1>6. KeysOf(s) \in Seq({Key(firsts[n]) : n \in 1..Len(firsts)})
  BY <1>5
<1>7. DOMAIN KeysOf(s) = 1..Len(KeysOf(s)) /\ Len(KeysOf(s)) \in Nat
  BY <1>6
<1>8. ASSUME NEW n \in DOMAIN KeysOf(s) PROVE \E i \in DOMAIN s : KeysOf(s)[n] = Key(s[i])
  <2>1. n \in DOMAIN firsts /\ KeysOf(s)[n] = Key(firsts[n])
    BY <1>3
  <2>2. PICK i \in P : firsts[n] = s[i]
    BY <1>2, <2>1
  <2>. QED  BY <1>1, <2>1, <2>2
<1>9. ASSUME NEW i \in DOMAIN s PROVE \E n \in DOMAIN KeysOf(s) : KeysOf(s)[n] = Key(s[i])
  <2>1. PICK j \in P : Key(s[j]) = Key(s[i])
    BY <1>4
  <2>2. PICK n \in DOMAIN firsts : firsts[n] = s[j]
    BY <1>2
  <2>. QED  BY <1>3, <2>1, <2>2
<1>. QED  BY <1>7, <1>8, <1>9

(* The elements of a key are elements of that key, and all of them.        *)
LEMMA OfKeyIs ==
  ASSUME NEW S, NEW s \in Seq(S), NEW key
  PROVE  /\ OfKey(s, key) \in Seq({e \in S : Key(e) = key})
         /\ \A n \in DOMAIN OfKey(s, key) : \E i \in DOMAIN s : OfKey(s, key)[n] = s[i]
         /\ \A i \in DOMAIN s : Key(s[i]) = key => \E n \in DOMAIN OfKey(s, key) : OfKey(s, key)[n] = s[i]
<1>. DEFINE P == {i \in DOMAIN s : Key(s[i]) = key}
            T == {e \in S : Key(e) = key}
<1>1. /\ P \in SUBSET (DOMAIN s)
      /\ \A i \in P : s[i] \in T
      /\ \A i \in DOMAIN s : Key(s[i]) = key => i \in P
  OBVIOUS
<1>2. OfKey(s, key) = At(s, P)
  BY DEF OfKey
<1>. HIDE DEF P, T
<1>3. /\ At(s, P) \in Seq(S)
      /\ \A n \in DOMAIN At(s, P) : \E i \in P : At(s, P)[n] = s[i]
      /\ \A i \in P : \E n \in DOMAIN At(s, P) : At(s, P)[n] = s[i]
  BY <1>1, AtIs
<1>4. \A n \in DOMAIN At(s, P) : At(s, P)[n] \in T
  BY <1>1, <1>3
<1>5. At(s, P) \in Seq(T)
  BY <1>3, <1>4
<1>6. /\ \A n \in DOMAIN At(s, P) : \E i \in DOMAIN s : At(s, P)[n] = s[i]
      /\ \A i \in DOMAIN s : Key(s[i]) = key => \E n \in DOMAIN At(s, P) : At(s, P)[n] = s[i]
  BY <1>1, <1>3
<1>. QED  BY <1>2, <1>5, <1>6 DEF T

(* The same, of one element.                                               *)
LEMMA OfKeyHas ==
  ASSUME NEW S, NEW s \in Seq(S), NEW key, NEW i \in DOMAIN s, Key(s[i]) = key
  PROVE  \E n \in DOMAIN OfKey(s, key) : OfKey(s, key)[n] = s[i]
<1>. DEFINE P == {n \in DOMAIN s : Key(s[n]) = key}
<1>1. P \in SUBSET (DOMAIN s) /\ i \in P
  OBVIOUS
<1>2. OfKey(s, key) = At(s, P)
  BY DEF OfKey
<1>. HIDE DEF P
<1>3. \E n \in DOMAIN At(s, P) : At(s, P)[n] = s[i]
  BY <1>1, AtIs
<1>. QED  BY <1>2, <1>3

(* Sequences of a set, one after the other, are one.                       *)
LEMMA FlatType ==
  ASSUME NEW S, NEW ss, NEW n \in Nat, DOMAIN ss = 1..n, ss = [i \in 1..n |-> ss[i]],
         \A i \in 1..n : ss[i] \in Seq(S)
  PROVE  ss \in Seq(Seq(S)) /\ Flat(ss) \in Seq(S)
<1>1. ss \in [1..n -> Seq(S)]
  OBVIOUS
<1>2. ss \in Seq(Seq(S))
  BY <1>1
<1>. QED  BY <1>2, FlatIs

(* Sequences one after the other have what each of them has.               *)
LEMMA FlatHas ==
  ASSUME NEW S, NEW ss \in Seq(Seq(S)), NEW i \in DOMAIN ss, NEW j \in DOMAIN ss[i]
  PROVE  \E n \in DOMAIN Flat(ss) : Flat(ss)[n] = ss[i][j]
<1>1. i \in Nat /\ j \in Nat
  <2>1. DOMAIN ss = 1..Len(ss) /\ ss[i] \in Seq(S)
    OBVIOUS
  <2>2. DOMAIN ss[i] = 1..Len(ss[i])
    BY <2>1
  <2>. QED  BY <2>1, <2>2
<1>2. <<i, j>> \in Places(ss)
  BY <1>1, PlacesIn
<1>. QED  BY <1>2, FlatIs

(* _annotated_clone adds an annotation and no more.                        *)
LEMMA AnnotatedIs ==
  ASSUME Alphabet, NEW e \in Trees, NEW side \in {"ours", "theirs", "conflict"}
  PROVE  /\ Annotated(e, side) \in Trees
         /\ Annotated(e, side).tag = e.tag /\ Annotated(e, side).key = e.key
         /\ Annotated(e, side).kids = Append(e.kids, Mark(side))
<1>1. e.kids \in Seq(Trees) /\ Mark(side) \in Trees
  BY TreeFields, TreesAre DEF Marks
<1>2. Append(e.kids, Mark(side)) \in Seq(Trees)
  BY <1>1
<1>. QED  BY <1>2, NewKids DEF Annotated

(* What a pair of elements is merged to.                                   *)
Results == [up : BOOLEAN, elems : Seq(Trees)]

(* Both kinds of result are results.                                       *)
LEMMA ResultIs ==
  /\ \A elems \in Seq(Trees) : Result(elems) \in Results
  /\ Escalate \in Results
<1>1. <<>> \in Seq(Trees)
  BY EmptySeq
<1>2. ASSUME NEW elems \in Seq(Trees) PROVE Result(elems) \in Results
  BY DEF Result, Results
<1>. QED  BY <1>1, <1>2 DEF Escalate, Results

(* The children of a key, or none.                                         *)
KidsOf(e, key) == {None} \cup {k \in Range(e.kids) : Key(k) = key}

(* The pairs that there may be of the children of a key.                   *)
OfKids(b, o, t, key) == TriplesOf(KidsOf(b, key), KidsOf(o, key), KidsOf(t, key))

(* The children of a key are elements.                                     *)
LEMMA KidsOfIs ==
  ASSUME Alphabet, NEW e \in Trees, NEW key
  PROVE  /\ KidsOf(e, key) \in SUBSET Trees /\ None \in KidsOf(e, key)
         /\ OfKey(e.kids, key) \in Seq(KidsOf(e, key))
<1>1. e.kids \in Seq(Trees)
  BY TreeFields
<1>2. e.kids \in Seq(Range(e.kids)) /\ Range(e.kids) \in SUBSET Trees
  BY <1>1 DEF Range
<1>3. OfKey(e.kids, key) \in Seq({k \in Range(e.kids) : Key(k) = key})
  BY <1>2, OfKeyIs
<1>4. {k \in Range(e.kids) : Key(k) = key} \in SUBSET KidsOf(e, key)
  BY DEF KidsOf
<1>5. OfKey(e.kids, key) \in Seq(KidsOf(e, key))
  BY <1>3, <1>4, SeqMonotonic
<1>. QED  BY <1>2, <1>5, NoneIs DEF KidsOf

(* The pairs of the children of a key.                                     *)
GroupOf(b, o, t, key) == PairSameKey(OfKey(b.kids, key), OfKey(o.kids, key), OfKey(t.kids, key))

(* Every child of a key is in one of the pairs.                            *)
CoversKey(pairs, k, kids, key) ==
    \A i \in DOMAIN kids : Key(kids[i]) = key => \E n \in DOMAIN pairs : pairs[n][k] = kids[i]

(* It is, when each of the children of that key is.                        *)
LEMMA KeyCovered ==
  ASSUME NEW kids \in Seq(Trees), NEW key, NEW pairs, NEW k, Covers(pairs, k, OfKey(kids, key))
  PROVE  CoversKey(pairs, k, kids, key)
<1>1. ASSUME NEW i \in DOMAIN kids, Key(kids[i]) = key PROVE \E n \in DOMAIN pairs : pairs[n][k] = kids[i]
  <2>1. PICK m \in DOMAIN OfKey(kids, key) : OfKey(kids, key)[m] = kids[i]
    <3>1. \A j \in DOMAIN kids :
            Key(kids[j]) = key => \E m \in DOMAIN OfKey(kids, key) : OfKey(kids, key)[m] = kids[j]
      BY OfKeyHas, ZenonT(60)
    <3>. QED  BY <1>1, <3>1, ZenonT(60)
  <2>2. PICK n \in DOMAIN pairs : pairs[n][k] = OfKey(kids, key)[m]
    BY Zenon DEF Covers
  <2>. QED  BY <2>1, <2>2
<1>. QED  BY <1>1, Zenon DEF CoversKey

(* The pairs of a key are of that key, and every child of that key is in   *)
(* one.                                                                    *)
LEMMA GroupIs ==
  ASSUME Alphabet, Recursion, NEW b \in Trees, NEW o \in Trees, NEW t \in Trees, NEW key
  PROVE  /\ GroupOf(b, o, t, key) \in Seq(OfKids(b, o, t, key))
         /\ CoversKey(GroupOf(b, o, t, key), 2, o.kids, key)
         /\ CoversKey(GroupOf(b, o, t, key), 3, t.kids, key)
<1>. DEFINE bs == OfKey(b.kids, key)
            os == OfKey(o.kids, key)
            ts == OfKey(t.kids, key)
            group == GroupOf(b, o, t, key)
            B == KidsOf(b, key)
            A == KidsOf(o, key)
            C == KidsOf(t, key)
<1>1. /\ B \in SUBSET Trees /\ A \in SUBSET Trees /\ C \in SUBSET Trees
      /\ None \in B /\ None \in A /\ None \in C
      /\ bs \in Seq(B) /\ os \in Seq(A) /\ ts \in Seq(C)
  BY KidsOfIs
<1>2. o.kids \in Seq(Trees) /\ t.kids \in Seq(Trees)
  BY TreeFields
<1>3. OfKids(b, o, t, key) = TriplesOf(B, A, C)
  BY DEF OfKids
<1>4. group = PairSameKey(bs, os, ts)
  BY DEF GroupOf
<1>5. group \in Seq(TriplesOf(B, A, C)) /\ Covers(group, 2, os) /\ Covers(group, 3, ts)
  <2>. HIDE DEF bs, os, ts, group, A, B, C
  <2>. QED  BY <1>1, <1>4, PairSameKeyIs
<1>. HIDE DEF group, A, B, C
<1>6. CoversKey(group, 2, o.kids, key) /\ CoversKey(group, 3, t.kids, key)
  BY <1>2, <1>5, KeyCovered
<1>. QED  BY <1>3, <1>5, <1>6 DEF group

(* The pairs of children of three elements: each of one key, and every     *)
(* child of ours and of theirs is in one.                                  *)
LEMMA ChildPairsIs ==
  ASSUME Alphabet, Recursion, NEW b \in Trees, NEW o \in Trees, NEW t \in Trees
  PROVE  LET pairs == ChildPairs(b, o, t) IN
         /\ pairs \in Seq(UNION {OfKids(b, o, t, key) : key \in Names \X Names})
         /\ \A i \in DOMAIN o.kids : \E n \in DOMAIN pairs :
                pairs[n][2] = o.kids[i] /\ pairs[n] \in OfKids(b, o, t, Key(o.kids[i]))
         /\ \A i \in DOMAIN t.kids : \E n \in DOMAIN pairs :
                pairs[n][3] = t.kids[i] /\ pairs[n] \in OfKids(b, o, t, Key(t.kids[i]))
<1>. DEFINE all == o.kids \o t.kids
            keys == KeysOf(all)
            group(key) == GroupOf(b, o, t, key)
            ss == [n \in DOMAIN keys |->
                     PairSameKey(OfKey(b.kids, keys[n]), OfKey(o.kids, keys[n]), OfKey(t.kids, keys[n]))]
            T == UNION {OfKids(b, o, t, key) : key \in Names \X Names}
            pairs == ChildPairs(b, o, t)
<1>1. o.kids \in Seq(Trees) /\ t.kids \in Seq(Trees)
  BY TreeFields
<1>2. /\ all \in Seq(Trees)
      /\ \A i \in DOMAIN o.kids : \E j \in DOMAIN all : all[j] = o.kids[i]
      /\ \A i \in DOMAIN t.kids : \E j \in DOMAIN all : all[j] = t.kids[i]
  <2>1. Holds(all, o.kids) /\ Holds(all, t.kids)
    BY <1>1, JoinTwo
  <2>2. all \in Seq(Trees)
    BY <1>1
  <2>. HIDE DEF all
  <2>. QED  BY <2>1, <2>2 DEF Holds
<1>8. pairs = Flat(ss)
  BY DEF ChildPairs
<1>. HIDE DEF all
<1>3. /\ DOMAIN keys = 1..Len(keys) /\ Len(keys) \in Nat
      /\ \A n \in DOMAIN keys : \E i \in DOMAIN all : keys[n] = Key(all[i])
      /\ \A i \in DOMAIN all : \E n \in DOMAIN keys : keys[n] = Key(all[i])
  BY <1>2, KeysOfIs
<1>4. \A n \in DOMAIN keys : keys[n] \in Names \X Names
  <2>1. ASSUME NEW e \in Trees PROVE Key(e) \in Names \X Names
    BY TreeFields DEF Key
  <2>. HIDE DEF keys
  <2>. QED  BY <1>2, <1>3, <2>1
<1>5. /\ \A i \in DOMAIN o.kids : \E n \in DOMAIN keys : keys[n] = Key(o.kids[i])
      /\ \A i \in DOMAIN t.kids : \E n \in DOMAIN keys : keys[n] = Key(t.kids[i])
  <2>. HIDE DEF keys
  <2>. QED  BY <1>2, <1>3
<1>6. \A n \in DOMAIN keys : ss[n] = group(keys[n])
  BY DEF GroupOf
<1>7. DOMAIN ss = 1..Len(keys) /\ ss = [n \in 1..Len(keys) |-> ss[n]]
  BY <1>3
<1>9. ASSUME NEW key \in Names \X Names
      PROVE  /\ group(key) \in Seq(OfKids(b, o, t, key))
             /\ group(key) \in Seq(T)
             /\ CoversKey(group(key), 2, o.kids, key)
             /\ CoversKey(group(key), 3, t.kids, key)
  <2>1. group(key) \in Seq(OfKids(b, o, t, key))
    BY GroupIs
  <2>2. OfKids(b, o, t, key) \in SUBSET T
    OBVIOUS
  <2>3. /\ CoversKey(group(key), 2, o.kids, key)
        /\ CoversKey(group(key), 3, t.kids, key)
    BY GroupIs
  <2>. HIDE DEF group, T
  <2>4. group(key) \in Seq(T)
    BY <2>1, <2>2, SeqMonotonic
  <2>. QED  BY <2>1, <2>3, <2>4
<1>. HIDE DEF group, T, ss, keys, pairs
<1>10. \A n \in 1..Len(keys) : ss[n] \in Seq(T)
  BY <1>3, <1>4, <1>6, <1>9
<1>11. ss \in Seq(Seq(T)) /\ pairs \in Seq(T)
  BY <1>3, <1>7, <1>8, <1>10, FlatType
<1>12. ASSUME NEW n \in DOMAIN keys, NEW m \in DOMAIN ss[n]
       PROVE  \E l \in DOMAIN pairs : pairs[l] = ss[n][m]
  <2>1. n \in DOMAIN ss
    BY <1>3, <1>7
  <2>. QED  BY <1>8, <1>11, <2>1, FlatHas
<1>13. ASSUME NEW i \in DOMAIN o.kids
       PROVE  \E l \in DOMAIN pairs : pairs[l][2] = o.kids[i] /\ pairs[l] \in OfKids(b, o, t, Key(o.kids[i]))
  <2>1. PICK n \in DOMAIN keys : keys[n] = Key(o.kids[i])
    BY <1>5
  <2>2. /\ keys[n] \in Names \X Names
        /\ ss[n] = group(keys[n])
        /\ ss[n] \in Seq(OfKids(b, o, t, keys[n]))
    BY <1>4, <1>6, <1>9
  <2>3. CoversKey(ss[n], 2, o.kids, Key(o.kids[i]))
    BY <1>9, <2>1, <2>2
  <2>4. PICK m \in DOMAIN ss[n] : ss[n][m][2] = o.kids[i]
    BY <2>3, Zenon DEF CoversKey
  <2>5. ss[n][m] \in OfKids(b, o, t, keys[n])
    BY <2>2, <2>4
  <2>. QED  BY <1>12, <2>1, <2>4, <2>5
<1>14. ASSUME NEW i \in DOMAIN t.kids
       PROVE  \E l \in DOMAIN pairs : pairs[l][3] = t.kids[i] /\ pairs[l] \in OfKids(b, o, t, Key(t.kids[i]))
  <2>1. PICK n \in DOMAIN keys : keys[n] = Key(t.kids[i])
    BY <1>5
  <2>2. /\ keys[n] \in Names \X Names
        /\ ss[n] = group(keys[n])
        /\ ss[n] \in Seq(OfKids(b, o, t, keys[n]))
    BY <1>4, <1>6, <1>9
  <2>3. CoversKey(ss[n], 3, t.kids, Key(t.kids[i]))
    BY <1>9, <2>1, <2>2
  <2>4. PICK m \in DOMAIN ss[n] : ss[n][m][3] = t.kids[i]
    BY <2>3, Zenon DEF CoversKey
  <2>5. ss[n][m] \in OfKids(b, o, t, keys[n])
    BY <2>2, <2>4
  <2>. QED  BY <1>12, <2>1, <2>4, <2>5
<1>. QED  BY <1>11, <1>13, <1>14 DEF pairs, T

(* The results of the pairs, joined, are a result.                         *)
LEMMA JoinedIs ==
  ASSUME Alphabet, NEW rs \in Seq(Results)
  PROVE  Joined(rs) \in Results
<1>. DEFINE ss == [n \in DOMAIN rs |-> rs[n].elems]
<1>1. DOMAIN rs = 1..Len(rs) /\ Len(rs) \in Nat /\ \A n \in 1..Len(rs) : rs[n] \in Results
  OBVIOUS
<1>2. DOMAIN ss = 1..Len(rs) /\ ss = [n \in 1..Len(rs) |-> ss[n]]
  BY <1>1
<1>3. \A n \in 1..Len(rs) : ss[n] \in Seq(Trees)
  BY <1>1 DEF Results
<1>4. Joined(rs) = IF \E n \in DOMAIN rs : rs[n].up THEN Escalate ELSE Result(Flat(ss))
  BY DEF Joined
<1>. HIDE DEF ss
<1>5. Flat(ss) \in Seq(Trees)
  BY <1>1, <1>2, <1>3, FlatType
<1>. QED  BY <1>4, <1>5, ResultIs

(* _merge_pair of elements makes elements, at any depth.                   *)
LEMMA MergePairIs ==
  ASSUME Alphabet, Recursion, NEW b \in Trees, NEW o \in Trees, NEW t \in Trees, NEW multi \in BOOLEAN
  PROVE  MergePair(b, o, t, multi) \in Results
<1>. DEFINE Fine(x) == \A y, z \in Trees : \A m \in BOOLEAN : MergePair(y, x, z, m) \in Results
            S == {x \in Trees : Fine(x)}
<1>1. ASSUME NEW x \in Trees, NEW y \in Trees, NEW z \in Trees, NEW m \in BOOLEAN,
             WalkChildren(y, x, z) \in Results \/ x = None
      PROVE  MergePair(y, x, z, m) \in Results
  <2>1. ASSUME NEW e \in Trees PROVE OneSided(y, e) \in Seq(Trees)
    <3>1. <<>> \in Seq(Trees) /\ <<e>> \in Seq(Trees)
      BY <2>1
    <3>. QED  BY <3>1 DEF OneSided
  <2>2. Result(OneSided(y, x)) \in Results /\ Result(OneSided(y, z)) \in Results
    BY <2>1, ResultIs
  <2>3. Result(<<Annotated(x, "ours"), Annotated(z, "theirs")>>) \in Results
    <3>1. Annotated(x, "ours") \in Trees /\ Annotated(z, "theirs") \in Trees
      BY AnnotatedIs
    <3>2. <<Annotated(x, "ours"), Annotated(z, "theirs")>> \in Seq(Trees)
      BY <3>1
    <3>. QED  BY <3>2, ResultIs
  <2>4. Result(<<Clean(x)>>) \in Results /\ Result(<<x>>) \in Results /\ Result(<<z>>) \in Results
    <3>1. Clean(x) \in Trees
      BY CleanIs
    <3>2. <<Clean(x)>> \in Seq(Trees) /\ <<x>> \in Seq(Trees) /\ <<z>> \in Seq(Trees)
      BY <3>1
    <3>. QED  BY <3>2, ResultIs
  <2>5. ASSUME x # None, ~ WalkChildren(y, x, z).up
        PROVE  Result(<<[x EXCEPT !.kids = WalkChildren(y, x, z).elems]>>) \in Results
    <3>1. WalkChildren(y, x, z).elems \in Seq(Trees)
      BY <1>1, <2>5 DEF Results
    <3>2. [x EXCEPT !.kids = WalkChildren(y, x, z).elems] \in Trees
      BY <3>1, NewKids
    <3>3. <<[x EXCEPT !.kids = WalkChildren(y, x, z).elems]>> \in Seq(Trees)
      BY <3>2
    <3>. QED  BY <3>3, ResultIs
  <2>6. MergedPair(y, x, z, m) \in Results
    BY <2>2, <2>3, <2>4, <2>5, ResultIs DEF MergedPair
  <2>. QED  BY <2>6 DEF Recursion
<1>2. None \in S
  <2>1. Fine(None)
    BY <1>1, NoneIs
  <2>. QED  BY <2>1, NoneIs
<1>3. ASSUME NEW x \in Trees, x \in Grown(S) PROVE x \in S
  <2>1. x.kids \in Seq(S)
    BY <1>3, GrownIs
  <2>2. ASSUME NEW y \in Trees, NEW z \in Trees, NEW m \in BOOLEAN
        PROVE  MergePair(y, x, z, m) \in Results
    <3>. DEFINE pairs == ChildPairs(y, x, z)
                rs == MergedPairs(x, pairs)
    <3>1. pairs \in Seq(TriplesOf(Trees, S, Trees))
      <4>1. pairs \in Seq(UNION {OfKids(y, x, z, key) : key \in Names \X Names})
        BY ChildPairsIs
      <4>2. ASSUME NEW key PROVE KidsOf(x, key) \in SUBSET S
        <5>. HIDE DEF S
        <5>. QED  BY <1>2, <2>1 DEF KidsOf, Range
      <4>. HIDE DEF S, pairs
      <4>3. \A key : OfKids(y, x, z, key) \in SUBSET TriplesOf(Trees, S, Trees)
        BY <4>2, KidsOfIs DEF OfKids, TriplesOf
      <4>4. UNION {OfKids(y, x, z, key) : key \in Names \X Names} \in SUBSET TriplesOf(Trees, S, Trees)
        BY <4>3
      <4>. QED  BY <4>1, <4>4, SeqMonotonic
    <3>2. DOMAIN pairs = 1..Len(pairs) /\ Len(pairs) \in Nat
      BY <3>1
    <3>3. ASSUME NEW n \in 1..Len(pairs) PROVE rs[n] \in Results
      <4>1. pairs[n] \in TriplesOf(Trees, S, Trees)
        BY <3>1
      <4>2. pairs[n][1] \in Trees /\ pairs[n][2] \in S /\ pairs[n][3] \in Trees
        BY <4>1 DEF TriplesOf
      <4>3. rs[n] = MergePair(pairs[n][1], pairs[n][2], pairs[n][3], Multi(x.tag, PairTag(pairs[n])))
        BY <3>2 DEF MergedPairs
      <4>4. Multi(x.tag, PairTag(pairs[n])) \in BOOLEAN
        BY DEF Multi
      <4>. HIDE DEF rs, pairs
      <4>. QED  BY <4>2, <4>3, <4>4
    <3>4. DOMAIN rs = 1..Len(pairs) /\ rs = [n \in 1..Len(pairs) |-> rs[n]]
      BY <3>2 DEF MergedPairs
    <3>5. rs \in [1..Len(pairs) -> Results]
      <4>. HIDE DEF rs, pairs
      <4>. QED  BY <3>3, <3>4
    <3>6. rs \in Seq(Results)
      <4>. HIDE DEF rs, pairs
      <4>. QED  BY <3>2, <3>5
    <3>7. WalkChildren(y, x, z) \in Results
      <4>1. WalkChildren(y, x, z) = Joined(rs)
        BY DEF WalkChildren
      <4>. HIDE DEF rs
      <4>. QED  BY <3>6, <4>1, JoinedIs
    <3>. QED  BY <1>1, <3>7
  <2>. QED  BY <2>2
<1>4. Trees \subseteq S
  <2>. HIDE DEF S
  <2>. QED  BY <1>3, TreeInduction
<1>. QED  BY <1>4

-----------------------------------------------------------------------------
(* The fields of an element of a level.                                    *)
LEMMA LevelFields ==
  ASSUME Alphabet, NEW n \in Nat, NEW e \in Level[n]
  PROVE  /\ e \in Trees /\ e.kids \in Seq(Below(n))
         /\ e \in [tag : Names, key : Names, val : SUBSET Pairs, kids : Seq(Below(n))]
         /\ IsMark(e) => e.val \in MarkVals
         /\ n = 0 => IsMark(e)
<1>1. e \in Trees
  BY TreesAre
<1>2. e \in Grown(Below(n))
  BY LevelIs
<1>3. n = 0 => IsMark(e)
  BY Levels, MarkFacts DEF Marks
<1>. QED  BY <1>1, <1>2, <1>3, GrownIs

(* Other pairs leave an element on its level.                              *)
LEMMA LevelVal ==
  ASSUME Alphabet, NEW n \in Nat, NEW e \in Level[n], ~ IsMark(e), NEW val \in SUBSET Pairs
  PROVE  LET f == [e EXCEPT !.val = val] IN
           f \in Level[n] /\ f.tag = e.tag /\ f.key = e.key /\ f.kids = e.kids
<1>. DEFINE f == [e EXCEPT !.val = val]
<1>1. e \in [tag : Names, key : Names, val : SUBSET Pairs, kids : Seq(Below(n))] /\ n # 0
  BY LevelFields
<1>2. /\ f \in [tag : Names, key : Names, val : SUBSET Pairs, kids : Seq(Below(n))]
      /\ f.tag = e.tag /\ f.key = e.key /\ f.kids = e.kids
  BY <1>1
<1>. HIDE DEF f
<1>3. ~ IsMark(f)
  BY <1>2, MarkFacts
<1>4. f \in Level[n]
  BY <1>1, <1>2, <1>3, GrownIs, LevelIs
<1>5. f = [e EXCEPT !.val = val]
  BY DEF f
<1>. QED  BY <1>2, <1>4, <1>5

(* An annotation leaves an element on its level, and marks it.             *)
LEMMA LevelAnnotated ==
  ASSUME Alphabet, NEW n \in Nat, n # 0, NEW e \in Level[n], NEW side \in {"ours", "theirs", "conflict"}
  PROVE  /\ Annotated(e, side) \in Level[n]
         /\ Annotated(e, side).tag = e.tag /\ Annotated(e, side).key = e.key
         /\ Side(Annotated(e, side)) # ""
<1>1. e.kids \in Seq(Below(n)) /\ Mark(side) \in Below(n) /\ e \in Trees
  BY LevelFields, LevelIs DEF Marks
<1>2. Append(e.kids, Mark(side)) \in Seq(Below(n))
  BY <1>1
<1>3. Annotated(e, side) \in Level[n] /\ Annotated(e, side).tag = e.tag /\ Annotated(e, side).key = e.key
  <2>. DEFINE kids == Append(e.kids, Mark(side))
  <2>1. Annotated(e, side) = [e EXCEPT !.kids = kids]
    BY DEF Annotated
  <2>. HIDE DEF kids
  <2>2. kids \in Seq(Below(n))
    BY <1>2 DEF kids
  <2>. QED  BY <2>1, <2>2, LevelKids
<1>4. Annotated(e, side) \in Trees /\ Annotated(e, side).kids = Append(e.kids, Mark(side))
  BY <1>1, AnnotatedIs
<1>5. Flagged(Annotated(e, side))
  <2>. DEFINE kids == Append(e.kids, Mark(side))
  <2>1. Len(e.kids) + 1 \in DOMAIN kids /\ kids[Len(e.kids) + 1] = Mark(side)
    BY <1>1
  <2>2. IsMark(Mark(side))
    BY MarkFacts
  <2>. HIDE DEF kids
  <2>3. Annotated(e, side).kids = kids
    BY <1>4 DEF kids
  <2>. QED  BY <2>1, <2>2, <2>3 DEF Flagged
<1>6. Side(Annotated(e, side)) # ""
  BY <1>4, <1>5, SideIs
<1>. QED  BY <1>3, <1>6

(* A text is made of pairs.                                                *)
LEMMA TextIs ==
  ASSUME Alphabet, NEW e \in Trees
  PROVE  Text(e) \in SUBSET Pairs
<1>1. e.kids \in Seq(Trees)
  BY TreeFields
<1>2. \A k \in Range(e.kids) : k \in Trees /\ k.val \in SUBSET Pairs
  BY <1>1, TreeFields DEF Range
<1>. QED  BY <1>2 DEF Text

(* Another text leaves an element on its level.                            *)
LEMMA LevelWithText ==
  ASSUME Alphabet, NEW n \in Nat, NEW e \in Level[n], NEW val \in SUBSET Pairs
  PROVE  /\ WithText(e, val) \in Level[n]
         /\ WithText(e, val).tag = e.tag /\ WithText(e, val).key = e.key
<1>. DEFINE kids == [i \in DOMAIN e.kids |->
                       IF e.kids[i].tag = "text" THEN [e.kids[i] EXCEPT !.val = val] ELSE e.kids[i]]
<1>1. e.kids \in Seq(Below(n))
  BY LevelFields
<1>2. DOMAIN e.kids = 1..Len(e.kids) /\ Len(e.kids) \in Nat
  BY <1>1
<1>3. ASSUME NEW i \in 1..Len(e.kids) PROVE kids[i] \in Below(n)
  <2>1. e.kids[i] \in Below(n) /\ i \in DOMAIN e.kids
    BY <1>1, <1>2
  <2>2. kids[i] = IF e.kids[i].tag = "text" THEN [e.kids[i] EXCEPT !.val = val] ELSE e.kids[i]
    BY <2>1
  <2>3. n - 1 \in Nat /\ Below(n) = Level[n - 1]
    BY <2>1 DEF Below
  <2>. HIDE DEF kids
  <2>4. CASE e.kids[i].tag = "text"
    <3>1. ~ IsMark(e.kids[i])
      BY <2>4, MarkFacts
    <3>2. [e.kids[i] EXCEPT !.val = val] \in Level[n - 1]
      BY <2>1, <2>3, <3>1, LevelVal
    <3>. QED  BY <2>2, <2>3, <2>4, <3>2
  <2>5. CASE e.kids[i].tag # "text"
    BY <2>1, <2>2, <2>5
  <2>. QED  BY <2>4, <2>5
<1>4. kids = [i \in 1..Len(e.kids) |-> kids[i]]
  BY <1>2
<1>5. WithText(e, val) = [e EXCEPT !.kids = kids]
  BY DEF WithText
<1>. HIDE DEF kids
<1>6. kids \in Seq(Below(n))
  BY <1>2, <1>3, <1>4
<1>. QED  BY <1>5, <1>6, LevelKids

(* _normalize_entry on a child: it drops it or keeps one like it, it keeps *)
(* annotations, and of two forms of one key that both stay each is marked. *)
LEMMA SettledIs ==
  ASSUME Alphabet, Recursion, NEW n \in Nat, NEW holder, NEW kids \in Seq(Level[n]), NEW i \in DOMAIN kids
  PROVE  /\ \/ Settled(holder, kids, i) = <<>>
            \/ \E x \in Level[n] : /\ Settled(holder, kids, i) = <<x>>
                                   /\ x.tag = kids[i].tag /\ x.key = kids[i].key
         /\ IsMark(kids[i]) => Settled(holder, kids, i) = <<kids[i]>>
         /\ \A j \in DOMAIN kids :
               /\ i # j /\ kids[i].tag = "form" /\ Key(kids[i]) = Key(kids[j])
               /\ Settled(holder, kids, i) # <<>> /\ Settled(holder, kids, j) # <<>>
               => Side(Settled(holder, kids, i)[1]) # ""
<1>. DEFINE copies(j) == Copies(kids, j)
            If(kept, e) == IF kept THEN <<e>> ELSE <<>>
            other(j) == ~ (kids[j].tag = "form" \/ (kids[j].tag = "gloss" /\ holder.tag = "sense"))
            united(j) == WithText(Clean(kids[j]), UnionOf({Text(kids[m]) : m \in Copies(kids, j)}))
            same(j) == SettledCopy(holder, kids, j)
<1>1. \A j \in DOMAIN kids : Settled(holder, kids, j) = IF other(j) THEN <<kids[j]>> ELSE same(j)
  BY DEF Settled
<1>11. \A j \in DOMAIN kids : same(j) =
                IF Group(kids, j) = {j} THEN <<kids[j]>>
                ELSE IF j \notin copies(j) THEN <<>>
                ELSE IF copies(j) = {j} THEN <<Clean(kids[j])>>
                ELSE IF kids[j].tag = "gloss"
                     THEN <<IF Side(kids[j]) # "" THEN Clean(kids[j]) ELSE kids[j]>>
                ELSE IF IsAudio(kids[j])
                     THEN If(j = BestTake(copies(j), kids), Clean(kids[j]))
                ELSE IF IsVerification(holder)
                     THEN If(j = First(copies(j)), united(j))
                ELSE <<Marked(kids, copies(j), j)>>
  BY DEF SettledCopy
<1>2. DOMAIN kids = 1..Len(kids) /\ Len(kids) \in Nat /\ \A j \in DOMAIN kids : kids[j] \in Level[n]
  OBVIOUS
<1>3. \A j \in DOMAIN kids : j \in Group(kids, j)
  BY DEF Group
<1>4. ASSUME NEW j \in DOMAIN kids, ~ other(j)
      PROVE  n # 0 /\ ~ IsMark(kids[j])
  <2>1. ~ IsMark(kids[j])
    BY <1>4, MarkFacts
  <2>. QED  BY <1>2, <2>1, LevelFields
<1>5. Clean(kids[i]) \in Level[n] /\ Clean(kids[i]).tag = kids[i].tag /\ Clean(kids[i]).key = kids[i].key
  BY <1>2, CleanLevel
<1>6. ASSUME ~ other(i)
      PROVE  LET x == Marked(kids, copies(i), i) IN
                x \in Level[n] /\ x.tag = kids[i].tag /\ x.key = kids[i].key /\ Side(x) # ""
  <2>. DEFINE some == \E j \in copies(i) : \/ Side(kids[j]) = "ours"
                                           \/ Side(kids[j]) = "" /\ j < i
  <2>1. Marked(kids, copies(i), i) =
          IF Side(kids[i]) # "" THEN kids[i]
          ELSE IF some THEN Annotated(kids[i], "theirs") ELSE Annotated(kids[i], "ours")
    BY DEF Marked
  <2>2. \A side \in {"ours", "theirs"} :
          LET y == Annotated(kids[i], side) IN
             y \in Level[n] /\ y.tag = kids[i].tag /\ y.key = kids[i].key /\ Side(y) # ""
    BY <1>2, <1>4, <1>6, LevelAnnotated
  <2>. HIDE DEF some, copies
  <2>. QED  BY <1>2, <2>1, <2>2
<1>7. united(i) \in Level[n] /\ united(i).tag = kids[i].tag /\ united(i).key = kids[i].key
  <2>. DEFINE texts == {Text(kids[m]) : m \in copies(i)}
  <2>1. texts \subseteq SUBSET Pairs
    <3>1. \A m \in copies(i) : m \in DOMAIN kids /\ kids[m] \in Trees
      BY <1>2, TreesAre DEF Copies, Group
    <3>. HIDE DEF copies
    <3>. QED  BY <3>1, TextIs
  <2>. HIDE DEF texts
  <2>2. UnionOf(texts) \in SUBSET Pairs
    BY <2>1 DEF UnionOf
  <2>3. united(i) = WithText(Clean(kids[i]), UnionOf(texts))
    BY DEF texts
  <2>. HIDE DEF united
  <2>. QED  BY <1>5, <2>2, <2>3, LevelWithText
<1>8. \/ Settled(holder, kids, i) = <<>>
      \/ \E x \in Level[n] : /\ Settled(holder, kids, i) = <<x>>
                             /\ x.tag = kids[i].tag /\ x.key = kids[i].key
  <2>1. CASE other(i)
    <3>1. Settled(holder, kids, i) = <<kids[i]>>
      BY <1>1, <2>1
    <3>. QED  BY <1>2, <3>1
  <2>2. CASE ~ other(i)
    <3>1. Settled(holder, kids, i) = same(i)
      BY <1>1, <2>2
    <3>2. LET x == Marked(kids, copies(i), i) IN
                x \in Level[n] /\ x.tag = kids[i].tag /\ x.key = kids[i].key
      BY <1>6, <2>2
    <3>. HIDE DEF copies, united, other, same
    <3>3. \/ same(i) = <<>>
          \/ \E x \in {kids[i], Clean(kids[i]), united(i), Marked(kids, copies(i), i)} : same(i) = <<x>>
      BY <1>11
    <3>. QED  BY <1>2, <1>5, <1>7, <3>1, <3>2, <3>3
  <2>. QED  BY <2>1, <2>2
<1>9. IsMark(kids[i]) => Settled(holder, kids, i) = <<kids[i]>>
  <2>. HIDE DEF other, same
  <2>. QED  BY <1>1, <1>4
<1>10. ASSUME NEW j \in DOMAIN kids, i # j, kids[i].tag = "form", Key(kids[i]) = Key(kids[j]),
              Settled(holder, kids, i) # <<>>, Settled(holder, kids, j) # <<>>
       PROVE  Side(Settled(holder, kids, i)[1]) # ""
  <2>1. Group(kids, i) = Group(kids, j)
    BY <1>10 DEF Group
  <2>2. copies(i) = copies(j)
    BY <2>1 DEF Copies
  <2>3. kids[j].tag = "form" /\ kids[j].key = kids[i].key
    BY <1>10 DEF Key
  <2>4. ~ other(i) /\ ~ other(j)
    BY <1>10, <2>3
  <2>5. Group(kids, i) # {i} /\ Group(kids, j) # {j}
    BY <1>10, <1>3, <2>1
  <2>6. same(i) # <<>> /\ same(j) # <<>>
    BY <1>1, <1>10, <2>4
  <2>7. IsAudio(kids[i]) <=> IsAudio(kids[j])
    BY <1>10, <2>3 DEF IsAudio
  <2>8. same(i) = <<Marked(kids, copies(i), i)>>
    <3>. HIDE DEF copies, united, same
    <3>1. i \in copies(i) /\ j \in copies(j)
      BY <1>11, <2>5, <2>6
    <3>2. copies(i) # {i} /\ copies(j) # {j}
      BY <1>10, <2>2, <3>1
    <3>3. same(i) = IF IsAudio(kids[i]) THEN If(i = BestTake(copies(i), kids), Clean(kids[i]))
                    ELSE IF IsVerification(holder) THEN If(i = First(copies(i)), united(i))
                    ELSE <<Marked(kids, copies(i), i)>>
      BY <1>10, <1>11, <2>5, <3>1, <3>2
    <3>4. same(j) = IF IsAudio(kids[j]) THEN If(j = BestTake(copies(j), kids), Clean(kids[j]))
                    ELSE IF IsVerification(holder) THEN If(j = First(copies(j)), united(j))
                    ELSE <<Marked(kids, copies(j), j)>>
      BY <1>11, <2>3, <2>5, <3>1, <3>2
    <3>5. ~ IsAudio(kids[i])
      BY <1>10, <2>2, <2>6, <2>7, <3>3, <3>4
    <3>6. ~ IsVerification(holder)
      BY <1>10, <2>2, <2>6, <2>7, <3>3, <3>4, <3>5
    <3>. QED  BY <3>3, <3>5, <3>6
  <2>9. Settled(holder, kids, i)[1] = Marked(kids, copies(i), i)
    <3>1. Settled(holder, kids, i) = same(i)
      BY <1>1, <2>4
    <3>. HIDE DEF same, copies
    <3>. QED  BY <2>8, <3>1
  <2>. QED  BY <1>6, <2>4, <2>9
<1>. QED  BY <1>8, <1>9, <1>10

(* _normalize_entry makes a good element of an element, keeps its key, and *)
(* does not take the last annotation away.                                 *)
Normal(e) ==
    /\ Normalize(e) \in Good
    /\ Normalize(e).tag = e.tag /\ Normalize(e).key = e.key
    /\ Flagged(e) => Flagged(Normalize(e))

(* The same of all the children of an element.                             *)
LEMMA SettledSeqs ==
  ASSUME Alphabet, Recursion, NEW n \in Nat, NEW e \in Level[n]
  PROVE  LET ss == [i \in DOMAIN e.kids |-> Settled(e, e.kids, i)] IN
         /\ ss \in Seq(Seq(Below(n)))
         /\ \A i \in DOMAIN e.kids :
               /\ IsMark(e.kids[i]) => ss[i] = <<e.kids[i]>>
               /\ \A m \in DOMAIN ss[i] :
                     m = 1 /\ ss[i][m].tag = e.kids[i].tag /\ ss[i][m].key = e.kids[i].key
               /\ \A j \in DOMAIN e.kids :
                     /\ i # j /\ e.kids[i].tag = "form" /\ Key(e.kids[i]) = Key(e.kids[j])
                     /\ ss[i] # <<>> /\ ss[j] # <<>>
                     => Side(ss[i][1]) # ""
<1>. DEFINE ss == [i \in DOMAIN e.kids |-> Settled(e, e.kids, i)]
<1>1. e.kids \in Seq(Below(n))
  BY LevelFields
<1>2. DOMAIN e.kids = 1..Len(e.kids) /\ Len(e.kids) \in Nat
  BY <1>1
<1>3. ASSUME NEW i \in DOMAIN e.kids
      PROVE  /\ ss[i] \in Seq(Below(n))
             /\ IsMark(e.kids[i]) => ss[i] = <<e.kids[i]>>
             /\ \A m \in DOMAIN ss[i] :
                   m = 1 /\ ss[i][m].tag = e.kids[i].tag /\ ss[i][m].key = e.kids[i].key
             /\ \A j \in DOMAIN e.kids :
                   /\ i # j /\ e.kids[i].tag = "form" /\ Key(e.kids[i]) = Key(e.kids[j])
                   /\ ss[i] # <<>> /\ ss[j] # <<>>
                   => Side(ss[i][1]) # ""
  <2>1. e.kids[i] \in Below(n)
    BY <1>1, <1>2
  <2>2. n - 1 \in Nat /\ Below(n) = Level[n - 1]
    BY <2>1 DEF Below
  <2>3. \A j \in DOMAIN e.kids : ss[j] = Settled(e, e.kids, j)
    OBVIOUS
  <2>. HIDE DEF ss
  <2>4. e.kids \in Seq(Level[n - 1])
    BY <1>1, <2>2
  <2>5. /\ \/ Settled(e, e.kids, i) = <<>>
           \/ \E x \in Level[n - 1] : /\ Settled(e, e.kids, i) = <<x>>
                                      /\ x.tag = e.kids[i].tag /\ x.key = e.kids[i].key
        /\ IsMark(e.kids[i]) => Settled(e, e.kids, i) = <<e.kids[i]>>
        /\ \A j \in DOMAIN e.kids :
              /\ i # j /\ e.kids[i].tag = "form" /\ Key(e.kids[i]) = Key(e.kids[j])
              /\ Settled(e, e.kids, i) # <<>> /\ Settled(e, e.kids, j) # <<>>
              => Side(Settled(e, e.kids, i)[1]) # ""
    BY <2>2, <2>4, SettledIs
  <2>6. ss[i] = Settled(e, e.kids, i)
    BY <2>3
  <2>7. CASE ss[i] = <<>>
    <3>1. ss[i] \in Seq(Below(n))
      BY <2>7
    <3>2. DOMAIN ss[i] = {}
      BY <2>7
    <3>. QED  BY <2>3, <2>5, <2>7, <3>1, <3>2
  <2>8. CASE ss[i] # <<>>
    <3>1. PICK x \in Level[n - 1] : ss[i] = <<x>> /\ x.tag = e.kids[i].tag /\ x.key = e.kids[i].key
      BY <2>5, <2>6, <2>8
    <3>2. ss[i] \in Seq(Below(n))
      <4>1. x \in Below(n)
        BY <2>2
      <4>2. <<x>> \in Seq(Below(n))
        BY <4>1
      <4>. QED  BY <3>1, <4>2
    <3>3. \A m \in DOMAIN ss[i] : m = 1 /\ ss[i][m] = x
      <4>1. DOMAIN <<x>> = {1} /\ <<x>>[1] = x
        OBVIOUS
      <4>. QED  BY <3>1, <4>1
    <3>. QED  BY <2>3, <2>5, <3>1, <3>2, <3>3
  <2>. QED  BY <2>7, <2>8
<1>4. ss = [i \in 1..Len(e.kids) |-> ss[i]]
  BY <1>2
<1>5. ss \in Seq(Seq(Below(n)))
  <2>. HIDE DEF ss
  <2>1. \A i \in 1..Len(e.kids) : ss[i] \in Seq(Below(n))
    BY <1>2, <1>3
  <2>2. ss \in [1..Len(e.kids) -> Seq(Below(n))]
    BY <1>4, <2>1
  <2>. QED  BY <1>2, <2>2
<1>. HIDE DEF ss
<1>6. /\ ss \in Seq(Seq(Below(n)))
      /\ \A i \in DOMAIN e.kids :
               /\ IsMark(e.kids[i]) => ss[i] = <<e.kids[i]>>
               /\ \A m \in DOMAIN ss[i] :
                     m = 1 /\ ss[i][m].tag = e.kids[i].tag /\ ss[i][m].key = e.kids[i].key
               /\ \A j \in DOMAIN e.kids :
                     /\ i # j /\ e.kids[i].tag = "form" /\ Key(e.kids[i]) = Key(e.kids[j])
                     /\ ss[i] # <<>> /\ ss[j] # <<>>
                     => Side(ss[i][1]) # ""
  BY <1>3, <1>5, Zenon
<1>. QED  BY <1>6 DEF ss

(* An element is normalised well when what is below it is.                 *)
LEMMA NormalStep ==
  ASSUME Alphabet, Recursion, NEW n \in Nat, \A k \in Below(n) : Normal(k), NEW e \in Level[n]
  PROVE  Normal(e)
<1>. DEFINE ss == [i \in DOMAIN e.kids |-> Settled(e, e.kids, i)]
            flat == Flat(ss)
            kids == [i \in DOMAIN flat |-> Normalize(flat[i])]
<1>1. /\ ss \in Seq(Seq(Below(n)))
      /\ \A i \in DOMAIN e.kids :
               /\ IsMark(e.kids[i]) => ss[i] = <<e.kids[i]>>
               /\ \A m \in DOMAIN ss[i] :
                     m = 1 /\ ss[i][m].tag = e.kids[i].tag /\ ss[i][m].key = e.kids[i].key
               /\ \A j \in DOMAIN e.kids :
                     /\ i # j /\ e.kids[i].tag = "form" /\ Key(e.kids[i]) = Key(e.kids[j])
                     /\ ss[i] # <<>> /\ ss[j] # <<>>
                     => Side(ss[i][1]) # ""
  BY SettledSeqs
<1>2. DOMAIN ss = DOMAIN e.kids
  OBVIOUS
<1>3. e \in Trees /\ Normalize(e) = [e EXCEPT !.kids = Eager(kids)]
  <2>1. e \in Trees
    BY LevelFields
  <2>2. Normalized(e) = [e EXCEPT !.kids = Eager(kids)]
    BY DEF Normalized
  <2>. QED  BY <2>1, <2>2 DEF Recursion
<1>. HIDE DEF ss
<1>4. /\ flat \in Seq(Below(n))
      /\ \A l \in DOMAIN flat : \E p \in Places(ss) : flat[l] = ss[p[1]][p[2]]
      /\ \A p \in Places(ss) : \E l \in DOMAIN flat : flat[l] = ss[p[1]][p[2]]
      /\ \A l, m \in DOMAIN flat :
            l # m => \E p, q \in Places(ss) :
                       p # q /\ flat[l] = ss[p[1]][p[2]] /\ flat[m] = ss[q[1]][q[2]]
  BY <1>1, FlatIs
<1>5. \A p : p \in Places(ss) <=> /\ p \in Nat \X Nat
                                   /\ p[1] \in DOMAIN ss /\ p[2] \in DOMAIN ss[p[1]]
  BY <1>1, PlacesIn
<1>6. DOMAIN kids = DOMAIN flat /\ \A i \in DOMAIN flat : kids[i] = Normalize(flat[i])
  OBVIOUS
<1>7. kids = [i \in 1..Len(flat) |-> kids[i]] /\ DOMAIN flat = 1..Len(flat) /\ Len(flat) \in Nat
  BY <1>4
<1>. HIDE DEF flat, kids
<1>8. \A i \in DOMAIN flat : flat[i] \in Below(n) /\ flat[i] \in Trees /\ Normal(flat[i])
  <2>1. Below(n) \subseteq Trees
    BY LevelIs
  <2>. QED  BY <1>4, <2>1
<1>9. kids \in Seq(Good)
  BY <1>6, <1>7, <1>8 DEF Normal
<1>10. Eager(kids) = kids
  BY <1>9, EagerIs
<1>11. kids \in Seq(Trees)
  BY <1>9, GoodIs, SeqMonotonic
<1>12. /\ Normalize(e) \in Trees /\ Normalize(e).tag = e.tag /\ Normalize(e).key = e.key
       /\ Normalize(e).kids = kids
  BY <1>3, <1>10, <1>11, NewKids
<1>13. Shown(Normalize(e))
  <2>1. ASSUME NEW i \in DOMAIN kids, NEW j \in DOMAIN kids,
               i # j, kids[i].tag = "form", Key(kids[i]) = Key(kids[j])
        PROVE  Side(kids[i]) # ""
    <3>1. PICK p \in Places(ss), q \in Places(ss) :
             p # q /\ flat[i] = ss[p[1]][p[2]] /\ flat[j] = ss[q[1]][q[2]]
      BY <1>4, <1>6, <2>1
    <3>2. /\ p \in Nat \X Nat /\ p[1] \in DOMAIN e.kids /\ p[2] \in DOMAIN ss[p[1]]
          /\ q \in Nat \X Nat /\ q[1] \in DOMAIN e.kids /\ q[2] \in DOMAIN ss[q[1]]
      BY <1>2, <1>5
    <3>3. /\ p[2] = 1 /\ flat[i].tag = e.kids[p[1]].tag /\ flat[i].key = e.kids[p[1]].key
          /\ q[2] = 1 /\ flat[j].tag = e.kids[q[1]].tag /\ flat[j].key = e.kids[q[1]].key
      BY <1>1, <3>1, <3>2
    <3>4. p[1] # q[1]
      <4>1. p = <<p[1], p[2]>> /\ q = <<q[1], q[2]>>
        BY <3>2
      <4>. QED  BY <3>1, <3>3, <4>1
    <3>5. /\ kids[i].tag = flat[i].tag /\ kids[i].key = flat[i].key
          /\ kids[j].tag = flat[j].tag /\ kids[j].key = flat[j].key
          /\ Flagged(flat[i]) => Flagged(kids[i])
      BY <1>6, <1>8, <2>1 DEF Normal
    <3>6. kids[i].tag = kids[j].tag /\ kids[i].key = kids[j].key
      BY <2>1 DEF Key
    <3>7. e.kids[p[1]].tag = "form" /\ Key(e.kids[p[1]]) = Key(e.kids[q[1]])
      <4>1. /\ e.kids[p[1]].tag = kids[i].tag /\ e.kids[p[1]].key = kids[i].key
            /\ e.kids[q[1]].tag = kids[j].tag /\ e.kids[q[1]].key = kids[j].key
        BY <3>3, <3>5
      <4>. QED  BY <2>1, <3>6, <4>1 DEF Key
    <3>8. ss[p[1]] # <<>> /\ ss[q[1]] # <<>>
      <4>1. DOMAIN <<>> = {}
        OBVIOUS
      <4>. QED  BY <3>2, <4>1
    <3>9. Side(flat[i]) # ""
      <4>1. Side(ss[p[1]][1]) # ""
        BY <1>1, <3>2, <3>4, <3>7, <3>8
      <4>. QED  BY <3>1, <3>3, <4>1
    <3>10. Flagged(flat[i])
      BY <1>6, <1>8, <3>9, SideIs
    <3>11. kids[i] \in Trees
      BY <1>11
    <3>. QED  BY <3>5, <3>10, <3>11, SideIs
  <2>. QED  BY <1>12, <2>1 DEF Shown
<1>14. ASSUME Flagged(e) PROVE Flagged(Normalize(e))
  <2>1. PICK i \in DOMAIN e.kids : IsMark(e.kids[i])
    BY <1>14 DEF Flagged
  <2>2. ss[i] = <<e.kids[i]>>
    BY <1>1, <2>1
  <2>3. <<i, 1>> \in Places(ss)
    <3>1. i \in Nat
      <4>1. e.kids \in Seq(Below(n))
        BY LevelFields
      <4>. QED  BY <4>1
    <3>2. 1 \in DOMAIN ss[i]
      BY <2>2
    <3>. QED  BY <1>2, <1>5, <3>1, <3>2
  <2>4. PICK l \in DOMAIN flat : flat[l] = e.kids[i]
    <3>1. \E l \in DOMAIN flat : flat[l] = ss[<<i, 1>>[1]][<<i, 1>>[2]]
      BY <1>4, <2>3
    <3>2. ss[<<i, 1>>[1]][<<i, 1>>[2]] = e.kids[i]
      BY <2>2
    <3>. QED  BY <3>1, <3>2
  <2>5. l \in DOMAIN kids /\ kids[l].tag = flat[l].tag /\ kids[l].key = flat[l].key
    BY <1>6, <1>8 DEF Normal
  <2>6. IsMark(kids[l])
    <3>1. flat[l].tag = "annotation" /\ flat[l].key = "azt-lift-conflict"
      BY <2>1, <2>4, MarkFacts
    <3>. QED  BY <2>5, <3>1, MarkFacts
  <2>. QED  BY <1>12, <2>5, <2>6 DEF Flagged
<1>15. Normalize(e) \in Good
  BY <1>9, <1>12, <1>13, GoodIs
<1>. QED  BY <1>12, <1>14, <1>15 DEF Normal

(* _normalize_entry makes a good element of any: whatever the merge has    *)
(* made, no two forms of a key are left unmarked, at any depth.            *)
LEMMA NormalizeIs ==
  ASSUME Alphabet, Recursion
  PROVE  \A e \in Trees : Normal(e)
<1>. DEFINE Fine(n) == \A e \in Level[n] : Normal(e)
            T == {n \in Nat : Fine(n)}
<1>1. 0 \in T
  <2>1. \A k \in Below(0) : Normal(k)
    BY DEF Below
  <2>2. Fine(0)
    BY <2>1, NormalStep
  <2>. QED  BY <2>2
<1>2. ASSUME NEW n \in Nat, n \in T PROVE n + 1 \in T
  <2>1. n + 1 \in Nat /\ Below(n + 1) = Level[n]
    BY DEF Below
  <2>2. \A k \in Below(n + 1) : Normal(k)
    BY <1>2, <2>1
  <2>3. Fine(n + 1)
    BY <2>1, <2>2, NormalStep
  <2>. QED  BY <2>1, <2>3
<1>3. Nat \subseteq T
  <2>. HIDE DEF T
  <2>. QED  BY <1>1, <1>2, NatSets
<1>4. ASSUME NEW e \in Trees PROVE Normal(e)
  <2>1. PICK n \in Nat : e \in Level[n]
    BY TreeLevel
  <2>. QED  BY <1>3, <2>1
<1>. QED  BY <1>4

-----------------------------------------------------------------------------
(* The file at the start is good and so is what an edit adds; the pairs    *)
(* that an edit sets are pairs, and the annotations stay what they are.    *)
Inputs ==
    /\ Initial \in Seq(Good)
    /\ NewEntries \subseteq Good
    /\ \A e \in Trees : /\ Addable(e) \subseteq Good
                        /\ Values(e) \subseteq IF IsMark(e) THEN MarkVals ELSE SUBSET Pairs

(* A good element without some of its children is good.                    *)
LEMMA FewerKids ==
  ASSUME Alphabet, NEW e \in Good, NEW P \in SUBSET (DOMAIN e.kids)
  PROVE  LET f == [e EXCEPT !.kids = At(e.kids, P)] IN
         /\ f \in Good /\ f.tag = e.tag /\ f.key = e.key
         /\ (\A i \in DOMAIN e.kids : IsMark(e.kids[i]) => i \in P) /\ Flagged(e) => Flagged(f)
<1>. DEFINE kids == At(e.kids, P)
            f == [e EXCEPT !.kids = kids]
<1>1. e \in Trees /\ Shown(e) /\ e.kids \in Seq(Good)
  BY GoodIs
<1>2. /\ kids \in Seq(Good)
      /\ \A n \in DOMAIN kids : \E i \in P : kids[n] = e.kids[i]
      /\ \A i \in P : \E n \in DOMAIN kids : kids[n] = e.kids[i]
      /\ \A m, n \in DOMAIN kids :
            m # n => \E i, j \in P : i # j /\ kids[m] = e.kids[i] /\ kids[n] = e.kids[j]
  BY <1>1, AtIs
<1>. HIDE DEF kids
<1>3. kids \in Seq(Trees)
  BY <1>2, GoodIs, SeqMonotonic
<1>4. f \in Trees /\ f.tag = e.tag /\ f.key = e.key /\ f.kids = kids
  BY <1>1, <1>3, NewKids
<1>. HIDE DEF f
<1>5. Shown(f)
  <2>1. ASSUME NEW m \in DOMAIN kids, NEW n \in DOMAIN kids,
               m # n, kids[m].tag = "form", Key(kids[m]) = Key(kids[n])
        PROVE  Side(kids[m]) # ""
    <3>1. PICK i \in P, j \in P : i # j /\ kids[m] = e.kids[i] /\ kids[n] = e.kids[j]
      BY <1>2, <2>1
    <3>2. i \in DOMAIN e.kids /\ j \in DOMAIN e.kids
      OBVIOUS
    <3>3. e.kids[i].tag = "form" /\ Key(e.kids[i]) = Key(e.kids[j])
      BY <2>1, <3>1
    <3>4. Side(e.kids[i]) # ""
      BY <1>1, <3>1, <3>2, <3>3 DEF Shown
    <3>. QED  BY <3>1, <3>4
  <2>. QED  BY <1>4, <2>1 DEF Shown
<1>6. ASSUME \A i \in DOMAIN e.kids : IsMark(e.kids[i]) => i \in P, Flagged(e)
      PROVE  Flagged(f)
  <2>1. PICK i \in DOMAIN e.kids : IsMark(e.kids[i])
    BY <1>6 DEF Flagged
  <2>2. PICK n \in DOMAIN kids : kids[n] = e.kids[i]
    BY <1>2, <1>6, <2>1
  <2>3. IsMark(kids[n])
    BY <2>1, <2>2, Zenon
  <2>. QED  BY <1>4, <2>3 DEF Flagged
<1>7. f \in Good
  BY <1>2, <1>4, <1>5, GoodIs
<1>8. f = [e EXCEPT !.kids = At(e.kids, P)]
  BY DEF f, kids
<1>. QED  BY <1>4, <1>6, <1>7, <1>8

(* _reconcile_entry_marker keeps an element good.                          *)
LEMMA ReconcileIs ==
  ASSUME Alphabet, NEW e \in Good
  PROVE  Reconcile(e) \in Good
<1>. DEFINE P == {i \in DOMAIN e.kids : e.kids[i] # Mark("conflict")}
<1>1. Reconcile(e) = IF HasMark(e) THEN e ELSE [e EXCEPT !.kids = At(e.kids, P)]
  BY DEF Reconcile
<1>2. P \in SUBSET (DOMAIN e.kids)
  OBVIOUS
<1>. HIDE DEF P
<1>3. [e EXCEPT !.kids = At(e.kids, P)] \in Good
  BY <1>2, FewerKids
<1>. QED  BY <1>1, <1>3

(* An edit of a good element leaves it good, of the same key, and marked   *)
(* if it was.                                                              *)
Changing(e) ==
    e \in Good => \A c \in Changes(e) : /\ c \in Good
                                        /\ c.tag = e.tag /\ c.key = e.key
                                        /\ Flagged(e) => Flagged(c)

(* An edit changes an element or one below it.                             *)
LEMMA ChangesStep ==
  ASSUME Alphabet, Recursion, Inputs, NEW e \in Good,
         \A i \in DOMAIN e.kids : Changing(e.kids[i]),
         NEW c \in Changes(e)
  PROVE  /\ c \in Good
         /\ c.tag = e.tag /\ c.key = e.key
         /\ Flagged(e) => Flagged(c)
<1>. DEFINE With(kids) == [e EXCEPT !.kids = kids]
            removable == {i \in DOMAIN e.kids : Removable(e.kids[i])}
            addable == {k \in Addable(e) : Key(k) \notin {Key(s) : s \in Range(e.kids)}}
<1>1. e \in Trees /\ Shown(e) /\ e.kids \in Seq(Good)
  BY GoodIs
<1>2. e.kids \in Seq(Trees)
  BY <1>1, TreeFields
<1>3. DOMAIN e.kids = 1..Len(e.kids) /\ Len(e.kids) \in Nat
      /\ \A i \in DOMAIN e.kids : e.kids[i] \in Good /\ e.kids[i] \in Trees
  BY <1>1, <1>2
<1>4. Changes(e) =
        {[e EXCEPT !.val = val] : val \in Values(e) \ {e.val}}
        \cup {With(Without(e.kids, i)) : i \in removable}
        \cup {With(Append(e.kids, k)) : k \in addable}
        \cup UNION {{With([e.kids EXCEPT ![i] = x]) : x \in Changes(e.kids[i])} : i \in DOMAIN e.kids}
  <2>1. Changes(e) = ChangesOf(e)
    BY <1>1 DEF Recursion
  <2>. QED  BY <2>1 DEF ChangesOf
<1>5. ASSUME NEW val \in Values(e), c = [e EXCEPT !.val = val]
      PROVE  c \in Good /\ c.tag = e.tag /\ c.key = e.key /\ (Flagged(e) => Flagged(c))
  <2>1. e \in [tag : Names, key : Names, val : SUBSET Pairs, kids : Seq(Trees)]
    BY <1>1, TreesAre, GrownIs
  <2>2. val \in SUBSET Pairs /\ (IsMark(e) => val \in MarkVals)
    <3>1. MarkVals \subseteq SUBSET Pairs
      BY MarkFacts DEF Alphabet
    <3>. QED  BY <1>1, <3>1 DEF Inputs
  <2>3. /\ c \in [tag : Names, key : Names, val : SUBSET Pairs, kids : Seq(Trees)]
        /\ c.tag = e.tag /\ c.key = e.key /\ c.val = val /\ c.kids = e.kids
    BY <1>5, <2>1, <2>2
  <2>4. IsMark(c) => c.val \in MarkVals
    BY <2>2, <2>3, MarkFacts
  <2>5. c \in Trees
    BY <2>3, <2>4, TreesAre, GrownIs
  <2>6. Shown(c) /\ (Flagged(e) => Flagged(c))
    BY <1>1, <2>3 DEF Shown, Flagged
  <2>. QED  BY <1>1, <2>3, <2>5, <2>6, GoodIs
<1>6. ASSUME NEW i \in removable, c = With(Without(e.kids, i))
      PROVE  c \in Good /\ c.tag = e.tag /\ c.key = e.key /\ (Flagged(e) => Flagged(c))
  <2>. DEFINE P == DOMAIN e.kids \ {i}
  <2>1. c = [e EXCEPT !.kids = At(e.kids, P)]
    BY <1>6 DEF Without
  <2>2. \A j \in DOMAIN e.kids : IsMark(e.kids[j]) => j \in P
    BY MarkFacts DEF Removable
  <2>3. P \in SUBSET (DOMAIN e.kids)
    OBVIOUS
  <2>. HIDE DEF P
  <2>. QED  BY <2>1, <2>2, <2>3, FewerKids
<1>7. ASSUME NEW kids \in Seq(Good), c = With(kids)
      PROVE  c \in Trees /\ c.tag = e.tag /\ c.key = e.key /\ c.kids = kids
  <2>1. kids \in Seq(Trees)
    BY GoodIs, SeqMonotonic
  <2>. QED  BY <1>1, <1>7, <2>1, NewKids
<1>8. ASSUME NEW k \in addable, c = With(Append(e.kids, k))
      PROVE  c \in Good /\ c.tag = e.tag /\ c.key = e.key /\ (Flagged(e) => Flagged(c))
  <2>. DEFINE kids == Append(e.kids, k)
  <2>1. k \in Good /\ \A i \in DOMAIN e.kids : Key(e.kids[i]) # Key(k)
    BY <1>1 DEF Inputs, Range
  <2>2. kids \in Seq(Good)
    BY <1>1, <2>1
  <2>3. /\ DOMAIN kids = 1..(Len(e.kids) + 1) /\ kids[Len(e.kids) + 1] = k
        /\ \A i \in DOMAIN e.kids : i \in DOMAIN kids /\ kids[i] = e.kids[i]
    BY <1>1, <1>3
  <2>. HIDE DEF kids
  <2>4. c = With(kids)
    BY <1>8 DEF kids
  <2>5. c \in Trees /\ c.tag = e.tag /\ c.key = e.key /\ c.kids = kids
    BY <1>7, <2>2, <2>4
  <2>6. ASSUME NEW i \in DOMAIN kids, NEW j \in DOMAIN kids,
               i # j, kids[i].tag = "form", Key(kids[i]) = Key(kids[j])
        PROVE  Side(kids[i]) # ""
    <3>1. i \in DOMAIN e.kids /\ j \in DOMAIN e.kids
      <4>1. i \in DOMAIN e.kids \/ i = Len(e.kids) + 1
        BY <1>3, <2>3
      <4>2. j \in DOMAIN e.kids \/ j = Len(e.kids) + 1
        BY <1>3, <2>3
      <4>. QED  BY <2>1, <2>3, <2>6, <4>1, <4>2
    <3>2. kids[i] = e.kids[i] /\ kids[j] = e.kids[j]
      BY <2>3, <3>1
    <3>. QED  BY <1>1, <2>6, <3>1, <3>2 DEF Shown
  <2>7. Shown(c)
    BY <2>5, <2>6 DEF Shown
  <2>8. Flagged(e) => Flagged(c)
    BY <2>3, <2>5 DEF Flagged
  <2>. QED  BY <2>2, <2>5, <2>7, <2>8, GoodIs
<1>9. ASSUME NEW i \in DOMAIN e.kids, NEW x \in Changes(e.kids[i]), c = With([e.kids EXCEPT ![i] = x])
      PROVE  c \in Good /\ c.tag = e.tag /\ c.key = e.key /\ (Flagged(e) => Flagged(c))
  <2>. DEFINE kids == [e.kids EXCEPT ![i] = x]
  <2>1. x \in Good /\ x.tag = e.kids[i].tag /\ x.key = e.kids[i].key /\ (Flagged(e.kids[i]) => Flagged(x))
    BY <1>3 DEF Changing
  <2>2. kids \in Seq(Good)
    BY <1>1, <2>1
  <2>3. /\ DOMAIN kids = DOMAIN e.kids /\ kids[i] = x
        /\ \A j \in DOMAIN e.kids : j # i => kids[j] = e.kids[j]
    BY <1>1
  <2>. HIDE DEF kids
  <2>4. c = With(kids)
    BY <1>9 DEF kids
  <2>5. c \in Trees /\ c.tag = e.tag /\ c.key = e.key /\ c.kids = kids
    BY <1>7, <2>2, <2>4
  <2>6. \A j \in DOMAIN e.kids : /\ kids[j].tag = e.kids[j].tag /\ kids[j].key = e.kids[j].key
                                 /\ Flagged(e.kids[j]) => Flagged(kids[j])
                                 /\ kids[j] \in Trees
    BY <1>3, <2>1, <2>3, GoodIs
  <2>7. ASSUME NEW j \in DOMAIN kids, NEW l \in DOMAIN kids,
               j # l, kids[j].tag = "form", Key(kids[j]) = Key(kids[l])
        PROVE  Side(kids[j]) # ""
    <3>1. j \in DOMAIN e.kids /\ l \in DOMAIN e.kids
      BY <2>3
    <3>2. e.kids[j].tag = "form" /\ Key(e.kids[j]) = Key(e.kids[l])
      BY <2>6, <2>7, <3>1 DEF Key
    <3>3. Side(e.kids[j]) # ""
      BY <1>1, <2>7, <3>1, <3>2 DEF Shown
    <3>4. Flagged(e.kids[j])
      BY <1>3, <3>1, <3>3, SideIs
    <3>. QED  BY <2>6, <3>1, <3>4, SideIs
  <2>8. Shown(c)
    BY <2>5, <2>7 DEF Shown
  <2>9. ASSUME Flagged(e) PROVE Flagged(c)
    <3>1. PICK j \in DOMAIN e.kids : IsMark(e.kids[j])
      BY <2>9 DEF Flagged
    <3>2. IsMark(kids[j])
      BY <2>6, <3>1, MarkFacts
    <3>. QED  BY <2>3, <2>5, <3>2 DEF Flagged
  <2>. QED  BY <2>2, <2>5, <2>8, <2>9, GoodIs
<1>10. \/ \E val \in Values(e) : c = [e EXCEPT !.val = val]
       \/ \E i \in removable : c = With(Without(e.kids, i))
       \/ \E k \in addable : c = With(Append(e.kids, k))
       \/ \E i \in DOMAIN e.kids : \E x \in Changes(e.kids[i]) : c = With([e.kids EXCEPT ![i] = x])
  <2>. HIDE DEF With, removable, addable
  <2>. QED  BY <1>4
<1>. HIDE DEF With, removable, addable
<1>. QED  BY <1>5, <1>6, <1>8, <1>9, <1>10

(* Every edit of a good element leaves it good.                            *)
LEMMA ChangesIs ==
  ASSUME Alphabet, Recursion, Inputs
  PROVE  \A e \in Trees : Changing(e)
<1>. DEFINE S == {e \in Trees : Changing(e)}
<1>1. ASSUME NEW e \in Trees, e \in Grown(S) PROVE e \in S
  <2>1. e.kids \in Seq(S)
    BY <1>1, GrownIs
  <2>2. \A i \in DOMAIN e.kids : Changing(e.kids[i])
    BY <2>1
  <2>3. Changing(e)
    <3>1. ASSUME e \in Good, NEW c \in Changes(e)
          PROVE  c \in Good /\ c.tag = e.tag /\ c.key = e.key /\ (Flagged(e) => Flagged(c))
      BY <2>2, <3>1, ChangesStep
    <3>. QED  BY <3>1 DEF Changing
  <2>. QED  BY <2>3
<1>2. Trees \subseteq S
  <2>. HIDE DEF S
  <2>. QED  BY <1>1, TreeInduction
<1>. QED  BY <1>2

-----------------------------------------------------------------------------
(* The entry of a guid is an element.                                      *)
LEMMA EntryOfIs ==
  ASSUME Alphabet, NEW f \in Seq(Trees), NEW guid
  PROVE  EntryOf(f, guid) \in Trees
<1>1. CASE \E e \in Range(f) : e.key = guid
  <2>1. \A e \in Range(f) : e \in Trees
    BY DEF Range
  <2>. QED  BY <1>1, <2>1 DEF EntryOf
<1>2. CASE ~ \E e \in Range(f) : e.key = guid
  BY <1>2, NoneIs DEF EntryOf
<1>. QED  BY <1>1, <1>2

(* The second of two entries of a guid gets one of its own.                *)
LEMMA RenamedIs ==
  ASSUME Alphabet, NEW e \in Trees
  PROVE  /\ [e EXCEPT !.key = Theirs(e.key)] \in Trees
         /\ [e EXCEPT !.key = Theirs(e.key)].key = Theirs(e.key)
<1>. DEFINE f == [e EXCEPT !.key = Theirs(e.key)]
<1>1. e \in [tag : Names, key : Names, val : SUBSET Pairs, kids : Seq(Trees)]
  BY TreesAre, GrownIs
<1>2. Theirs(e.key) \in Names /\ Theirs(e.key) # "azt-lift-conflict"
  BY <1>1 DEF Alphabet
<1>3. /\ f \in [tag : Names, key : Names, val : SUBSET Pairs, kids : Seq(Trees)]
      /\ f.key = Theirs(e.key)
  BY <1>1, <1>2
<1>. HIDE DEF f
<1>4. ~ IsMark(f)
  BY <1>2, <1>3, MarkFacts
<1>5. f \in Trees
  BY <1>3, <1>4, TreesAre, GrownIs
<1>. QED  BY <1>3, <1>5 DEF f

(* The entries that stand for an entry are elements.                       *)
LEMMA MergeEntryIs ==
  ASSUME Alphabet, Recursion, NEW b \in Trees, NEW o \in Trees, NEW t \in Trees
  PROVE  MergeEntry(b, o, t) \in Seq(Trees)
<1>1. ASSUME NEW e \in Trees, NEW side \in {"ours", "theirs"}
      PROVE  EntryOneSided(b, e, side) \in Seq(Trees)
  <2>1. Annotated(e, side) \in Trees
    BY AnnotatedIs
  <2>2. <<>> \in Seq(Trees) /\ <<e>> \in Seq(Trees) /\ <<Annotated(e, side)>> \in Seq(Trees)
    BY <2>1
  <2>. QED  BY <2>2 DEF EntryOneSided
<1>2. EntryInBoth(b, o, t) \in Seq(Trees)
  <2>. DEFINE elems == MergePair(b, o, t, TRUE).elems
              renamed == Renamed(elems)
              normal == NormalizeAll(renamed)
  <2>1. elems \in Seq(Trees)
    BY MergePairIs DEF Results
  <2>2. renamed \in Seq(Trees)
    <3>. HIDE DEF elems
    <3>1. DOMAIN elems = 1..Len(elems) /\ Len(elems) \in Nat /\ \A n \in 1..Len(elems) : elems[n] \in Trees
      BY <2>1
    <3>2. ASSUME NEW e \in Trees PROVE [e EXCEPT !.key = Theirs(e.key)] \in Trees
      BY RenamedIs
    <3>3. renamed = [n \in 1..Len(elems) |->
                       IF n = 2 THEN [elems[n] EXCEPT !.key = Theirs(elems[n].key)] ELSE elems[n]]
      BY <3>1 DEF Renamed
    <3>4. \A n \in 1..Len(elems) : renamed[n] \in Trees
      BY <3>1, <3>2, <3>3
    <3>5. renamed = [n \in 1..Len(elems) |-> renamed[n]]
      BY <3>3
    <3>. HIDE DEF renamed
    <3>. QED  BY <3>1, <3>4, <3>5
  <2>3. normal \in Seq(Trees)
    <3>. HIDE DEF renamed
    <3>1. normal = [n \in 1..Len(renamed) |-> Normalize(renamed[n])]
      <4>1. DOMAIN renamed = 1..Len(renamed)
        BY <2>2
      <4>. QED  BY <4>1 DEF NormalizeAll
    <3>2. \A n \in 1..Len(renamed) : Normalize(renamed[n]) \in Trees
      BY <2>2, NormalizeIs, GoodIs DEF Normal
    <3>. HIDE DEF normal
    <3>. QED  BY <2>2, <3>1, <3>2
  <2>4. ASSUME NEW differ PROVE ShowConflict(differ, normal) \in Seq(Trees)
    <3>. HIDE DEF normal
    <3>1. CASE 1 \in DOMAIN normal
      <4>1. Annotated(normal[1], "conflict") \in Trees
        BY <2>3, <3>1, AnnotatedIs
      <4>2. ASSUME NEW x \in Trees, NEW s \in Seq(Trees), NEW i \in DOMAIN s
            PROVE  [s EXCEPT ![i] = x] \in Seq(Trees)
        OBVIOUS
      <4>3. [normal EXCEPT ![1] = Annotated(normal[1], "conflict")] \in Seq(Trees)
        BY <2>3, <3>1, <4>1, <4>2
      <4>. QED  BY <2>3, <4>3 DEF ShowConflict
    <3>2. CASE 1 \notin DOMAIN normal
      <4>1. Range(normal) = {}
        <5>1. DOMAIN normal = 1..Len(normal) /\ Len(normal) \in Nat
          BY <2>3
        <5>2. DOMAIN normal = {}
          BY <3>2, <5>1
        <5>. QED  BY <5>2 DEF Range
      <4>. QED  BY <2>3, <4>1 DEF ShowConflict
    <3>. QED  BY <3>1, <3>2
  <2>5. EntryInBoth(b, o, t) = ShowConflict(Clean(o) # Clean(t), normal)
    BY DEF EntryInBoth
  <2>. HIDE DEF normal
  <2>. QED  BY <2>4, <2>5
<1>. QED  BY <1>1, <1>2 DEF MergeEntry

(* And so for all the entries of a file.                                   *)
LEMMA MergedEntriesIs ==
  ASSUME Alphabet, Recursion, NEW b \in Seq(Trees), NEW o \in Seq(Trees), NEW t \in Seq(Trees)
  PROVE  MergedEntries(b, o, t) \in Seq(Trees)
<1>. DEFINE keys == KeysOf(o \o t)
            ss == [n \in DOMAIN keys |->
                     MergeEntry(EntryOf(b, keys[n][2]), EntryOf(o, keys[n][2]), EntryOf(t, keys[n][2]))]
<1>1. DOMAIN keys = 1..Len(keys) /\ Len(keys) \in Nat
  <2>1. o \o t \in Seq(Trees)
    OBVIOUS
  <2>. QED  BY <2>1, KeysOfIs
<1>2. ASSUME NEW n \in 1..Len(keys) PROVE ss[n] \in Seq(Trees)
  <2>1. ss[n] = MergeEntry(EntryOf(b, keys[n][2]), EntryOf(o, keys[n][2]), EntryOf(t, keys[n][2]))
    BY <1>1
  <2>2. /\ EntryOf(b, keys[n][2]) \in Trees /\ EntryOf(o, keys[n][2]) \in Trees
        /\ EntryOf(t, keys[n][2]) \in Trees
    BY EntryOfIs
  <2>. HIDE DEF ss, keys
  <2>. QED  BY <2>1, <2>2, MergeEntryIs
<1>3. DOMAIN ss = 1..Len(keys) /\ ss = [n \in 1..Len(keys) |-> ss[n]]
  BY <1>1
<1>4. MergedEntries(b, o, t) = Flat(ss)
  BY DEF MergedEntries
<1>. HIDE DEF ss, keys
<1>. QED  BY <1>1, <1>2, <1>3, <1>4, FlatType

(* A merge of good files is one: it is a side as it was, or normalised.    *)
LEMMA MergeIs ==
  ASSUME Alphabet, Recursion, NEW b \in Seq(Good), NEW o \in Seq(Good), NEW t \in Seq(Good)
  PROVE  Merge(b, o, t) \in Seq(Good)
<1>1. ASSUME NEW x \in Seq(Good) PROVE x \in Seq(Trees)
  BY GoodIs, SeqMonotonic
<1>2. Parsed(b) \in Seq(Good)
  BY EmptySeq DEF Parsed
<1>3. ASSUME NEW merged \in Seq(Trees)
      PROVE  [n \in DOMAIN merged |-> Reconcile(Normalize(merged[n]))] \in Seq(Good)
  <2>1. \A n \in 1..Len(merged) : Reconcile(Normalize(merged[n])) \in Good
    BY NormalizeIs, ReconcileIs DEF Normal
  <2>2. DOMAIN merged = 1..Len(merged) /\ Len(merged) \in Nat
    OBVIOUS
  <2>. QED  BY <2>1, <2>2
<1>4. ThreeWayMerge(Parsed(b), o, t) \in Seq(Good)
  <2>. DEFINE merged == MergedEntries(Parsed(b), o, t)
  <2>1. merged \in Seq(Trees)
    BY <1>1, <1>2, MergedEntriesIs
  <2>2. ThreeWayMerge(Parsed(b), o, t) = Guarded(Parsed(b), o, t, merged)
    BY DEF ThreeWayMerge
  <2>3. [n \in DOMAIN merged |-> Reconcile(Normalize(merged[n]))] \in Seq(Good)
    BY <1>3, <2>1
  <2>. HIDE DEF merged
  <2>4. Guarded(Parsed(b), o, t, merged) \in {o, t, [n \in DOMAIN merged |-> Reconcile(Normalize(merged[n]))]}
    BY DEF Guarded
  <2>. QED  BY <2>2, <2>3, <2>4
<1>. QED  BY <1>4 DEF Merge

(* An edit leaves a good file good.                                        *)
LEMMA EditedIs ==
  ASSUME Alphabet, Recursion, Inputs, NEW f \in Seq(Good), NEW g \in Edited(f)
  PROVE  g \in Seq(Good)
<1>1. \A i \in DOMAIN f : Without(f, i) \in Seq(Good)
  <2>1. ASSUME NEW i \in DOMAIN f PROVE Without(f, i) \in Seq(Good)
    <3>1. DOMAIN f \ {i} \in SUBSET (DOMAIN f)
      OBVIOUS
    <3>. QED  BY <3>1, AtIs DEF Without
  <2>. QED  BY <2>1
<1>2. \A e \in NewEntries : Append(f, e) \in Seq(Good)
  BY DEF Inputs
<1>3. ASSUME NEW i \in DOMAIN f, NEW c \in Changes(f[i]) PROVE [f EXCEPT ![i] = c] \in Seq(Good)
  <2>1. f[i] \in Good /\ f[i] \in Trees
    BY GoodIs
  <2>2. c \in Good
    BY <2>1, ChangesIs DEF Changing
  <2>. QED  BY <2>2
<1>4. \/ \E i \in DOMAIN f : g = Without(f, i)
      \/ \E e \in NewEntries : g = Append(f, e)
      \/ \E i \in DOMAIN f : \E c \in Changes(f[i]) : g = [f EXCEPT ![i] = c]
  BY DEF Edited
<1>. QED  BY <1>1, <1>2, <1>3, <1>4

(* The keys on the way to an element.                                      *)
Paths == Seq(Names \X Names)

(* Everything in a good element is good.                                   *)
LEMMA NodesAre ==
  ASSUME Alphabet, Recursion
  PROVE  \A e \in Trees : e \in Good =>
            \A path \in Paths : \A node \in Nodes(e, path) : node[2] \in Good
<1>. DEFINE Fine(e) == e \in Good => \A path \in Paths : \A node \in Nodes(e, path) : node[2] \in Good
            S == {e \in Trees : Fine(e)}
<1>1. ASSUME NEW e \in Trees, e \in Grown(S) PROVE e \in S
  <2>1. SUFFICES ASSUME e \in Good, NEW path \in Paths, NEW node \in Nodes(e, path)
        PROVE  node[2] \in Good
    OBVIOUS
  <2>2. \A k \in Range(e.kids) : k \in S /\ k \in Good
    <3>1. e.kids \in Seq(S) /\ e.kids \in Seq(Good)
      BY <1>1, <2>1, GrownIs, GoodIs
    <3>. HIDE DEF S
    <3>. QED  BY <3>1 DEF Range
  <2>. DEFINE here == Append(path, Key(e))
  <2>3. here \in Paths
    <3>1. Key(e) \in Names \X Names
      BY TreeFields DEF Key
    <3>. QED  BY <3>1 DEF Paths
  <2>4. node \in {<<here, e>>} \cup UNION {Nodes(k, here) : k \in {k \in Range(e.kids) : ~ IsMark(k)}}
    <3>1. Nodes(e, path) = NodesIn(e, path)
      BY DEF Recursion, Paths
    <3>. QED  BY <3>1 DEF NodesIn
  <2>. HIDE DEF here
  <2>5. CASE node = <<here, e>>
    BY <2>1, <2>5
  <2>6. CASE node # <<here, e>>
    <3>1. PICK k \in Range(e.kids) : node \in Nodes(k, here)
      BY <2>4, <2>6
    <3>. QED  BY <2>2, <2>3, <3>1
  <2>. QED  BY <2>5, <2>6
<1>2. Trees \subseteq S
  <2>. HIDE DEF S
  <2>. QED  BY <1>1, TreeInduction
<1>. QED  BY <1>2

(* The invariant: the file of each device is good, and so is the base of   *)
(* their next merge.                                                       *)
FilesGood ==
    /\ file \in [Devices -> Seq(Good)]
    /\ mergeBase \in Seq(Good)

(* In good files the conflicts show.                                       *)
LEMMA GoodFilesShow ==
  ASSUME Alphabet, Recursion, FilesGood
  PROVE  ConflictsShow
<1>1. SUFFICES ASSUME NEW d \in Devices, NEW node \in NodesOf(file[d]),
                      NEW k \in Range(node[2].kids), NEW s \in Range(node[2].kids),
                      k.tag = "form", s.tag = "form", Key(k) = Key(s), Clean(k) # Clean(s)
      PROVE  Side(k) # ""
  BY DEF ConflictsShow
<1>2. node[2] \in Good
  <2>1. Parsed(file[d]) \in Seq(Good)
    BY EmptySeq DEF Parsed, FilesGood
  <2>2. PICK e \in Range(Parsed(file[d])) : node \in Nodes(e, <<>>)
    BY DEF NodesOf
  <2>3. e \in Good /\ e \in Trees
    BY <2>1, GoodIs DEF Range
  <2>4. <<>> \in Paths
    BY EmptySeq DEF Paths
  <2>. QED  BY <2>2, <2>3, <2>4, NodesAre
<1>3. PICK i \in DOMAIN node[2].kids, j \in DOMAIN node[2].kids :
         k = node[2].kids[i] /\ s = node[2].kids[j]
  BY DEF Range
<1>4. i # j
  BY <1>1, <1>3
<1>. QED  BY <1>1, <1>2, <1>3, <1>4, GoodIs DEF Shown

(* Forms of one language that differ are marked as a conflict, in the file *)
(* of either device and at any depth, for any files, edits and merges:     *)
(* _normalize_entry runs on all that a merge writes, and an edit adds no   *)
(* second form of a language.                                              *)
THEOREM MergesShow ==
  ASSUME Alphabet, Inputs, Recursion
  PROVE  MergeSpec => []ConflictsShow
<1>1. MergeInit => FilesGood
  BY DEF MergeInit, FilesGood, Inputs
<1>2. FilesGood /\ [MergeNext]_mergeVars => FilesGood'
  <2>. SUFFICES ASSUME FilesGood, [MergeNext]_mergeVars PROVE FilesGood'
    OBVIOUS
  <2>1. ASSUME NEW d \in Devices, EditFile(d) PROVE FilesGood'
    <3>1. PICK f \in Edited(file[d]) : file' = [file EXCEPT ![d] = f]
      BY <2>1 DEF EditFile
    <3>2. f \in Seq(Good)
      BY EditedIs DEF FilesGood
    <3>. QED  BY <2>1, <3>1, <3>2 DEF FilesGood, EditFile
  <2>2. ASSUME NEW d \in Devices, Tear(d) PROVE FilesGood'
    <3>1. CutShort \in Seq(Good) /\ <<>> \in Seq(Good)
      BY NoneIs, EmptySeq
    <3>. QED  BY <2>2, <3>1 DEF FilesGood, Tear
  <2>3. ASSUME NEW d \in Devices, NEW p \in Devices
        PROVE  Merge(mergeBase, file[d], file[p]) \in Seq(Good)
    BY MergeIs DEF FilesGood
  <2>4. ASSUME NEW d \in Devices, NEW p \in Devices, Meet(d, p) PROVE FilesGood'
    BY <2>3, <2>4 DEF FilesGood, Meet
  <2>5. ASSUME NEW d \in Devices, NEW p \in Devices, Cross(d, p) PROVE FilesGood'
    <3>1. /\ Merge(mergeBase, file[d], file[p]) \in Seq(Good)
          /\ Merge(mergeBase, file[p], file[d]) \in Seq(Good)
      BY <2>3
    <3>. QED  BY <2>5, <3>1 DEF FilesGood, Cross
  <2>6. CASE UNCHANGED mergeVars
    BY <2>6 DEF FilesGood, mergeVars
  <2>. QED  BY <2>1, <2>2, <2>4, <2>5, <2>6 DEF MergeNext
<1>3. FilesGood => ConflictsShow
  BY GoodFilesShow
<1>. QED  BY <1>1, <1>2, <1>3, PTL DEF MergeSpec

-----------------------------------------------------------------------------
(* What is in a short sequence.                                            *)
LEMMA Ranges ==
  ASSUME NEW x, NEW y
  PROVE  x \in Range(<<x>>) /\ x \in Range(<<x, y>>) /\ y \in Range(<<x, y>>)
<1>1. 1 \in DOMAIN <<x>> /\ <<x>>[1] = x
  OBVIOUS
<1>2. /\ 1 \in DOMAIN <<x, y>> /\ <<x, y>>[1] = x
      /\ 2 \in DOMAIN <<x, y>> /\ <<x, y>>[2] = y
  OBVIOUS
<1>. QED  BY <1>1, <1>2 DEF Range

(* What _merge_pair makes of an element of ours that is not as it was in   *)
(* the base.                                                               *)
LEMMA PairOurs ==
  ASSUME NEW p, NEW c, NEW k, NEW multi, c # None, p # None => Clean(p) # Clean(c),
         ~ MergedPair(p, c, k, multi).up
  PROVE  \E e \in Range(MergedPair(p, c, k, multi).elems) :
            \/ e \in {c, Clean(c), Annotated(c, "ours")}
            \/ /\ k # None /\ Clean(k) # Clean(c) /\ ~ WalkChildren(p, c, k).up
               /\ e = [c EXCEPT !.kids = WalkChildren(p, c, k).elems]
<1>. DEFINE r == MergedPair(p, c, k, multi)
            apart == IF multi THEN Result(<<Annotated(c, "ours"), Annotated(k, "theirs")>>) ELSE Escalate
            inside == WalkChildren(p, c, k)
            whole == [c EXCEPT !.kids = inside.elems]
<1>1. /\ r = IF k = None THEN Result(OneSided(p, c))
             ELSE IF Clean(c) = Clean(k) THEN Result(<<Clean(c)>>)
             ELSE IF p # None /\ Clean(k) = Clean(p) THEN Result(<<c>>)
             ELSE IF c.kids = <<>> /\ k.kids = <<>> THEN apart
             ELSE IF inside.up THEN apart
             ELSE Result(<<whole>>)
  BY DEF MergedPair
<1>2. OneSided(p, c) = <<c>>
  BY DEF OneSided
<1>3. Escalate.up /\ \A elems : Result(elems).elems = elems
  BY DEF Escalate, Result
<1>4. r = apart => r.elems = <<Annotated(c, "ours"), Annotated(k, "theirs")>>
  BY <1>3
<1>5. \/ r.elems = <<c>>
      \/ r.elems = <<Clean(c)>>
      \/ r.elems = <<Annotated(c, "ours"), Annotated(k, "theirs")>>
      \/ k # None /\ Clean(k) # Clean(c) /\ ~ inside.up /\ r.elems = <<whole>>
  <2>. HIDE DEF r, apart, inside, whole
  <2>. QED  BY <1>1, <1>2, <1>3, <1>4
<1>. HIDE DEF r, whole
<1>6. \E e \in Range(r.elems) :
         \/ e \in {c, Clean(c), Annotated(c, "ours")}
         \/ k # None /\ Clean(k) # Clean(c) /\ ~ inside.up /\ e = whole
  BY <1>5, Ranges, Zenon
<1>. QED  BY <1>6 DEF r, whole

(* What it makes of one of theirs.                                         *)
LEMMA PairTheirs ==
  ASSUME NEW p, NEW k, NEW c, NEW multi, c # None, p # None => Clean(p) # Clean(c),
         ~ MergedPair(p, k, c, multi).up
  PROVE  \E e \in Range(MergedPair(p, k, c, multi).elems) :
            \/ e \in {c, Annotated(c, "theirs")}
            \/ k # None /\ Clean(k) = Clean(c) /\ e = Clean(k)
            \/ /\ k # None /\ Clean(k) # Clean(c) /\ ~ WalkChildren(p, k, c).up
               /\ e = [k EXCEPT !.kids = WalkChildren(p, k, c).elems]
<1>. DEFINE r == MergedPair(p, k, c, multi)
            apart == IF multi THEN Result(<<Annotated(k, "ours"), Annotated(c, "theirs")>>) ELSE Escalate
            inside == WalkChildren(p, k, c)
            whole == [k EXCEPT !.kids = inside.elems]
<1>1. /\ r = IF k = None THEN Result(OneSided(p, c))
             ELSE IF Clean(k) = Clean(c) THEN Result(<<Clean(k)>>)
             ELSE IF p # None /\ Clean(k) = Clean(p) THEN Result(<<c>>)
             ELSE IF k.kids = <<>> /\ c.kids = <<>> THEN apart
             ELSE IF inside.up THEN apart
             ELSE Result(<<whole>>)
  BY DEF MergedPair
<1>2. OneSided(p, c) = <<c>>
  BY DEF OneSided
<1>3. Escalate.up /\ \A elems : Result(elems).elems = elems
  BY DEF Escalate, Result
<1>4. r = apart => r.elems = <<Annotated(k, "ours"), Annotated(c, "theirs")>>
  BY <1>3
<1>5. \/ r.elems = <<c>>
      \/ k # None /\ Clean(k) = Clean(c) /\ r.elems = <<Clean(k)>>
      \/ r.elems = <<Annotated(k, "ours"), Annotated(c, "theirs")>>
      \/ k # None /\ Clean(k) # Clean(c) /\ ~ inside.up /\ r.elems = <<whole>>
  <2>. HIDE DEF r, apart, inside, whole
  <2>. QED  BY <1>1, <1>2, <1>3, <1>4
<1>. HIDE DEF r, whole
<1>6. \E e \in Range(r.elems) :
         \/ e \in {c, Annotated(c, "theirs")}
         \/ k # None /\ Clean(k) = Clean(c) /\ e = Clean(k)
         \/ k # None /\ Clean(k) # Clean(c) /\ ~ inside.up /\ e = whole
  BY <1>5, Ranges, Zenon
<1>. QED  BY <1>6 DEF r, whole

(* Where the children are merged, what is made of each pair is in the      *)
(* merge.                                                                  *)
LEMMA PairKept ==
  ASSUME Alphabet, Recursion, NEW b \in Trees, NEW o \in Trees, NEW t \in Trees,
         ~ WalkChildren(b, o, t).up, NEW n \in DOMAIN ChildPairs(b, o, t)
  PROVE  LET pair == ChildPairs(b, o, t)[n] IN
         \E multi \in BOOLEAN :
            /\ ~ MergedPair(pair[1], pair[2], pair[3], multi).up
            /\ Range(MergedPair(pair[1], pair[2], pair[3], multi).elems) \subseteq Range(WalkChildren(b, o, t).elems)
<1>. DEFINE pairs == ChildPairs(b, o, t)
            pair == pairs[n]
            multi == Multi(o.tag, PairTag(pair))
            rs == MergedPairs(o, pairs)
            r == MergedPair(pair[1], pair[2], pair[3], multi)
            T == Trees \X Trees \X Trees
            ss == [m \in DOMAIN rs |-> rs[m].elems]
<1>1. pairs \in Seq(T)
  <2>1. pairs \in Seq(UNION {OfKids(b, o, t, key) : key \in Names \X Names})
    BY ChildPairsIs
  <2>2. \A key : OfKids(b, o, t, key) \in SUBSET T
    BY KidsOfIs DEF OfKids, TriplesOf
  <2>3. UNION {OfKids(b, o, t, key) : key \in Names \X Names} \in SUBSET T
    BY <2>2
  <2>. HIDE DEF pairs, T
  <2>. QED  BY <2>1, <2>3, SeqMonotonic
<1>2. WalkChildren(b, o, t) = Joined(rs)
  BY DEF WalkChildren
<1>3. /\ DOMAIN pairs = 1..Len(pairs) /\ Len(pairs) \in Nat
      /\ \A m \in DOMAIN pairs : pairs[m] \in T
  <2>. HIDE DEF pairs, T
  <2>. QED  BY <1>1
<1>4. /\ DOMAIN rs = DOMAIN pairs
      /\ rs = [m \in DOMAIN pairs |-> rs[m]]
      /\ \A m \in DOMAIN pairs :
            rs[m] = MergePair(pairs[m][1], pairs[m][2], pairs[m][3], Multi(o.tag, PairTag(pairs[m])))
  BY DEF MergedPairs
<1>5. multi \in BOOLEAN /\ \A m \in DOMAIN pairs : Multi(o.tag, PairTag(pairs[m])) \in BOOLEAN
  BY DEF Multi
<1>. HIDE DEF pairs, rs, multi
<1>6. ASSUME NEW m \in DOMAIN pairs PROVE rs[m] \in Results
  <2>1. pairs[m][1] \in Trees /\ pairs[m][2] \in Trees /\ pairs[m][3] \in Trees
    BY <1>3
  <2>. QED  BY <1>4, <1>5, <2>1, MergePairIs
<1>7. rs[n] = r
  <2>1. pair[1] \in Trees /\ pair[2] \in Trees /\ pair[3] \in Trees /\ n \in DOMAIN pairs
    BY <1>3 DEF pairs
  <2>2. rs[n] = MergePair(pair[1], pair[2], pair[3], multi)
    BY <1>4, <2>1 DEF multi
  <2>. QED  BY <1>5, <2>1, <2>2 DEF Recursion
<1>8. n \in DOMAIN rs
  BY <1>4 DEF pairs
<1>9. /\ Joined(rs) = IF \E m \in DOMAIN rs : rs[m].up THEN Escalate ELSE Result(Flat(ss))
      /\ Escalate.up
  BY DEF Joined, Escalate
<1>10. ~ rs[n].up /\ Joined(rs).elems = Flat(ss)
  <2>1. ~ \E m \in DOMAIN rs : rs[m].up
    BY <1>2, <1>9
  <2>. HIDE DEF ss
  <2>. QED  BY <1>8, <1>9, <2>1 DEF Result
<1>11. /\ DOMAIN ss = 1..Len(pairs) /\ ss = [m \in 1..Len(pairs) |-> ss[m]]
       /\ \A m \in 1..Len(pairs) : ss[m] \in Seq(Trees)
       /\ ss[n] = rs[n].elems
  BY <1>3, <1>4, <1>6, <1>8 DEF Results
<1>. HIDE DEF ss
<1>12. ss \in Seq(Seq(Trees))
  BY <1>3, <1>11, FlatType
<1>13. ASSUME NEW m \in DOMAIN rs[n].elems PROVE rs[n].elems[m] \in Range(Joined(rs).elems)
  <2>1. n \in DOMAIN ss /\ m \in DOMAIN ss[n]
    BY <1>3, <1>4, <1>8, <1>11
  <2>2. \E l \in DOMAIN Flat(ss) : Flat(ss)[l] = ss[n][m]
    BY <1>12, <2>1, FlatHas
  <2>. QED  BY <1>10, <1>11, <2>2 DEF Range
<1>14. Range(rs[n].elems) \subseteq Range(Joined(rs).elems)
  BY <1>13 DEF Range
<1>. QED  BY <1>2, <1>5, <1>7, <1>10, <1>14 DEF pairs

(* A child that ours has added or changed is in the merge: as it is, with  *)
(* its annotations taken out, marked as ours, or merged with a child of    *)
(* theirs of the same tag and key, inside (_walk_children, _merge_pair).   *)
(* It is not lost to a delete, to a reorder, or to another child that it   *)
(* is paired with.                                                         *)
THEOREM OursStays ==
  ASSUME Alphabet, Recursion, NEW b \in Trees, NEW o \in Trees, NEW t \in Trees,
         ~ WalkChildren(b, o, t).up, NEW c \in Range(o.kids), c # None,
         \A p \in Range(b.kids) : Key(p) = Key(c) => Clean(p) # Clean(c)
  PROVE  \E e \in Range(WalkChildren(b, o, t).elems) :
            \/ e \in {c, Clean(c), Annotated(c, "ours")}
            \/ \E k \in Range(t.kids), p \in {None} \cup Range(b.kids) :
                  /\ Key(k) = Key(c) /\ Clean(k) # Clean(c) /\ ~ WalkChildren(p, c, k).up
                  /\ e = [c EXCEPT !.kids = WalkChildren(p, c, k).elems]
<1>. DEFINE pairs == ChildPairs(b, o, t)
            merge == Range(WalkChildren(b, o, t).elems)
<1>1. PICK i \in DOMAIN o.kids : c = o.kids[i]
  BY DEF Range
<1>2. PICK n \in DOMAIN pairs : pairs[n][2] = c /\ pairs[n] \in OfKids(b, o, t, Key(c))
  BY <1>1, ChildPairsIs
<1>. DEFINE p == pairs[n][1]
            k == pairs[n][3]
<1>3. p \in KidsOf(b, Key(c)) /\ k \in KidsOf(t, Key(c))
  <2>. HIDE DEF pairs
  <2>. QED  BY <1>2 DEF OfKids, TriplesOf
<1>4. PICK multi \in BOOLEAN : /\ ~ MergedPair(p, c, k, multi).up
                               /\ Range(MergedPair(p, c, k, multi).elems) \subseteq merge
  BY <1>2, PairKept
<1>. HIDE DEF p, k, pairs, merge
<1>5. p # None => Clean(p) # Clean(c)
  BY <1>3 DEF KidsOf
<1>6. PICK e \in Range(MergedPair(p, c, k, multi).elems) :
         \/ e \in {c, Clean(c), Annotated(c, "ours")}
         \/ /\ k # None /\ Clean(k) # Clean(c) /\ ~ WalkChildren(p, c, k).up
            /\ e = [c EXCEPT !.kids = WalkChildren(p, c, k).elems]
  BY <1>4, <1>5, PairOurs
<1>7. e \in merge
  BY <1>4, <1>6
<1>8. p \in {None} \cup Range(b.kids) /\ (k # None => k \in Range(t.kids) /\ Key(k) = Key(c))
  BY <1>3 DEF KidsOf
<1>. QED  BY <1>6, <1>7, <1>8, Zenon DEF merge

(* And so is a child that theirs has added or changed: as it is, as the    *)
(* child of ours that says the same, marked as theirs, or merged into a    *)
(* child of ours of the same tag and key.                                  *)
THEOREM TheirsStays ==
  ASSUME Alphabet, Recursion, NEW b \in Trees, NEW o \in Trees, NEW t \in Trees,
         ~ WalkChildren(b, o, t).up, NEW c \in Range(t.kids), c # None,
         \A p \in Range(b.kids) : Key(p) = Key(c) => Clean(p) # Clean(c)
  PROVE  \E e \in Range(WalkChildren(b, o, t).elems) :
            \/ e \in {c, Annotated(c, "theirs")}
            \/ \E k \in Range(o.kids) : Key(k) = Key(c) /\ Clean(k) = Clean(c) /\ e = Clean(k)
            \/ \E k \in Range(o.kids), p \in {None} \cup Range(b.kids) :
                  /\ Key(k) = Key(c) /\ Clean(k) # Clean(c) /\ ~ WalkChildren(p, k, c).up
                  /\ e = [k EXCEPT !.kids = WalkChildren(p, k, c).elems]
<1>. DEFINE pairs == ChildPairs(b, o, t)
            merge == Range(WalkChildren(b, o, t).elems)
<1>1. PICK i \in DOMAIN t.kids : c = t.kids[i]
  BY DEF Range
<1>2. PICK n \in DOMAIN pairs : pairs[n][3] = c /\ pairs[n] \in OfKids(b, o, t, Key(c))
  BY <1>1, ChildPairsIs
<1>. DEFINE p == pairs[n][1]
            k == pairs[n][2]
<1>3. p \in KidsOf(b, Key(c)) /\ k \in KidsOf(o, Key(c))
  <2>. HIDE DEF pairs
  <2>. QED  BY <1>2 DEF OfKids, TriplesOf
<1>4. PICK multi \in BOOLEAN : /\ ~ MergedPair(p, k, c, multi).up
                               /\ Range(MergedPair(p, k, c, multi).elems) \subseteq merge
  BY <1>2, PairKept
<1>. HIDE DEF p, k, pairs, merge
<1>5. p # None => Clean(p) # Clean(c)
  BY <1>3 DEF KidsOf
<1>6. PICK e \in Range(MergedPair(p, k, c, multi).elems) :
         \/ e \in {c, Annotated(c, "theirs")}
         \/ k # None /\ Clean(k) = Clean(c) /\ e = Clean(k)
         \/ /\ k # None /\ Clean(k) # Clean(c) /\ ~ WalkChildren(p, k, c).up
            /\ e = [k EXCEPT !.kids = WalkChildren(p, k, c).elems]
  BY <1>4, <1>5, PairTheirs
<1>7. e \in merge
  BY <1>4, <1>6
<1>8. p \in {None} \cup Range(b.kids) /\ (k # None => k \in Range(o.kids) /\ Key(k) = Key(c))
  BY <1>3 DEF KidsOf
<1>. QED  BY <1>6, <1>7, <1>8, Zenon DEF merge

-----------------------------------------------------------------------------
(* An entry that both sides have is merged to one entry of its guid, or to *)
(* two.                                                                    *)
LEMMA BothMerged ==
  ASSUME Alphabet, Recursion, NEW b \in Trees, NEW o \in Trees, NEW t \in Trees,
         o # None, t # None, o.key = t.key
  PROVE  LET elems == MergePair(b, o, t, TRUE).elems IN
         elems \in Seq(Trees) /\ 1 \in DOMAIN elems /\ \A n \in DOMAIN elems : elems[n].key = o.key
<1>. DEFINE inside == WalkChildren(b, o, t)
            whole == [o EXCEPT !.kids = inside.elems]
            apart == Result(<<Annotated(o, "ours"), Annotated(t, "theirs")>>)
            r == MergePair(b, o, t, TRUE)
<1>1. r \in {Result(<<Clean(o)>>), Result(<<t>>), Result(<<o>>), Result(<<whole>>), apart}
  <2>1. r = MergedPair(b, o, t, TRUE)
    BY DEF Recursion
  <2>. QED  BY <2>1 DEF MergedPair
<1>2. r \in Results
  BY MergePairIs
<1>3. \A elems : Result(elems).elems = elems
  BY DEF Result
<1>4. Clean(o).key = o.key /\ Annotated(o, "ours").key = o.key /\ Annotated(t, "theirs").key = o.key
  BY CleanIs, AnnotatedIs
<1>5. whole.key = o.key
  BY TreesAre, GrownIs
<1>. HIDE DEF r, whole
<1>6. \/ r.elems = <<Clean(o)>> \/ r.elems = <<t>> \/ r.elems = <<o>> \/ r.elems = <<whole>>
      \/ r.elems = <<Annotated(o, "ours"), Annotated(t, "theirs")>>
  BY <1>1, <1>3
<1>7. 1 \in DOMAIN r.elems /\ \A n \in DOMAIN r.elems : r.elems[n].key = o.key
  BY <1>4, <1>5, <1>6
<1>. QED  BY <1>2, <1>7 DEF Results, r

(* It still is when it is normalised and marked.                           *)
LEMMA InBothStays ==
  ASSUME Alphabet, Recursion, NEW b \in Trees, NEW o \in Trees, NEW t \in Trees,
         o # None, t # None, o.key = t.key
  PROVE  \E n \in DOMAIN EntryInBoth(b, o, t) : EntryInBoth(b, o, t)[n].key = o.key
<1>. DEFINE elems == MergePair(b, o, t, TRUE).elems
            renamed == Renamed(elems)
            normal == NormalizeAll(renamed)
            shown(differ) == ShowConflict(differ, normal)
<1>1. 1 \in DOMAIN elems /\ elems[1] \in Trees /\ elems[1].key = o.key
  <2>. HIDE DEF elems
  <2>1. elems \in Seq(Trees) /\ 1 \in DOMAIN elems /\ \A n \in DOMAIN elems : elems[n].key = o.key
    BY BothMerged DEF elems
  <2>. QED  BY <2>1
<1>. HIDE DEF elems
<1>2. 1 \in DOMAIN renamed /\ renamed[1] = elems[1]
  BY <1>1 DEF Renamed
<1>. HIDE DEF renamed
<1>3. 1 \in DOMAIN normal /\ normal[1] = Normalize(elems[1])
  BY <1>2 DEF NormalizeAll
<1>4. Normalize(elems[1]) \in Trees /\ Normalize(elems[1]).key = o.key
  BY <1>1, NormalizeIs, GoodIs DEF Normal
<1>. HIDE DEF normal
<1>5. Annotated(normal[1], "conflict").key = o.key
  BY <1>3, <1>4, AnnotatedIs
<1>6. ASSUME NEW differ PROVE 1 \in DOMAIN shown(differ) /\ shown(differ)[1].key = o.key
  BY <1>3, <1>4, <1>5 DEF ShowConflict
<1>7. EntryInBoth(b, o, t) = shown(Clean(o) # Clean(t))
  BY DEF EntryInBoth, normal, renamed, elems
<1>. HIDE DEF shown
<1>. QED  BY <1>6, <1>7

(* The entry of a guid, if there is one.                                   *)
LEMMA EntryFound ==
  ASSUME Alphabet, NEW f \in Seq(Trees), NEW guid, EntryOf(f, guid) # None
  PROVE  /\ EntryOf(f, guid) \in Trees /\ EntryOf(f, guid).key = guid
         /\ \E i \in DOMAIN f : f[i].key = guid
<1>1. \E e \in Range(f) : e.key = guid
  BY DEF EntryOf
<1>2. EntryOf(f, guid) = CHOOSE e \in Range(f) : e.key = guid
  BY <1>1 DEF EntryOf
<1>3. EntryOf(f, guid).key = guid
  BY <1>1, <1>2
<1>4. \E i \in DOMAIN f : f[i].key = guid
  BY <1>1 DEF Range
<1>. QED  BY <1>3, <1>4, EntryOfIs

(* Both sides have the entry, or one has it and has added or changed it.   *)
Wanted(b, o, t, guid) ==
    LET p == EntryOf(b, guid)  x == EntryOf(o, guid)  y == EntryOf(t, guid)
    IN  (x # None /\ y # None) \/ (x # None /\ x # p) \/ (y # None /\ y # p)

(* What is merged of a wanted entry has its guid.                          *)
LEMMA EntryMerged ==
  ASSUME Alphabet, Recursion, NEW b \in Seq(Trees), NEW o \in Seq(Trees), NEW t \in Seq(Trees),
         NEW guid, Wanted(b, o, t, guid)
  PROVE  LET elems == MergeEntry(EntryOf(b, guid), EntryOf(o, guid), EntryOf(t, guid))
         IN  \E n \in DOMAIN elems : elems[n].key = guid
<1>. DEFINE p == EntryOf(b, guid)
            x == EntryOf(o, guid)
            y == EntryOf(t, guid)
<1>1. p \in Trees /\ x \in Trees /\ y \in Trees
  BY EntryOfIs
<1>2. (x # None => x.key = guid) /\ (y # None => y.key = guid)
  BY EntryFound
<1>3. (x # None /\ y # None) \/ (x # None /\ x # p) \/ (y # None /\ y # p)
  BY DEF Wanted
<1>. HIDE DEF p, x, y
<1>4. ASSUME NEW e \in Trees, e # p, e.key = guid, NEW side \in {"ours", "theirs"}
      PROVE  \E n \in DOMAIN EntryOneSided(p, e, side) : EntryOneSided(p, e, side)[n].key = guid
  <2>1. Annotated(e, side).key = guid
    BY <1>4, AnnotatedIs
  <2>2. EntryOneSided(p, e, side) = <<e>> \/ EntryOneSided(p, e, side) = <<Annotated(e, side)>>
    BY <1>4 DEF EntryOneSided
  <2>. QED  BY <1>4, <2>1, <2>2
<1>5. CASE x # None /\ y # None
  <2>1. MergeEntry(p, x, y) = EntryInBoth(p, x, y)
    BY <1>5 DEF MergeEntry
  <2>2. \E n \in DOMAIN EntryInBoth(p, x, y) : EntryInBoth(p, x, y)[n].key = x.key
    BY <1>1, <1>2, <1>5, InBothStays
  <2>. QED  BY <1>2, <1>5, <2>1, <2>2 DEF p, x, y
<1>6. CASE x # None /\ y = None
  <2>1. MergeEntry(p, x, y) = EntryOneSided(p, x, "ours")
    BY <1>6 DEF MergeEntry
  <2>2. \E n \in DOMAIN MergeEntry(p, x, y) : MergeEntry(p, x, y)[n].key = guid
    BY <1>1, <1>2, <1>3, <1>4, <1>6, <2>1
  <2>. QED  BY <2>2 DEF p, x, y
<1>7. CASE x = None
  <2>1. MergeEntry(p, x, y) = EntryOneSided(p, y, "theirs")
    BY <1>3, <1>7 DEF MergeEntry
  <2>2. \E n \in DOMAIN MergeEntry(p, x, y) : MergeEntry(p, x, y)[n].key = guid
    BY <1>1, <1>2, <1>3, <1>4, <1>7, <2>1
  <2>. QED  BY <2>2 DEF p, x, y
<1>. QED  BY <1>5, <1>6, <1>7

(* A wanted entry is among the merged.                                     *)
LEMMA EntriesMerged ==
  ASSUME Alphabet, Recursion, NEW b \in Seq(Trees), NEW o \in Seq(Trees), NEW t \in Seq(Trees),
         NEW guid, Wanted(b, o, t, guid)
  PROVE  \E n \in DOMAIN MergedEntries(b, o, t) : MergedEntries(b, o, t)[n].key = guid
<1>. DEFINE all == o \o t
            keys == KeysOf(all)
            ss == [n \in DOMAIN keys |->
                     MergeEntry(EntryOf(b, keys[n][2]), EntryOf(o, keys[n][2]), EntryOf(t, keys[n][2]))]
<1>1. MergedEntries(b, o, t) = Flat(ss)
  BY DEF MergedEntries
<1>2. all \in Seq(Trees) /\ Holds(all, o) /\ Holds(all, t)
  BY JoinTwo
<1>. HIDE DEF all
<1>3. /\ DOMAIN keys = 1..Len(keys) /\ Len(keys) \in Nat
      /\ \A i \in DOMAIN all : \E n \in DOMAIN keys : keys[n] = Key(all[i])
  BY <1>2, KeysOfIs
<1>. HIDE DEF keys
<1>4. \E i \in DOMAIN all : all[i].key = guid
  <2>1. (\E i \in DOMAIN o : o[i].key = guid) \/ (\E i \in DOMAIN t : t[i].key = guid)
    BY EntryFound DEF Wanted
  <2>. QED  BY <1>2, <2>1 DEF Holds
<1>5. PICK n \in DOMAIN keys : keys[n][2] = guid
  <2>1. PICK i \in DOMAIN all : all[i].key = guid
    BY <1>4
  <2>2. PICK n \in DOMAIN keys : keys[n] = <<all[i].tag, all[i].key>>
    BY <1>3 DEF Key
  <2>. QED  BY <2>1, <2>2
<1>6. /\ DOMAIN ss = 1..Len(keys) /\ ss = [m \in 1..Len(keys) |-> ss[m]]
      /\ \A m \in DOMAIN keys :
           ss[m] = MergeEntry(EntryOf(b, keys[m][2]), EntryOf(o, keys[m][2]), EntryOf(t, keys[m][2]))
  BY <1>3
<1>. HIDE DEF ss
<1>7. \A m \in 1..Len(keys) : ss[m] \in Seq(Trees)
  <2>1. ASSUME NEW g PROVE /\ EntryOf(b, g) \in Trees /\ EntryOf(o, g) \in Trees /\ EntryOf(t, g) \in Trees
    BY EntryOfIs
  <2>. QED  BY <1>3, <1>6, <2>1, MergeEntryIs
<1>8. ss \in Seq(Seq(Trees))
  BY <1>3, <1>6, <1>7, FlatType
<1>9. PICK m \in DOMAIN ss[n] : ss[n][m].key = guid
  <2>. DEFINE elems == MergeEntry(EntryOf(b, guid), EntryOf(o, guid), EntryOf(t, guid))
  <2>1. ss[n] = elems
    BY <1>5, <1>6
  <2>2. \E m \in DOMAIN elems : elems[m].key = guid
    BY EntryMerged
  <2>. HIDE DEF elems
  <2>. QED  BY <2>1, <2>2
<1>10. n \in DOMAIN ss
  BY <1>3, <1>6
<1>11. \E l \in DOMAIN Flat(ss) : Flat(ss)[l] = ss[n][m]
  BY <1>8, <1>9, <1>10, FlatHas
<1>. QED  BY <1>1, <1>9, <1>11

(* An entry that both sides have, or that one side has added or changed,   *)
(* is in what three_way_merge writes, under its guid: unless a guard holds *)
(* (_looks_truncated, _looks_catastrophic_output), and one side is written *)
(* as it was.                                                              *)
THEOREM EntriesStay ==
  ASSUME Alphabet, Recursion, NEW b \in Seq(Trees), NEW o \in Seq(Trees), NEW t \in Seq(Trees),
         ~ LooksTruncated(Len(b), Len(o), Len(t)),
         ~ LooksCatastrophic(Len(b), Len(o), Len(t), Len(MergedEntries(b, o, t))),
         NEW guid, Wanted(b, o, t, guid)
  PROVE  \E e \in Range(ThreeWayMerge(b, o, t)) : e.key = guid
<1>. DEFINE merged == MergedEntries(b, o, t)
            done == [n \in DOMAIN merged |-> Reconcile(Normalize(merged[n]))]
<1>1. merged \in Seq(Trees)
  BY MergedEntriesIs
<1>2. PICK n \in DOMAIN merged : merged[n].key = guid
  BY EntriesMerged
<1>3. ThreeWayMerge(b, o, t) = done
  BY DEF ThreeWayMerge, Guarded
<1>. HIDE DEF merged
<1>4. merged[n] \in Trees
  BY <1>1
<1>5. Normalize(merged[n]) \in Trees /\ Normalize(merged[n]).key = guid
  BY <1>2, <1>4, NormalizeIs, GoodIs DEF Normal
<1>6. Reconcile(Normalize(merged[n])).key = guid
  <2>1. Normalize(merged[n]) \in [tag : Names, key : Names, val : SUBSET Pairs, kids : Seq(Trees)]
    BY <1>5, TreesAre, GrownIs
  <2>. QED  BY <1>5, <2>1 DEF Reconcile
<1>7. n \in DOMAIN done /\ done[n].key = guid
  BY <1>6
<1>. HIDE DEF done
<1>. QED  BY <1>3, <1>7 DEF Range

(* What is made of an entry that both sides have, has its guid, or that of *)
(* the copy.                                                               *)
LEMMA InBothKeys ==
  ASSUME Alphabet, Recursion, NEW b \in Trees, NEW o \in Trees, NEW t \in Trees,
         o # None, t # None, o.key = t.key
  PROVE  \A n \in DOMAIN EntryInBoth(b, o, t) : EntryInBoth(b, o, t)[n].key \in {o.key, Theirs(o.key)}
<1>. DEFINE elems == MergePair(b, o, t, TRUE).elems
            renamed == Renamed(elems)
            normal == NormalizeAll(renamed)
            shown(differ) == ShowConflict(differ, normal)
            Right(e) == e \in Trees /\ e.key \in {o.key, Theirs(o.key)}
<1>1. elems \in Seq(Trees) /\ \A n \in DOMAIN elems : elems[n].key = o.key
  BY BothMerged
<1>. HIDE DEF elems
<1>2. \A n \in DOMAIN renamed : Right(renamed[n])
  <2>1. ASSUME NEW e \in Trees, e.key = o.key PROVE Right([e EXCEPT !.key = Theirs(e.key)])
    BY <2>1, RenamedIs
  <2>2. ASSUME NEW n \in DOMAIN elems PROVE elems[n] \in Trees /\ elems[n].key = o.key
    BY <1>1
  <2>. QED  BY <2>1, <2>2 DEF Renamed
<1>. HIDE DEF renamed
<1>3. \A n \in DOMAIN normal : Right(normal[n])
  <2>1. ASSUME NEW e, Right(e) PROVE Right(Normalize(e))
    BY <2>1, NormalizeIs, GoodIs DEF Normal
  <2>. QED  BY <1>2, <2>1 DEF NormalizeAll
<1>. HIDE DEF normal
<1>4. ASSUME NEW differ PROVE \A n \in DOMAIN shown(differ) : Right(shown(differ)[n])
  <2>1. ASSUME NEW e, Right(e) PROVE Right(Annotated(e, "conflict"))
    BY <2>1, AnnotatedIs
  <2>2. \/ shown(differ) = normal
        \/ shown(differ) = [normal EXCEPT ![1] = Annotated(normal[1], "conflict")]
    BY DEF ShowConflict
  <2>. QED  BY <1>3, <2>1, <2>2
<1>5. EntryInBoth(b, o, t) = shown(Clean(o) # Clean(t))
  BY DEF EntryInBoth, normal, renamed, elems
<1>. HIDE DEF shown
<1>. QED  BY <1>4, <1>5

(* What is merged of any entry has its guid, or that of the copy.          *)
LEMMA EntryKeys ==
  ASSUME Alphabet, Recursion, NEW b \in Seq(Trees), NEW o \in Seq(Trees), NEW t \in Seq(Trees),
         NEW guid, (\E i \in DOMAIN o : o[i].key = guid) \/ (\E i \in DOMAIN t : t[i].key = guid)
  PROVE  LET elems == MergeEntry(EntryOf(b, guid), EntryOf(o, guid), EntryOf(t, guid))
         IN  \A n \in DOMAIN elems : elems[n].key \in {guid, Theirs(guid)}
<1>. DEFINE p == EntryOf(b, guid)
            x == EntryOf(o, guid)
            y == EntryOf(t, guid)
<1>1. p \in Trees /\ x \in Trees /\ y \in Trees
  BY EntryOfIs
<1>2. ASSUME NEW f \in Seq(Trees), \E i \in DOMAIN f : f[i].key = guid PROVE EntryOf(f, guid).key = guid
  <2>1. \E e \in Range(f) : e.key = guid
    BY <1>2 DEF Range
  <2>. QED  BY <2>1 DEF EntryOf
<1>3. (x # None => x.key = guid) /\ (y # None => y.key = guid)
  BY EntryFound
<1>4. x = None /\ y = None => None.key = guid
  BY <1>2
<1>. HIDE DEF p, x, y
<1>5. ASSUME NEW e \in Trees, e.key = guid, NEW side \in {"ours", "theirs"}
      PROVE  \A n \in DOMAIN EntryOneSided(p, e, side) : EntryOneSided(p, e, side)[n].key = guid
  <2>1. Annotated(e, side).key = guid
    BY <1>5, AnnotatedIs
  <2>2. EntryOneSided(p, e, side) \in {<<e>>, <<>>, <<Annotated(e, side)>>}
    BY DEF EntryOneSided
  <2>. QED  BY <1>5, <2>1, <2>2
<1>6. CASE x # None /\ y # None
  <2>1. MergeEntry(p, x, y) = EntryInBoth(p, x, y)
    BY <1>6 DEF MergeEntry
  <2>2. \A n \in DOMAIN EntryInBoth(p, x, y) : EntryInBoth(p, x, y)[n].key \in {x.key, Theirs(x.key)}
    BY <1>1, <1>3, <1>6, InBothKeys
  <2>. QED  BY <1>3, <1>6, <2>1, <2>2 DEF p, x, y
<1>7. CASE y = None
  <2>1. PICK side \in {"ours", "theirs"} : MergeEntry(p, x, y) = EntryOneSided(p, x, side)
    BY <1>7 DEF MergeEntry
  <2>2. x.key = guid
    BY <1>3, <1>4, <1>7
  <2>3. \A n \in DOMAIN MergeEntry(p, x, y) : MergeEntry(p, x, y)[n].key = guid
    BY <1>1, <1>5, <2>1, <2>2
  <2>. QED  BY <2>3 DEF p, x, y
<1>8. CASE x = None /\ y # None
  <2>1. MergeEntry(p, x, y) = EntryOneSided(p, y, "theirs")
    BY <1>8 DEF MergeEntry
  <2>2. \A n \in DOMAIN MergeEntry(p, x, y) : MergeEntry(p, x, y)[n].key = guid
    BY <1>1, <1>3, <1>5, <1>8, <2>1
  <2>. QED  BY <2>2 DEF p, x, y
<1>. QED  BY <1>6, <1>7, <1>8

(* One side has deleted the entry, and the other has left it as it was.    *)
Deleted(b, o, t, guid) ==
    /\ EntryOf(b, guid) # None
    /\ {EntryOf(o, guid), EntryOf(t, guid)} = {None, EntryOf(b, guid)}

(* Nothing is made of an entry that is deleted.                            *)
LEMMA EntryGone ==
  ASSUME NEW b, NEW o, NEW t, NEW guid, Deleted(b, o, t, guid)
  PROVE  MergeEntry(EntryOf(b, guid), EntryOf(o, guid), EntryOf(t, guid)) = <<>>
  BY DEF Deleted, MergeEntry, EntryOneSided

(* None of the merged has its guid.                                        *)
LEMMA EntriesGone ==
  ASSUME Alphabet, Recursion, NEW b \in Seq(Trees), NEW o \in Seq(Trees), NEW t \in Seq(Trees),
         NEW guid, Deleted(b, o, t, guid), \A k \in Names : Theirs(k) # guid
  PROVE  \A n \in DOMAIN MergedEntries(b, o, t) : MergedEntries(b, o, t)[n].key # guid
<1>. DEFINE all == o \o t
            keys == KeysOf(all)
            ss == [n \in DOMAIN keys |->
                     MergeEntry(EntryOf(b, keys[n][2]), EntryOf(o, keys[n][2]), EntryOf(t, keys[n][2]))]
<1>1. MergedEntries(b, o, t) = Flat(ss)
  BY DEF MergedEntries
<1>2. /\ all \in Seq(Trees)
      /\ \A i \in DOMAIN all : (\E j \in DOMAIN o : all[i] = o[j]) \/ (\E j \in DOMAIN t : all[i] = t[j])
  OBVIOUS
<1>. HIDE DEF all
<1>3. /\ DOMAIN keys = 1..Len(keys) /\ Len(keys) \in Nat
      /\ \A n \in DOMAIN keys : \E i \in DOMAIN all : keys[n] = Key(all[i])
  BY <1>2, KeysOfIs
<1>. HIDE DEF keys
<1>4. ASSUME NEW n \in DOMAIN keys
      PROVE  /\ keys[n][2] \in Names
             /\ (\E i \in DOMAIN o : o[i].key = keys[n][2]) \/ (\E i \in DOMAIN t : t[i].key = keys[n][2])
  <2>1. PICK i \in DOMAIN all : keys[n] = <<all[i].tag, all[i].key>>
    BY <1>3 DEF Key
  <2>2. all[i] \in Trees
    BY <1>2
  <2>3. all[i].key \in Names
    BY <2>2, TreeFields
  <2>. QED  BY <1>2, <2>1, <2>3
<1>5. /\ DOMAIN ss = 1..Len(keys) /\ ss = [m \in 1..Len(keys) |-> ss[m]]
      /\ \A m \in DOMAIN keys :
           ss[m] = MergeEntry(EntryOf(b, keys[m][2]), EntryOf(o, keys[m][2]), EntryOf(t, keys[m][2]))
  BY <1>3
<1>. HIDE DEF ss
<1>6. \A m \in 1..Len(keys) : ss[m] \in Seq(Trees)
  <2>1. ASSUME NEW g PROVE /\ EntryOf(b, g) \in Trees /\ EntryOf(o, g) \in Trees /\ EntryOf(t, g) \in Trees
    BY EntryOfIs
  <2>. QED  BY <1>3, <1>5, <2>1, MergeEntryIs
<1>7. ss \in Seq(Seq(Trees))
  BY <1>3, <1>5, <1>6, FlatType
<1>8. ASSUME NEW m \in DOMAIN ss, NEW l \in DOMAIN ss[m] PROVE ss[m][l].key # guid
  <2>1. m \in DOMAIN keys
    BY <1>3, <1>5
  <2>2. CASE keys[m][2] = guid
    <3>1. ss[m] = MergeEntry(EntryOf(b, guid), EntryOf(o, guid), EntryOf(t, guid))
      BY <1>5, <2>1, <2>2
    <3>2. ss[m] = <<>>
      BY <3>1, EntryGone
    <3>. QED  BY <1>8, <3>2
  <2>3. CASE keys[m][2] # guid
    <3>. DEFINE g == keys[m][2]
                elems == MergeEntry(EntryOf(b, g), EntryOf(o, g), EntryOf(t, g))
    <3>1. ss[m] = elems
      BY <1>5, <2>1
    <3>2. \A n \in DOMAIN elems : elems[n].key \in {g, Theirs(g)}
      BY <1>4, <2>1, EntryKeys
    <3>3. g \in Names /\ g # guid
      BY <1>4, <2>1, <2>3
    <3>. HIDE DEF elems, g
    <3>. QED  BY <1>8, <3>1, <3>2, <3>3
  <2>. QED  BY <2>2, <2>3
<1>9. ASSUME NEW n \in DOMAIN Flat(ss) PROVE Flat(ss)[n].key # guid
  <2>1. PICK q \in Places(ss) : Flat(ss)[n] = ss[q[1]][q[2]]
    BY <1>7, FlatIs
  <2>2. q[1] \in DOMAIN ss /\ q[2] \in DOMAIN ss[q[1]]
    BY <2>1 DEF Places
  <2>. QED  BY <1>8, <2>1, <2>2
<1>. QED  BY <1>1, <1>9

(* An entry that one side has deleted and the other has left as it was is  *)
(* not in what three_way_merge writes: unless a guard holds, or its guid   *)
(* is one that a copy may be given.                                        *)
THEOREM DeletedEntriesGo ==
  ASSUME Alphabet, Recursion, NEW b \in Seq(Trees), NEW o \in Seq(Trees), NEW t \in Seq(Trees),
         ~ LooksTruncated(Len(b), Len(o), Len(t)),
         ~ LooksCatastrophic(Len(b), Len(o), Len(t), Len(MergedEntries(b, o, t))),
         NEW guid, Deleted(b, o, t, guid), \A k \in Names : Theirs(k) # guid
  PROVE  \A e \in Range(ThreeWayMerge(b, o, t)) : e.key # guid
<1>. DEFINE merged == MergedEntries(b, o, t)
            done == [n \in DOMAIN merged |-> Reconcile(Normalize(merged[n]))]
<1>1. merged \in Seq(Trees)
  BY MergedEntriesIs
<1>2. \A n \in DOMAIN merged : merged[n].key # guid
  BY EntriesGone
<1>3. ThreeWayMerge(b, o, t) = done
  BY DEF ThreeWayMerge, Guarded
<1>. HIDE DEF merged
<1>4. ASSUME NEW n \in DOMAIN merged PROVE Reconcile(Normalize(merged[n])).key = merged[n].key
  <2>1. merged[n] \in Trees
    BY <1>1
  <2>2. Normalize(merged[n]) \in Trees /\ Normalize(merged[n]).key = merged[n].key
    BY <2>1, NormalizeIs, GoodIs DEF Normal
  <2>3. Normalize(merged[n]) \in [tag : Names, key : Names, val : SUBSET Pairs, kids : Seq(Trees)]
    BY <2>2, TreesAre, GrownIs
  <2>. QED  BY <2>2, <2>3 DEF Reconcile
<1>. QED  BY <1>2, <1>3, <1>4 DEF Range

-----------------------------------------------------------------------------
(* The content of an element is what it is without annotations.            *)
LEMMA ContentIsClean ==
  ASSUME Alphabet, Recursion, NEW s \in Seq(Trees), NEW i \in DOMAIN s
  PROVE  Contents(s)[i][1] = Clean(s[i])
<1>. DEFINE plain == [j \in DOMAIN s |-> Clean(s[j])]
            clean == Eager(plain)
            f == [j \in DOMAIN s |-> <<clean[j], Cardinality({l \in 1..j : clean[l] = clean[j]})>>]
<1>1. DOMAIN s = 1..Len(s) /\ Len(s) \in Nat
  OBVIOUS
<1>2. Contents(s) = Eager(f)
  BY DEF Contents
<1>3. clean = plain
  <2>1. plain = [j \in 1..Len(s) |-> plain[j]]
    BY <1>1
  <2>. HIDE DEF plain
  <2>. QED  BY <1>1, <2>1, EagerFun
<1>4. plain[i] = Clean(s[i])
  OBVIOUS
<1>. HIDE DEF clean, plain
<1>5. f = [j \in 1..Len(s) |-> f[j]] /\ f[i][1] = clean[i]
  BY <1>1
<1>. HIDE DEF f
<1>6. Eager(f) = f
  BY <1>1, <1>5, EagerFun
<1>. QED  BY <1>2, <1>3, <1>4, <1>5, <1>6

(* There are none, when all of the contents are among the others.          *)
LEMMA UnlikeNone ==
  ASSUME NEW S, NEW s \in Seq(S), NEW c, NEW R, \A i \in DOMAIN s : c[i] \in R
  PROVE  Len(Unlike(s, c, R)) = 0
<1>. DEFINE P == {n \in DOMAIN s : c[n] \notin R}
<1>1. P = {} /\ P \in SUBSET (DOMAIN s)
  OBVIOUS
<1>2. Unlike(s, c, R) = At(s, P)
  BY DEF Unlike
<1>. HIDE DEF P
<1>3. At(s, P) \in Seq(S) /\ \A n \in DOMAIN At(s, P) : \E i \in P : At(s, P)[n] = s[i]
  BY <1>1, AtIs
<1>4. DOMAIN At(s, P) = {} /\ At(s, P) \in Seq(S)
  BY <1>1, <1>3
<1>5. \A a \in Seq(S) : DOMAIN a = {} => Len(a) = 0
  OBVIOUS
<1>. QED  BY <1>2, <1>4, <1>5

(* A pair of which both sides say the same, or one side has nothing and    *)
(* the other what the base has.                                            *)
Agreed(pair) ==
    \/ pair[2] # None /\ pair[3] # None /\ Clean(pair[2]) = Clean(pair[3])
    \/ /\ pair[1] # None
       /\ \/ pair[2] # None /\ pair[3] = None /\ Clean(pair[1]) = Clean(pair[2])
          \/ pair[2] = None /\ pair[3] # None /\ Clean(pair[1]) = Clean(pair[3])

(* An element of a content that is there has that content.                 *)
LEMMA ContentFound ==
  ASSUME Alphabet, Recursion, NEW s \in Seq(Trees \ {None}), NEW content, content \in Range(Contents(s))
  PROVE  /\ OfContent(s, Contents(s), content) # None
         /\ Clean(OfContent(s, Contents(s), content)) = content[1]
<1>1. s \in Seq(Trees)
  BY SeqMonotonic
<1>2. DOMAIN Contents(s) = DOMAIN s /\ \A i, j \in DOMAIN s : Contents(s)[i] = Contents(s)[j] => i = j
  BY <1>1, ContentsIs
<1>3. PICK i \in DOMAIN s : Contents(s)[i] = content
  BY <1>2 DEF Range
<1>4. OfContent(s, Contents(s), content) = s[i]
  BY <1>2, <1>3, OfContentIs
<1>5. Contents(s)[i][1] = Clean(s[i])
  BY <1>1, ContentIsClean
<1>6. s[i] # None
  OBVIOUS
<1>. QED  BY <1>3, <1>4, <1>5, <1>6

(* There is none of a content that is not.                                 *)
LEMMA ContentMissing ==
  ASSUME NEW s, NEW c, NEW content, content \notin Range(c)
  PROVE  OfContent(s, c, content) = None
BY DEF OfContent

(* _pair_same_key pairs nothing else, when neither side has anything that  *)
(* the base has not: it takes equal contents out first, and no leftovers   *)
(* are paired by position.                                                 *)
LEMMA AgreedPairs ==
  ASSUME Alphabet, Recursion,
         NEW bs \in Seq(Trees \ {None}), NEW os \in Seq(Trees \ {None}), NEW ts \in Seq(Trees \ {None}),
         Range(Contents(os)) \subseteq Range(Contents(bs)),
         Range(Contents(ts)) \subseteq Range(Contents(bs))
  PROVE  \A n \in DOMAIN PairSameKey(bs, os, ts) : Agreed(PairSameKey(bs, os, ts)[n])
<1>. DEFINE b == Contents(bs)
            o == Contents(os)
            t == Contents(ts)
            triple(content) == <<OfContent(bs, b, content), OfContent(os, o, content), OfContent(ts, t, content)>>
            Triples(found) ==
              [n \in DOMAIN found |->
                <<OfContent(bs, b, found[n]), OfContent(os, o, found[n]), OfContent(ts, t, found[n])>>]
            bLeft == Unlike(bs, b, Range(o) \cup Range(t))
            oLeft == Unlike(os, o, Range(b) \cup Range(t))
            tLeft == Unlike(ts, t, Range(b) \cup Range(o))
            rest == [i \in 1..Most(Len(oLeft), Len(tLeft)) |->
                       <<OrNone(bLeft, i), OrNone(oLeft, i), OrNone(tLeft, i)>>]
            p1 == Triples(Among(o, Range(t)))
            p2 == Triples(Among(o, Range(b) \ Range(t)))
            p3 == Triples(Among(t, Range(b) \ Range(o)))
            pairs == p1 \o p2 \o p3 \o rest
            G == {pair \in {triple(content) : content \in Range(o) \cup Range(t)} : Agreed(pair)}
<1>1. PairSameKey(bs, os, ts) = pairs
  BY DEF PairSameKey
<1>2. bs \in Seq(Trees) /\ os \in Seq(Trees) /\ ts \in Seq(Trees)
  BY SeqMonotonic
<1>3. /\ b \in Seq(Range(b)) /\ DOMAIN b = DOMAIN bs
      /\ o \in Seq(Range(o)) /\ DOMAIN o = DOMAIN os
      /\ t \in Seq(Range(t)) /\ DOMAIN t = DOMAIN ts
  BY <1>2, ContentsIs
<1>4. /\ \A content \in Range(b) : triple(content)[1] # None /\ Clean(triple(content)[1]) = content[1]
      /\ \A content \in Range(o) : triple(content)[2] # None /\ Clean(triple(content)[2]) = content[1]
      /\ \A content \in Range(t) : triple(content)[3] # None /\ Clean(triple(content)[3]) = content[1]
  <2>1. ASSUME NEW s \in Seq(Trees \ {None}), NEW content \in Range(Contents(s))
        PROVE  /\ OfContent(s, Contents(s), content) # None
               /\ Clean(OfContent(s, Contents(s), content)) = content[1]
    BY ContentFound
  <2>. QED  BY <2>1
<1>5. /\ \A content : content \notin Range(o) => triple(content)[2] = None
      /\ \A content : content \notin Range(t) => triple(content)[3] = None
  BY ContentMissing
<1>6. Range(o) \subseteq Range(b) /\ Range(t) \subseteq Range(b)
  OBVIOUS
<1>. HIDE DEF b, o, t, triple
<1>7. \A content \in Range(o) \cup Range(t) : triple(content) \in G
  BY <1>4, <1>5, <1>6 DEF Agreed
<1>. HIDE DEF G
<1>8. ASSUME NEW found \in Seq(Range(o) \cup Range(t)) PROVE Triples(found) \in Seq(G)
  <2>1. \A n \in DOMAIN found : Triples(found)[n] = triple(found[n])
    BY DEF triple
  <2>2. /\ DOMAIN Triples(found) = 1..Len(found) /\ Len(found) \in Nat
        /\ Triples(found) = [n \in 1..Len(found) |-> Triples(found)[n]]
    OBVIOUS
  <2>. HIDE DEF Triples
  <2>3. ASSUME NEW n \in 1..Len(found) PROVE Triples(found)[n] \in G
    <3>1. n \in DOMAIN found /\ found[n] \in Range(o) \cup Range(t)
      OBVIOUS
    <3>2. triple(found[n]) \in G
      BY <1>7, <3>1
    <3>. QED  BY <2>1, <3>1, <3>2
  <2>. QED  BY <2>2, <2>3
<1>. HIDE DEF Triples
<1>9. ASSUME NEW R PROVE /\ Among(o, R) \in Seq(Range(o) \cup Range(t))
                          /\ Among(t, R) \in Seq(Range(o) \cup Range(t))
  BY <1>3, AmongIs, SeqMonotonic
<1>10. p1 \in Seq(G) /\ p2 \in Seq(G) /\ p3 \in Seq(G)
  BY <1>8, <1>9
<1>11. Len(oLeft) = 0 /\ Len(tLeft) = 0
  <2>1. \A i \in DOMAIN os : o[i] \in Range(b) \cup Range(t)
    BY <1>3, <1>6 DEF Range
  <2>2. \A i \in DOMAIN ts : t[i] \in Range(b) \cup Range(o)
    BY <1>3, <1>6 DEF Range
  <2>. QED  BY <2>1, <2>2, UnlikeNone
<1>12. rest \in Seq(G)
  <2>1. Most(Len(oLeft), Len(tLeft)) = 0
    BY <1>11 DEF Most
  <2>. HIDE DEF oLeft, tLeft
  <2>2. rest = <<>>
    BY <2>1
  <2>. QED  BY <2>2, EmptySeq
<1>. HIDE DEF p1, p2, p3, rest
<1>13. pairs \in Seq(G)
  BY <1>10, <1>12, JoinIs
<1>. HIDE DEF pairs
<1>14. \A n \in DOMAIN pairs : pairs[n] \in G
  BY <1>13
<1>. QED  BY <1>1, <1>14 DEF G

(* Every pair of children is a pair of one key.                            *)
LEMMA PairsOfKey ==
  ASSUME Alphabet, Recursion, NEW b \in Trees, NEW o \in Trees, NEW t \in Trees,
         NEW n \in DOMAIN ChildPairs(b, o, t)
  PROVE  \E key \in Names \X Names : \E m \in DOMAIN GroupOf(b, o, t, key) :
            ChildPairs(b, o, t)[n] = GroupOf(b, o, t, key)[m]
<1>. DEFINE all == o.kids \o t.kids
            keys == KeysOf(all)
            ss == [m \in DOMAIN keys |->
                     PairSameKey(OfKey(b.kids, keys[m]), OfKey(o.kids, keys[m]), OfKey(t.kids, keys[m]))]
            T == UNION {OfKids(b, o, t, key) : key \in Names \X Names}
<1>1. all \in Seq(Trees)
  <2>1. o.kids \in Seq(Trees) /\ t.kids \in Seq(Trees)
    BY TreeFields
  <2>. QED  BY <2>1
<1>2. ChildPairs(b, o, t) = Flat(ss)
  BY DEF ChildPairs
<1>. HIDE DEF all
<1>3. /\ DOMAIN keys = 1..Len(keys) /\ Len(keys) \in Nat
      /\ \A m \in DOMAIN keys : \E i \in DOMAIN all : keys[m] = Key(all[i])
  BY <1>1, KeysOfIs
<1>. HIDE DEF keys
<1>4. ASSUME NEW m \in DOMAIN keys PROVE keys[m] \in Names \X Names
  <2>1. PICK i \in DOMAIN all : keys[m] = Key(all[i])
    BY <1>3
  <2>2. all[i] \in Trees
    BY <1>1
  <2>. QED  BY <2>1, <2>2, TreeFields DEF Key
<1>5. /\ DOMAIN ss = 1..Len(keys) /\ ss = [m \in 1..Len(keys) |-> ss[m]]
      /\ \A m \in 1..Len(keys) : ss[m] = GroupOf(b, o, t, keys[m])
  BY <1>3 DEF GroupOf
<1>. HIDE DEF ss
<1>6. ASSUME NEW m \in 1..Len(keys) PROVE ss[m] \in Seq(T)
  <2>1. keys[m] \in Names \X Names
    BY <1>3, <1>4
  <2>2. ss[m] \in Seq(OfKids(b, o, t, keys[m]))
    BY <1>5, <2>1, GroupIs
  <2>3. OfKids(b, o, t, keys[m]) \in SUBSET T
    BY <2>1
  <2>. HIDE DEF T
  <2>. QED  BY <2>2, <2>3, SeqMonotonic
<1>7. ss \in Seq(Seq(T))
  <2>. HIDE DEF T
  <2>. QED  BY <1>3, <1>5, <1>6, FlatType
<1>. HIDE DEF T
<1>8. n \in DOMAIN Flat(ss)
  BY <1>2
<1>9. PICK q \in Places(ss) : Flat(ss)[n] = ss[q[1]][q[2]]
  BY <1>7, <1>8, FlatIs
<1>10. q[1] \in DOMAIN ss /\ q[2] \in DOMAIN ss[q[1]]
  BY <1>9 DEF Places
<1>11. keys[q[1]] \in Names \X Names /\ ss[q[1]] = GroupOf(b, o, t, keys[q[1]])
  BY <1>3, <1>4, <1>5, <1>10
<1>. QED  BY <1>2, <1>9, <1>10, <1>11

(* Where the children are merged, every element of the merge is made of a  *)
(* pair.                                                                   *)
LEMMA PairsOnly ==
  ASSUME Alphabet, Recursion, NEW b \in Trees, NEW o \in Trees, NEW t \in Trees,
         ~ WalkChildren(b, o, t).up, NEW e \in Range(WalkChildren(b, o, t).elems)
  PROVE  \E n \in DOMAIN ChildPairs(b, o, t) : \E multi \in BOOLEAN :
            LET pair == ChildPairs(b, o, t)[n] IN
            e \in Range(MergedPair(pair[1], pair[2], pair[3], multi).elems)
<1>. DEFINE pairs == ChildPairs(b, o, t)
            rs == MergedPairs(o, pairs)
            T == Trees \X Trees \X Trees
            ss == [m \in DOMAIN rs |-> rs[m].elems]
<1>1. pairs \in Seq(T)
  <2>1. pairs \in Seq(UNION {OfKids(b, o, t, key) : key \in Names \X Names})
    BY ChildPairsIs
  <2>2. \A key : OfKids(b, o, t, key) \in SUBSET T
    BY KidsOfIs DEF OfKids, TriplesOf
  <2>3. UNION {OfKids(b, o, t, key) : key \in Names \X Names} \in SUBSET T
    BY <2>2
  <2>. HIDE DEF pairs, T
  <2>. QED  BY <2>1, <2>3, SeqMonotonic
<1>2. WalkChildren(b, o, t) = Joined(rs)
  BY DEF WalkChildren
<1>3. /\ DOMAIN pairs = 1..Len(pairs) /\ Len(pairs) \in Nat
      /\ \A m \in DOMAIN pairs : pairs[m] \in T
  <2>. HIDE DEF pairs, T
  <2>. QED  BY <1>1
<1>4. /\ DOMAIN rs = DOMAIN pairs
      /\ rs = [m \in DOMAIN pairs |-> rs[m]]
      /\ \A m \in DOMAIN pairs :
            rs[m] = MergePair(pairs[m][1], pairs[m][2], pairs[m][3], Multi(o.tag, PairTag(pairs[m])))
  BY DEF MergedPairs
<1>5. \A m \in DOMAIN pairs : Multi(o.tag, PairTag(pairs[m])) \in BOOLEAN
  BY DEF Multi
<1>. HIDE DEF pairs, rs
<1>6. ASSUME NEW m \in DOMAIN pairs
      PROVE  /\ rs[m] \in Results
             /\ rs[m] = MergedPair(pairs[m][1], pairs[m][2], pairs[m][3], Multi(o.tag, PairTag(pairs[m])))
  <2>1. pairs[m][1] \in Trees /\ pairs[m][2] \in Trees /\ pairs[m][3] \in Trees
    BY <1>3
  <2>. QED  BY <1>4, <1>5, <2>1, MergePairIs DEF Recursion
<1>7. Joined(rs).elems = Flat(ss)
  <2>1. /\ Joined(rs) = IF \E m \in DOMAIN rs : rs[m].up THEN Escalate ELSE Result(Flat(ss))
        /\ Escalate.up
    BY DEF Joined, Escalate
  <2>. HIDE DEF ss
  <2>. QED  BY <1>2, <2>1 DEF Result
<1>8. /\ DOMAIN ss = 1..Len(pairs) /\ ss = [m \in 1..Len(pairs) |-> ss[m]]
      /\ \A m \in 1..Len(pairs) : ss[m] \in Seq(Trees) /\ ss[m] = rs[m].elems
  BY <1>3, <1>4, <1>6 DEF Results
<1>. HIDE DEF ss
<1>9. ss \in Seq(Seq(Trees))
  BY <1>3, <1>8, FlatType
<1>10. PICK l \in DOMAIN Flat(ss) : Flat(ss)[l] = e
  BY <1>2, <1>7 DEF Range
<1>11. PICK q \in Places(ss) : Flat(ss)[l] = ss[q[1]][q[2]]
  BY <1>9, FlatIs
<1>12. q[1] \in DOMAIN ss /\ q[2] \in DOMAIN ss[q[1]]
  BY <1>11 DEF Places
<1>13. q[1] \in DOMAIN pairs /\ ss[q[1]] = rs[q[1]].elems
  BY <1>3, <1>8, <1>12
<1>14. e \in Range(rs[q[1]].elems)
  BY <1>10, <1>11, <1>12, <1>13 DEF Range
<1>. QED  BY <1>5, <1>6, <1>13, <1>14 DEF pairs

(* Of a key the element has no child that the base has not; it may have    *)
(* fewer.                                                                  *)
OnlyTaken(b, e, key) == Range(Contents(OfKey(e.kids, key))) \subseteq Range(Contents(OfKey(b.kids, key)))

(* Of a pair that agrees _merge_pair makes what both sides say, or         *)
(* nothing.                                                                *)
LEMMA AgreedMerge ==
  ASSUME NEW p, NEW c, NEW k, NEW multi, Agreed(<<p, c, k>>), NEW e \in Range(MergedPair(p, c, k, multi).elems)
  PROVE  c # None /\ k # None /\ Clean(c) = Clean(k) /\ e = Clean(c)
<1>. DEFINE r == MergedPair(p, c, k, multi)
<1>1. \A elems : Result(elems).elems = elems
  BY DEF Result
<1>2. CASE c # None /\ k # None /\ Clean(c) = Clean(k)
  <2>1. r = Result(<<Clean(c)>>)
    BY <1>2 DEF MergedPair
  <2>2. r.elems = <<Clean(c)>>
    BY <1>1, <2>1
  <2>3. \A x : x \in Range(<<Clean(c)>>) => x = Clean(c)
    BY DEF Range
  <2>. QED  BY <1>2, <2>2, <2>3
<1>3. CASE ~ (c # None /\ k # None /\ Clean(c) = Clean(k))
  <2>1. r = Result(<<>>)
    BY <1>3 DEF Agreed, MergedPair, OneSided
  <2>2. Range(<<>>) = {}
    BY DEF Range
  <2>. QED  BY <1>1, <2>1, <2>2
<1>. QED  BY <1>2, <1>3

(* What it makes of a pair of a key has that key.                          *)
LEMMA PairKey ==
  ASSUME Alphabet, Recursion, NEW p, NEW c \in Trees, NEW k \in Trees, NEW multi, NEW key,
         c = None \/ Key(c) = key, k = None \/ Key(k) = key,
         NEW e \in Range(MergedPair(p, c, k, multi).elems)
  PROVE  Key(e) \in {key, Key(None)}
<1>. DEFINE r == MergedPair(p, c, k, multi)
            apart == IF multi THEN Result(<<Annotated(c, "ours"), Annotated(k, "theirs")>>) ELSE Escalate
            inside == WalkChildren(p, c, k)
            whole == [c EXCEPT !.kids = inside.elems]
            Right(x) == Key(x) \in {key, Key(None)}
<1>1. /\ Escalate.elems = <<>>
      /\ \A elems : Result(elems).elems = elems
  BY DEF Escalate, Result
<1>2. Right(c) /\ Right(k)
  OBVIOUS
<1>3. Right(Clean(c)) /\ Right(Annotated(c, "ours")) /\ Right(Annotated(k, "theirs"))
  BY <1>2, CleanIs, AnnotatedIs DEF Key
<1>4. Right(whole)
  <2>1. whole.tag = c.tag /\ whole.key = c.key
    BY TreesAre, GrownIs
  <2>. HIDE DEF whole
  <2>. QED  BY <1>2, <2>1 DEF Key
<1>5. \/ r = Result(OneSided(p, k)) \/ r = Result(OneSided(p, c))
      \/ r = Result(<<Clean(c)>>) \/ r = Result(<<k>>) \/ r = Result(<<c>>)
      \/ r = apart \/ r = Result(<<whole>>)
  BY DEF MergedPair
<1>6. \A x : OneSided(p, x) = <<>> \/ OneSided(p, x) = <<x>>
  BY DEF OneSided
<1>. HIDE DEF r, whole
<1>7. \/ r.elems = <<>> \/ r.elems = <<k>> \/ r.elems = <<c>>
      \/ r.elems = <<Clean(c)>> \/ r.elems = <<whole>>
      \/ r.elems = <<Annotated(c, "ours"), Annotated(k, "theirs")>>
  BY <1>1, <1>5, <1>6
<1>8. /\ Range(<<>>) = {}
      /\ \A x : Range(<<x>>) = {x}
      /\ \A x, y : Range(<<x, y>>) = {x, y}
  BY DEF Range
<1>9. e \in Range(r.elems)
  BY DEF r
<1>. HIDE DEF Right
<1>10. \/ r.elems = <<>>
       \/ \E x : Right(x) /\ r.elems = <<x>>
       \/ \E x, y : Right(x) /\ Right(y) /\ r.elems = <<x, y>>
  BY <1>2, <1>3, <1>4, <1>7
<1>11. Right(e)
  <2>1. ASSUME NEW x, Right(x), r.elems = <<x>> PROVE Right(e)
    <3>1. Range(r.elems) = {x}
      BY <1>8, <2>1
    <3>. QED  BY <1>9, <2>1, <3>1
  <2>2. ASSUME NEW x, NEW y, Right(x), Right(y), r.elems = <<x, y>> PROVE Right(e)
    <3>1. Range(r.elems) = {x, y}
      BY <1>8, <2>2
    <3>. QED  BY <1>9, <2>2, <3>1
  <2>3. r.elems # <<>>
    BY <1>8, <1>9
  <2>. QED  BY <1>10, <2>1, <2>2, <2>3
<1>. QED  BY <1>11 DEF Right

(* Where neither side has added or changed a child of a key, a child of    *)
(* that key is in the merge only if both sides have it: what one side has  *)
(* deleted and the other has left as it was stays out, whatever the order  *)
(* of the copies and the annotations on them (_pair_same_key,              *)
(* _merge_pair).                                                           *)
THEOREM DeletesTake ==
  ASSUME Alphabet, Recursion, NEW b \in Trees, NEW o \in Trees, NEW t \in Trees,
         ~ WalkChildren(b, o, t).up,
         NEW key, key # Key(None), OnlyTaken(b, o, key), OnlyTaken(b, t, key),
         NEW e \in Range(WalkChildren(b, o, t).elems), Key(e) = key
  PROVE  \E c \in Range(o.kids), k \in Range(t.kids) :
            Key(c) = key /\ Key(k) = key /\ Clean(c) = Clean(k) /\ e = Clean(c)
<1>1. PICK n \in DOMAIN ChildPairs(b, o, t), multi \in BOOLEAN :
         e \in Range(MergedPair(ChildPairs(b, o, t)[n][1], ChildPairs(b, o, t)[n][2], ChildPairs(b, o, t)[n][3], multi).elems)
  BY PairsOnly
<1>2. PICK same \in Names \X Names : \E m \in DOMAIN GroupOf(b, o, t, same) :
         ChildPairs(b, o, t)[n] = GroupOf(b, o, t, same)[m]
  BY PairsOfKey
<1>3. PICK m \in DOMAIN GroupOf(b, o, t, same) : ChildPairs(b, o, t)[n] = GroupOf(b, o, t, same)[m]
  BY <1>2
<1>. DEFINE pair == GroupOf(b, o, t, same)[m]
            p == pair[1]
            c == pair[2]
            k == pair[3]
<1>4. e \in Range(MergedPair(p, c, k, multi).elems)
  BY <1>1, <1>3
<1>5. pair \in OfKids(b, o, t, same)
  <2>1. GroupOf(b, o, t, same) \in Seq(OfKids(b, o, t, same))
    BY GroupIs
  <2>. QED  BY <2>1
<1>6. pair = <<p, c, k>> /\ c \in KidsOf(o, same) /\ k \in KidsOf(t, same)
  <2>. HIDE DEF pair
  <2>. QED  BY <1>5 DEF OfKids, TriplesOf
<1>7. c \in Trees /\ k \in Trees /\ (c = None \/ Key(c) = same) /\ (k = None \/ Key(k) = same)
  <2>. HIDE DEF c, k
  <2>. QED  BY <1>6, KidsOfIs DEF KidsOf
<1>8. same = key
  <2>. HIDE DEF p, c, k
  <2>1. Key(e) \in {same, Key(None)}
    BY <1>4, <1>7, PairKey
  <2>. QED  BY <2>1
<1>9. Agreed(pair)
  <2>1. ASSUME NEW x \in Trees PROVE OfKey(x.kids, key) \in Seq(Trees \ {None})
    <3>1. x.kids \in Seq(Trees)
      BY TreeFields
    <3>2. OfKey(x.kids, key) \in Seq({y \in Trees : Key(y) = key})
      BY <3>1, OfKeyIs
    <3>3. {y \in Trees : Key(y) = key} \in SUBSET (Trees \ {None})
      OBVIOUS
    <3>. QED  BY <3>2, <3>3, SeqMonotonic
  <2>. DEFINE group == PairSameKey(OfKey(b.kids, key), OfKey(o.kids, key), OfKey(t.kids, key))
  <2>2. \A l \in DOMAIN group : Agreed(group[l])
    BY <2>1, AgreedPairs DEF OnlyTaken
  <2>3. group = GroupOf(b, o, t, same)
    BY <1>8 DEF GroupOf
  <2>. HIDE DEF group
  <2>. QED  BY <2>2, <2>3
<1>10. c # None /\ k # None /\ Clean(c) = Clean(k) /\ e = Clean(c)
  <2>1. Agreed(<<p, c, k>>)
    BY <1>6, <1>9
  <2>. HIDE DEF p, c, k
  <2>. QED  BY <1>4, <2>1, AgreedMerge
<1>11. c \in Range(o.kids) /\ Key(c) = key /\ k \in Range(t.kids) /\ Key(k) = key
  <2>. HIDE DEF c, k
  <2>. QED  BY <1>6, <1>8, <1>10 DEF KidsOf
<1>. HIDE DEF c, k
<1>. QED  BY <1>10, <1>11
=============================================================================
