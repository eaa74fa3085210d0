------------------------- MODULE ProjectLock_proof --------------------------
(***************************************************************************)
(* What project_lock guarantees, for any set of threads and processes and  *)
(* any depth of nesting.  TypeOK and MutualExclusion are not inductive:    *)
(* IInv adds, for the thread that owns a process's RLock, how the RLock's  *)
(* count, _depth, the flock and the table of holders stand to each other   *)
(* at every point of acquire() and release().                              *)
(***************************************************************************)
EXTENDS ProjectLock, TLAPS

OwnerPoints == {"flock", "count", "record", "forget", "unflock", "unlock"}

(* The points from which only the owner can go on are the owner's.         *)
OwnersAtWork == \A t \in Threads : pc[t] \in OwnerPoints => owner[ProcOf[t]] = t

(* A process whose RLock is free has nobody counted in.                    *)
FreeIsEmpty ==
    \A p \in Procs : owner[p] = NoThread => entries[p] = 0 /\ depth[p] = 0

OwnersAreHome == \A p \in Procs : owner[p] # NoThread => ProcOf[owner[p]] = p

(* Entries of the RLock that _depth does not count (yet, or any more).     *)
Uncounted(point) == IF point \in {"flock", "count", "forget", "unflock", "unlock"}
                    THEN 1 ELSE 0

CountsAgree == \A t \in Threads : owner[ProcOf[t]] = t =>
    /\ entries[ProcOf[t]] = depth[ProcOf[t]] + Uncounted(pc[t])
    /\ pc[t] \in {"idle", "rlock"} => depth[ProcOf[t]] > 0
    /\ pc[t] = "record" => depth[ProcOf[t]] = 1
    /\ pc[t] \in {"flock", "forget", "unflock"} => depth[ProcOf[t]] = 0

(* The owner's process has the flock from the first count to the last.     *)
HasTheFlock(t) ==
    pc[t] \in {"count", "forget", "unflock"} \/ depth[ProcOf[t]] > 0

FlockFollows == HasFlock => \A p \in Procs :
    flocked = p <=> owner[p] # NoThread /\ HasTheFlock(owner[p])

HeldFollows == \A p \in Procs : held[p] # NoThread =>
    /\ owner[p] = held[p]
    /\ depth[p] > 0 \/ pc[held[p]] = "forget"

NoFlockWithoutFcntl == ~HasFlock => flocked = NoProc

IInv == /\ TypeOK /\ OwnersAtWork /\ FreeIsEmpty /\ OwnersAreHome
        /\ CountsAgree /\ FlockFollows /\ HeldFollows /\ NoFlockWithoutFcntl

LEMMA InitEstablishes == Init => IInv
  BY ThreadAssumption, NobodyAssumption, ConfigAssumption
  DEF Init, IInv, TypeOK, OwnersAtWork, FreeIsEmpty, OwnersAreHome, CountsAgree,
      FlockFollows, HeldFollows, NoFlockWithoutFcntl, Points, OwnerPoints, Uncounted

LEMMA NextPreserves == IInv /\ [Next]_vars => IInv'
  <1> USE ThreadAssumption, NobodyAssumption, ConfigAssumption
  <1>1. SUFFICES ASSUME IInv, [Next]_vars PROVE IInv'
    OBVIOUS
  <1> USE <1>1 DEF IInv, TypeOK, OwnersAtWork, FreeIsEmpty, OwnersAreHome,
            CountsAgree, FlockFollows, HeldFollows, NoFlockWithoutFcntl, HasTheFlock,
            Points, OwnerPoints, Uncounted, Goto
  <1>2. ASSUME NEW t \in Threads, Call(t) PROVE IInv'
    BY <1>2 DEF Call
  <1>3. ASSUME NEW t \in Threads, TakeRLock(t) PROVE IInv'
    BY <1>3 DEF TakeRLock, RLockFree
  <1>4. ASSUME NEW t \in Threads, RLockTimeout(t) PROVE IInv'
    BY <1>4 DEF RLockTimeout, RLockFree
  <1>5. ASSUME NEW t \in Threads, TakeFlock(t) PROVE IInv'
    BY <1>5 DEF TakeFlock, CanFlock
  <1>6. ASSUME NEW t \in Threads, FlockFails(t) PROVE IInv'
    <2> DEFINE p == ProcOf[t]
    <2>1. /\ p \in Procs /\ owner[p] = t /\ entries[p] = 1 /\ depth[p] = 0
          /\ pc[t] = "flock" /\ HasFlock
      BY <1>6 DEF FlockFails
    <2>2. /\ owner' = [owner EXCEPT ![p] = NoThread]
          /\ entries' = [entries EXCEPT ![p] = 0]
          /\ pc' = [pc EXCEPT ![t] = "idle"]
          /\ UNCHANGED <<depth, flocked, held>>
      BY <1>6, <2>1 DEF FlockFails, ReleaseRLock
    <2>3. TypeOK' /\ FreeIsEmpty' /\ OwnersAreHome' /\ NoFlockWithoutFcntl'
      BY <2>1, <2>2
    <2>4. OwnersAtWork' /\ CountsAgree'
      BY <2>1, <2>2
    <2>5. FlockFollows' /\ HeldFollows'
      BY <2>1, <2>2
    <2>6. QED
      BY <2>3, <2>4, <2>5
  <1>7. ASSUME NEW t \in Threads, CountEntry(t) PROVE IInv'
    BY <1>7 DEF CountEntry
  <1>8. ASSUME NEW t \in Threads, RecordHolder(t) PROVE IInv'
    BY <1>8 DEF RecordHolder
  <1>9. ASSUME NEW t \in Threads, CountExit(t) PROVE IInv'
    BY <1>9 DEF CountExit
  <1>10. ASSUME NEW t \in Threads, ForgetHolder(t) PROVE IInv'
    BY <1>10 DEF ForgetHolder, Forgotten
  <1>11. ASSUME NEW t \in Threads, DropFlock(t) PROVE IInv'
    BY <1>11 DEF DropFlock, FlockAfterRelease
  <1>12. ASSUME NEW t \in Threads, DropRLock(t) PROVE IInv'
    BY <1>12 DEF DropRLock, ReleaseRLock
  <1>13. ASSUME NEW p \in Procs, ProcessDies(p) PROVE IInv'
    BY <1>13 DEF ProcessDies
  <1>14. CASE UNCHANGED vars
    BY <1>14 DEF vars
  <1>15. QED
    BY <1>1, <1>2, <1>3, <1>4, <1>5, <1>6, <1>7, <1>8, <1>9, <1>10, <1>11,
       <1>12, <1>13, <1>14 DEF Next, ThreadStep, Acquiring, Releasing

(* The inductive invariant holds in every reachable state.                 *)
THEOREM Invariance == Spec => []IInv
  BY InitEstablishes, NextPreserves, PTL DEF Spec

(* Every variable keeps its type, at every point of acquire() and          *)
(* release(), for any number of threads and processes.                     *)
THEOREM TypeCorrect == Spec => []TypeOK
  <1>1. IInv => TypeOK
    BY DEF IInv
  <1>2. QED
    BY <1>1, Invariance, PTL

(* At most one thread, of all the processes that open the working_dir, is  *)
(* inside project_lock.                                                    *)
THEOREM Exclusion == Spec => []MutualExclusion
  <1>1. IInv => MutualExclusion
    <2> SUFFICES ASSUME IInv, HasFlock, NEW t \in Threads, NEW u \in Threads,
                        Inside(t), Inside(u)
                 PROVE  t = u
      BY DEF MutualExclusion
    <2>1. flocked = ProcOf[t] /\ flocked = ProcOf[u]
      BY ThreadAssumption, NobodyAssumption
      DEF IInv, FlockFollows, HasTheFlock, Inside, OwnersAreHome, TypeOK
    <2>2. QED
      BY <2>1 DEF Inside
  <1>2. QED
    BY <1>1, Invariance, PTL

(* The holder /v1/health names is the thread that owns the lock.           *)
THEOREM TruthfulHolder == Spec => []HolderIsTruthful
  <1>1. IInv => HolderIsTruthful
    BY ThreadAssumption, NobodyAssumption
    DEF IInv, HolderIsTruthful, HeldFollows, FlockFollows, HasTheFlock,
        OwnersAreHome, TypeOK
  <1>2. QED
    BY <1>1, Invariance, PTL

(* No way out of acquire() or release() leaves a flock behind.             *)
THEOREM FlockNotLeaked == Spec => []NoFlockLeak
  <1>1. IInv => NoFlockLeak
    BY NobodyAssumption
    DEF IInv, NoFlockLeak, FlockFollows, NoFlockWithoutFcntl, TypeOK
  <1>2. QED
    BY <1>1, Invariance, PTL

-----------------------------------------------------------------------------
(* The refinement.  HolderNow picks a thread; the mutual exclusion makes   *)
(* the choice unique, which is what lets a step be read as the mutex's.    *)

HolderDefined == HasFlock =>
    /\ \A t \in Threads : Inside(t) =>
          HolderNow = t /\ LevelNow = depth[ProcOf[t]]
    /\ (\A t \in Threads : ~Inside(t)) => HolderNow = NoThread /\ LevelNow = 0

LEMMA HolderIsDefined == IInv => HolderDefined
  <1> SUFFICES ASSUME IInv, HasFlock PROVE HolderDefined
    BY DEF HolderDefined
  <1>1. MutualExclusion
    BY ThreadAssumption, NobodyAssumption
    DEF IInv, FlockFollows, HasTheFlock, Inside, OwnersAreHome, TypeOK,
        MutualExclusion
  <1>2. ASSUME NEW t \in Threads, Inside(t)
        PROVE  HolderNow = t /\ LevelNow = depth[ProcOf[t]]
    <2>1. HolderNow = t
      BY <1>1, <1>2 DEF MutualExclusion, HolderNow
    <2>2. QED
      BY <2>1, NobodyAssumption DEF LevelNow
  <1>3. QED
    BY <1>2 DEF HolderDefined, HolderNow, LevelNow

LEMMA HolderIsDefinedNext == IInv' => HolderDefined'
  BY HolderIsDefined, PTL

(* A step that changes neither who is inside nor any depth is a stutter.   *)
LEMMA Invisible ==
  ASSUME HasFlock, IInv, IInv',
         \A t \in Threads : Inside(t)' = Inside(t), UNCHANGED depth
  PROVE  HolderNow' = HolderNow /\ LevelNow' = LevelNow
  <1>1. HolderDefined /\ HolderDefined'
    BY HolderIsDefined, HolderIsDefinedNext
  <1>2. CASE \E t \in Threads : Inside(t)
    BY <1>1, <1>2 DEF HolderDefined
  <1>3. CASE \A t \in Threads : ~Inside(t)
    BY <1>1, <1>3 DEF HolderDefined
  <1>4. QED
    BY <1>2, <1>3

LEMMA StepSimulates ==
  ASSUME HasFlock, IInv, IInv', [Next]_vars
  PROVE  [Abstract!MutexNext]_<<HolderNow, LevelNow>>
  <1> USE ThreadAssumption, NobodyAssumption
  <1>1. HolderDefined /\ HolderDefined'
    BY HolderIsDefined, HolderIsDefinedNext
  <1>2. SUFFICES ASSUME ~(HolderNow' = HolderNow /\ LevelNow' = LevelNow)
                 PROVE  Abstract!MutexNext
    OBVIOUS
  <1>3. ~(UNCHANGED depth /\ \A t \in Threads : Inside(t)' = Inside(t))
    BY <1>2, Invisible
  <1>4. ASSUME NEW t \in Threads, CountEntry(t) PROVE Abstract!Enter(t)
    <2>1. /\ ProcOf[t] \in Procs /\ owner[ProcOf[t]] = t /\ UNCHANGED owner
          /\ depth[ProcOf[t]] \in Nat
          /\ depth'[ProcOf[t]] = depth[ProcOf[t]] + 1
      BY <1>4 DEF CountEntry, IInv, TypeOK, OwnersAtWork, OwnerPoints
    <2>2. Inside(t)'
      BY <2>1 DEF Inside
    <2>3. HolderNow' = t /\ LevelNow' = depth[ProcOf[t]] + 1
      BY <1>1, <2>1, <2>2 DEF HolderDefined
    <2>4. CASE depth[ProcOf[t]] = 0
      <3>1. \A u \in Threads : Inside(u) => u = t
        BY <1>4, <2>1 DEF CountEntry, Inside, IInv, FlockFollows, HasTheFlock,
           OwnersAreHome, TypeOK
      <3>2. \A u \in Threads : ~Inside(u)
        BY <3>1, <2>4 DEF Inside
      <3>3. QED
        BY <1>1, <2>3, <2>4, <3>2 DEF HolderDefined, Abstract!Enter
    <2>5. CASE depth[ProcOf[t]] > 0
      BY <1>1, <2>1, <2>3, <2>5 DEF HolderDefined, Inside, Abstract!Enter
    <2>6. QED
      BY <2>1, <2>4, <2>5
  <1>5. ASSUME NEW t \in Threads, CountExit(t) PROVE Abstract!Exit(t)
    <2>1. /\ ProcOf[t] \in Procs /\ owner[ProcOf[t]] = t /\ UNCHANGED owner
          /\ depth[ProcOf[t]] \in Nat /\ depth[ProcOf[t]] > 0
          /\ depth' = [depth EXCEPT ![ProcOf[t]] = @ - 1]
      BY <1>5 DEF CountExit, IInv, TypeOK, CountsAgree
    <2>2. HolderNow = t /\ LevelNow = depth[ProcOf[t]]
      BY <1>1, <2>1 DEF HolderDefined, Inside
    <2>3. CASE depth[ProcOf[t]] = 1
      <3>1. \A u \in Threads : Inside(u) => u = t
        BY <1>1, <2>2 DEF HolderDefined
      <3>2. \A u \in Threads : ~Inside(u)'
        BY <2>1, <2>3, <3>1 DEF Inside, IInv, TypeOK
      <3>3. QED
        BY <1>1, <2>2, <2>3, <3>2 DEF HolderDefined, Abstract!Exit
    <2>4. CASE depth[ProcOf[t]] > 1
      <3>1. Inside(t)' /\ depth'[ProcOf[t]] = depth[ProcOf[t]] - 1
        BY <2>1, <2>4 DEF Inside, IInv, TypeOK
      <3>2. QED
        BY <1>1, <2>1, <2>2, <2>4, <3>1 DEF HolderDefined, Abstract!Exit
    <2>5. QED
      BY <2>1, <2>3, <2>4
  <1>6. ASSUME NEW p \in Procs, ProcessDies(p) PROVE Abstract!MutexNext
    <2>1. \A t \in Threads : Inside(t)' <=> Inside(t) /\ ProcOf[t] # p
      BY <1>6 DEF ProcessDies, Inside, IInv, TypeOK
    <2>2. PICK t \in Threads : Inside(t)
      <3>1. SUFFICES ASSUME \A t \in Threads : ~Inside(t) PROVE FALSE
        OBVIOUS
      <3>2. \A t \in Threads : ~Inside(t)'
        BY <2>1, <3>1
      <3>3. QED
        BY <1>1, <1>2, <3>1, <3>2 DEF HolderDefined
    <2>3. HolderNow = t /\ LevelNow = depth[ProcOf[t]]
      BY <1>1, <2>2 DEF HolderDefined
    <2>4. ProcOf[t] = p
      <3>1. SUFFICES ASSUME ProcOf[t] # p PROVE FALSE
        OBVIOUS
      <3>2. Inside(t)' /\ depth'[ProcOf[t]] = depth[ProcOf[t]]
        BY <1>6, <2>1, <2>2, <3>1 DEF ProcessDies, IInv, TypeOK
      <3>3. QED
        BY <1>1, <1>2, <2>3, <3>2 DEF HolderDefined
    <2>5. \A u \in Threads : ~Inside(u)'
      BY <1>1, <2>1, <2>3, <2>4 DEF HolderDefined
    <2>6. QED
      BY <1>1, <2>3, <2>5 DEF HolderDefined, Abstract!MutexNext, Abstract!Die
  <1>7. ASSUME NEW t \in Threads,
               Call(t) \/ TakeRLock(t) \/ RLockTimeout(t) \/ TakeFlock(t)
               \/ FlockFails(t) \/ RecordHolder(t) \/ Releasing(t)
        PROVE  FALSE
    <2>1. UNCHANGED depth
      BY <1>7 DEF Call, TakeRLock, RLockTimeout, TakeFlock, FlockFails,
         RecordHolder, Releasing, ForgetHolder, DropFlock, DropRLock
    <2>2. PICK u \in Threads : Inside(u)' # Inside(u)
      BY <1>3, <2>1
    <2>3. UNCHANGED owner \/ TakeRLock(t) \/ FlockFails(t) \/ DropRLock(t)
      BY <1>7 DEF Call, RLockTimeout, TakeFlock, RecordHolder, Releasing,
         ForgetHolder, DropFlock
    <2>4. CASE UNCHANGED owner
      BY <2>1, <2>2, <2>4 DEF Inside
    <2>5. CASE TakeRLock(t)
      BY <2>1, <2>2, <2>5 DEF TakeRLock, RLockFree, Inside, IInv, TypeOK, FreeIsEmpty
    <2>6. CASE FlockFails(t)
      BY <2>1, <2>2, <2>6 DEF FlockFails, ReleaseRLock, Inside, IInv, TypeOK,
         OwnersAtWork, OwnerPoints, CountsAgree, Uncounted
    <2>7. CASE DropRLock(t)
      BY <2>1, <2>2, <2>7 DEF DropRLock, ReleaseRLock, Inside, IInv, TypeOK,
         OwnersAtWork, OwnerPoints, CountsAgree, Uncounted
    <2>8. QED
      BY <2>3, <2>4, <2>5, <2>6, <2>7
  <1>8. Next
    BY <1>3 DEF vars, Inside
  <1>9. QED
    BY <1>4, <1>5, <1>6, <1>7, <1>8
    DEF Next, ThreadStep, Acquiring, Abstract!MutexNext

(* Where flock exists, project_lock is a re-entrant mutex over all the     *)
(* threads of all the processes that open the working_dir.                 *)
THEOREM Refinement == ASSUME HasFlock PROVE Spec => ImplementsMutex
  <1>1. Init => HolderNow = NoThread /\ LevelNow = 0
    <2> SUFFICES ASSUME Init PROVE HolderNow = NoThread /\ LevelNow = 0
      OBVIOUS
    <2>1. \A t \in Threads : ~Inside(t)
      BY ThreadAssumption, NobodyAssumption DEF Init, Inside
    <2>2. QED
      BY <2>1 DEF HolderNow, LevelNow
  <1>2. IInv /\ IInv' /\ [Next]_vars => [Abstract!MutexNext]_<<HolderNow, LevelNow>>
    BY StepSimulates
  <1>3. QED
    BY <1>1, <1>2, Invariance, PTL
    DEF Spec, ImplementsMutex, Abstract!MutexSpec, Abstract!MutexInit, Abstract!mutexVars

=============================================================================
