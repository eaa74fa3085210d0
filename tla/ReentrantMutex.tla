--------------------------- MODULE ReentrantMutex ---------------------------
(***************************************************************************)
(* What azt_collabd/locks.py promises of project_lock: at any moment at    *)
(* most one thread, of all the processes that open the same working_dir,   *)
(* is inside the lock; that thread may enter again; nothing but its own    *)
(* exits, or the death of its process, takes the lock from it.             *)
(***************************************************************************)
EXTENDS Naturals

CONSTANTS Threads,      \* every thread of every process that uses the lock
          NoThread      \* "nobody": not one of them

VARIABLES holder,       \* the thread inside the lock, or NoThread
          level         \* how many times it has entered

mutexVars == <<holder, level>>

MutexInit == holder = NoThread /\ level = 0

Enter(t) ==
    /\ holder \in {NoThread, t}
    /\ holder' = t
    /\ level' = level + 1

Exit(t) ==
    /\ holder = t
    /\ level' = level - 1
    /\ holder' = IF level = 1 THEN NoThread ELSE t

(* The holder's process dies: the operating system drops the lock.         *)
Die ==
    /\ holder # NoThread
    /\ holder' = NoThread
    /\ level' = 0

MutexNext == Die \/ \E t \in Threads : Enter(t) \/ Exit(t)

MutexSpec == MutexInit /\ [][MutexNext]_mutexVars
=============================================================================
