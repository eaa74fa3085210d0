---------------------------- MODULE CommitPromise ---------------------------
(***************************************************************************)
(* What commit_project promises those who call it: each call is told of a  *)
(* job, of its own or one that others were told of before; a job is run    *)
(* once, and who joins it joins before; its result is final; and a success *)
(* is a commit with the writes of all who were told of it, but for writes  *)
(* that a reset had taken off the disk before.  How calls are debounced,   *)
(* which thread runs a job and what fails is not said.                     *)
(***************************************************************************)
CONSTANTS
    Calls,       \* the calls, each for one write; a job has the name of the
                 \* call that opened it
    Results,     \* the codes a run may end with
    Success,     \* those that say that all is committed
    Lost,        \* the code of a job that a restart found unfinished
    NoJob

VARIABLES
    told,        \* the job a call was told of
    jobs,        \* the state of each job, and its result
    committed,   \* the writes that are in the history
    overwritten  \* those that were lost before they were

vars == <<told, jobs, committed, overwritten>>

PromiseInit ==
    /\ told = [n \in Calls |-> NoJob]
    /\ jobs = [j \in Calls |-> [state |-> "none", code |-> "none"]]
    /\ committed = {} /\ overwritten = {}

Open(n) ==
    /\ told[n] = NoJob /\ jobs[n].state = "none"
    /\ told' = [told EXCEPT ![n] = n]
    /\ jobs' = [jobs EXCEPT ![n].state = "PENDING"]
    /\ UNCHANGED <<committed, overwritten>>

Join(n, j) ==
    /\ told[n] = NoJob /\ jobs[j].state = "PENDING"
    /\ told' = [told EXCEPT ![n] = j]
    /\ UNCHANGED <<jobs, committed, overwritten>>

Run(j) ==
    /\ jobs[j].state = "PENDING"
    /\ jobs' = [jobs EXCEPT ![j].state = "RUNNING"]
    /\ UNCHANGED <<told, committed, overwritten>>

Commit ==
    /\ \E ns \in SUBSET (Calls \ overwritten) : committed' = committed \cup ns
    /\ UNCHANGED <<told, jobs, overwritten>>

(* A reset of the working tree. What is committed it does not take.        *)
Overwrite ==
    /\ \E ns \in SUBSET (Calls \ committed) : overwritten' = overwritten \cup ns
    /\ UNCHANGED <<told, jobs, committed>>

Report(j, c) ==
    /\ jobs[j].state = "RUNNING"
    /\ c \in Success => \A n \in Calls : told[n] = j => n \in committed \cup overwritten
    /\ jobs' = [jobs EXCEPT ![j] = [state |-> "DONE", code |-> c]]
    /\ UNCHANGED <<told, committed, overwritten>>

(* A restart gives up jobs that were not finished.                         *)
Restart ==
    /\ \E js \in SUBSET {j \in Calls : jobs[j].state \in {"PENDING", "RUNNING"}} :
          jobs' = [j \in Calls |-> IF j \in js THEN [state |-> "DONE", code |-> Lost]
                                               ELSE jobs[j]]
    /\ UNCHANGED <<told, committed, overwritten>>

PromiseNext ==
    \/ \E n \in Calls : Open(n) \/ Run(n)
    \/ \E n, j \in Calls : Join(n, j)
    \/ \E j \in Calls : \E c \in Results : Report(j, c)
    \/ Commit \/ Overwrite \/ Restart

PromiseSpec == PromiseInit /\ [][PromiseNext]_vars
=============================================================================
