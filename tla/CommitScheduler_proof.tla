----------------------- MODULE CommitScheduler_proof ------------------------
(***************************************************************************)
(* CommitScheduler for any number of projects, writes, timers and crashes: *)
(* types; a job that reports success speaks for every call that was given  *)
(* its id; no unfinished job is forgotten.                                 *)
(***************************************************************************)
EXTENDS CommitScheduler, TLAPS

(* Where a timer's thread has a job in hand; where it is in commit_repo;   *)
(* where the outcome of its commit is known.                               *)
Running == {"start", "run", "commit", "count", "counted", "stamp", "stamped", "finish"}
Locked == {"commit", "count", "counted"}
Decided == {"count", "counted", "stamp", "stamped", "finish"}

(* A call that has not returned has left no trace in the tables.           *)
Fresh == \A n \in Calls : handler[n] # "returned" =>
    told[n] = None /\ at[n] = "none" /\ jobs[n].state = "none"

(* A job exists from the call of its own name on.                          *)
JobsAreTold == \A j \in Calls : jobs[j].state # "none" => told[j] = j

(* The job a call was given is one of its project.                         *)
ToldOfOwn == \A n \in Calls : told[n] # None =>
    LangOf[told[n]] = LangOf[n] /\ jobs[told[n]].state # "none"

(* A job in _pending_jobs has not been taken, ...                          *)
PendingIsUntaken == \A l \in Langs : pendingJob[l] # None =>
    /\ LangOf[pendingJob[l]] = l /\ jobs[pendingJob[l]].state = "PENDING"
    /\ \A n \in Calls : runs[n] # pendingJob[l]

(* ... and a timer of its project will take it.                            *)
PendingHasTimer == \A l \in Langs : pendingJob[l] # None =>
    \E n \in Calls : LangOf[n] = l /\ at[n] \in {"armed", "due"}

TimersAreHome == \A l \in Langs : lastTimer[l] # None => LangOf[lastTimer[l]] = l

RunningHasJob == \A n \in Calls : runs[n] # None <=> at[n] \in Running

(* No two threads run one job.                                             *)
RunsAreApart == \A n \in Calls : runs[n] # None =>
    /\ LangOf[runs[n]] = LangOf[n] /\ jobs[runs[n]].state \in {"PENDING", "RUNNING"}
    /\ \A m \in Calls : runs[m] = runs[n] => m = n

WatcherAtWork ==
    /\ at[Watcher] \in {"idle", "run", "flag", "flagged"} \cup Locked
    /\ at[Watcher] # "idle" => retrying \in Langs
    /\ runs[Watcher] = None

LockIsHeld == \A w \in Workers : at[w] \in Locked => holder[ProjectOf(w)] = w

(* Whoever was told of the job that is being run is in what is staged, and *)
(* in the history once the commit has succeeded, unless it is there        *)
(* already or a reset has taken it.                                        *)
CallersAreIn == \A n, w \in Calls : told[n] # None /\ runs[w] = told[n] =>
    /\ at[w] = "commit" => n \in staged[LangOf[w]] \cup committed \cup overwritten
    /\ at[w] \in Decided /\ code[w] \in Success => n \in committed \cup overwritten

(* What is staged is there to be committed: no reset has taken it.         *)
StagedIsThere == \A l \in Langs : staged[l] \subseteq Uncommitted(l)

(* An unfinished job in the table waits or is run.                         *)
Carried == \A j \in known : jobs[j].state \in Unfinished =>
    pendingJob[LangOf[j]] = j \/ \E n \in Calls : runs[n] = j

(* The inductive invariant.                                                *)
IInv ==
    /\ TypeOK /\ Fresh /\ JobsAreTold /\ ToldOfOwn /\ PendingIsUntaken
    /\ PendingHasTimer /\ TimersAreHome /\ RunningHasJob /\ RunsAreApart
    /\ WatcherAtWork /\ LockIsHeld /\ CallersAreIn /\ StagedIsThere
    /\ JobSpeaksForCaller /\ Carried

LEMMA InitEstablishes == Init => IInv
  BY CallAssumption
  DEF Init, IInv, TypeOK, Fresh, JobsAreTold, ToldOfOwn, PendingIsUntaken,
      PendingHasTimer, TimersAreHome, RunningHasJob, RunsAreApart, WatcherAtWork,
      LockIsHeld, CallersAreIn, StagedIsThere, JobSpeaksForCaller, Carried, Workers,
      JobRecords, Entries, Codes, Places, NoEntries, Idle, Running, Locked, Decided, Success,
      Unfinished

-----------------------------------------------------------------------------
(* The steps of commit_repo and of what follows it leave the job tables    *)
(* alone, whoever takes them, and move one worker among its own places.    *)
AtWorkPlaces == {"run", "commit", "count", "counted", "stamp", "stamped", "flag", "flagged"}

LEMMA WorkMovesOne ==
  ASSUME IInv, NEW w \in Workers, Work(w)
  PROVE  /\ UNCHANGED <<handler, told, pendingJob, lastTimer, jobs, known, runs, retrying>>
         /\ committed \subseteq committed' /\ overwritten \subseteq overwritten'
         /\ \A m \in Workers \ {w} : at'[m] = at[m] /\ code'[m] = code[m]
         /\ at[w] \in AtWorkPlaces
         /\ at'[w] \in AtWorkPlaces \cup {"idle", "finish", "over"}
         /\ w \in Calls => (at[w] \in Running <=> at'[w] \in Running)
  <1>. USE DEF IInv, TypeOK, Result, SaveFile, Goto, jobVars, workVars, diskVars,
               treeVars, AtWorkPlaces, Running
  <1>1. CASE ContributorUnset(w)
    BY <1>1, CallAssumption DEF ContributorUnset, EndsWith, Workers
  <1>2. CASE CommitBusy(w)
    BY <1>2, CallAssumption DEF CommitBusy, EndsWith, Workers
  <1>3. CASE BeginCommit(w)
    BY <1>3, CallAssumption DEF BeginCommit, HardReset, Workers
  <1>4. ASSUME NEW c \in Codes, MakeCommit(w, c)
        PROVE  /\ UNCHANGED <<handler, told, pendingJob, lastTimer, jobs, known, runs, retrying>>
               /\ committed \subseteq committed' /\ overwritten \subseteq overwritten'
               /\ \A m \in Workers \ {w} : at'[m] = at[m] /\ code'[m] = code[m]
               /\ at[w] = "commit" /\ at'[w] = "count"
    BY <1>4 DEF MakeCommit
  <1>5. CASE LoadFile(w)
    BY <1>5 DEF LoadFile, LoadsTo
  <1>6. CASE CountFailures(w)
    BY <1>6, CallAssumption DEF CountFailures, Workers
  <1>7. CASE StampCommit(w)
    BY <1>7 DEF StampCommit
  <1>8. CASE SetPendingPush(w)
    BY <1>8, CallAssumption DEF SetPendingPush, Workers
  <1>9. QED
    BY <1>1, <1>2, <1>3, <1>4, <1>5, <1>6, <1>7, <1>8 DEF Work

LEMMA WorkKeepsTables ==
  ASSUME IInv, NEW w \in Workers, Work(w)
  PROVE  /\ Fresh' /\ JobsAreTold' /\ ToldOfOwn' /\ PendingIsUntaken' /\ PendingHasTimer'
         /\ TimersAreHome' /\ RunningHasJob' /\ RunsAreApart'
         /\ JobSpeaksForCaller' /\ Carried'
  <1>. USE WorkMovesOne DEF IInv, Workers
  <1>1. Fresh'
    BY DEF Fresh, AtWorkPlaces
  <1>2. JobsAreTold' /\ ToldOfOwn' /\ PendingIsUntaken' /\ TimersAreHome' /\ RunsAreApart'
    BY DEF JobsAreTold, ToldOfOwn, PendingIsUntaken, TimersAreHome, RunsAreApart
  <1>3. PendingHasTimer'
    <2>1. \A m \in Calls : at[m] \in {"armed", "due"} => at'[m] = at[m]
      BY DEF AtWorkPlaces
    <2>2. QED
      BY <2>1 DEF PendingHasTimer
  <1>4. RunningHasJob'
    BY DEF RunningHasJob
  <1>5. JobSpeaksForCaller' /\ Carried'
    BY DEF JobSpeaksForCaller, Carried
  <1>6. QED
    BY <1>1, <1>2, <1>3, <1>4, <1>5

(* What is staged for a project changes under its lock only.               *)
LEMMA StagedUnderLock ==
  ASSUME IInv, NEW w \in Workers, Work(w)
  PROVE  \A l \in Langs : staged'[l] = staged[l] \/ holder[l] \in {None, w}
  <1>1. CASE BeginCommit(w)
    BY <1>1 DEF BeginCommit, IInv, TypeOK
  <1>2. CASE \E c \in Codes : MakeCommit(w, c)
    BY <1>2 DEF MakeCommit, IInv, TypeOK, LockIsHeld, Locked
  <1>3. CASE ~BeginCommit(w) /\ ~\E c \in Codes : MakeCommit(w, c)
    BY <1>3 DEF Work, ContributorUnset, CommitBusy, EndsWith, LoadFile, CountFailures,
       StampCommit, SetPendingPush, diskVars, treeVars
  <1>4. QED
    BY <1>1, <1>2, <1>3

(* A write keeps its place: what a commit or a reset takes of one project  *)
(* is not staged for another.                                              *)
LEMMA WorkKeepsStaged ==
  ASSUME IInv, NEW w \in Workers, Work(w), ProjectOf(w) \in Langs
  PROVE  StagedIsThere'
  <1>. DEFINE l == ProjectOf(w)
  <1>1. handler' = handler
    BY WorkMovesOne
  <1>2. staged \in [Langs -> SUBSET Calls]
    BY DEF IInv, TypeOK
  <1>3. CASE BeginCommit(w)
    <2>1. PICK gone \in SUBSET Uncommitted(l) :
             /\ overwritten' = overwritten \cup gone
             /\ staged' = [staged EXCEPT ![l] = Uncommitted(l) \ gone]
      BY <1>3 DEF BeginCommit, HardReset
    <2>2. committed' = committed
      BY <1>3 DEF BeginCommit
    <2>3. QED
      BY <1>1, <1>2, <2>1, <2>2 DEF IInv, StagedIsThere, Uncommitted, Written
  <1>4. CASE \E c \in Codes : MakeCommit(w, c)
    <2>1. /\ overwritten' = overwritten
          /\ \/ UNCHANGED <<committed, staged>>
             \/ /\ committed' = committed \cup staged[l]
                /\ staged' = [staged EXCEPT ![l] = {}]
      BY <1>4 DEF MakeCommit
    <2>2. QED
      BY <1>1, <1>2, <2>1 DEF IInv, StagedIsThere, Uncommitted, Written
  <1>5. CASE ~BeginCommit(w) /\ ~\E c \in Codes : MakeCommit(w, c)
    <2>1. UNCHANGED <<staged, committed, overwritten>>
      BY <1>5 DEF Work, ContributorUnset, CommitBusy, EndsWith, LoadFile, CountFailures,
         StampCommit, SetPendingPush, diskVars, treeVars
    <2>2. QED
      BY <1>1, <2>1 DEF IInv, StagedIsThere, Uncommitted, Written
  <1>6. QED
    BY <1>3, <1>4, <1>5

(* A commit contains every call that was told of the job, and says so.     *)
LEMMA WorkKeepsCallers ==
  ASSUME IInv, NEW w \in Workers, Work(w)
  PROVE  CallersAreIn'
  <1>1. \A m \in Calls \ {w} : at[m] = "commit" => staged'[LangOf[m]] = staged[LangOf[m]]
    BY StagedUnderLock, CallAssumption
    DEF IInv, LockIsHeld, Locked, ProjectOf, Workers
  <1>2. \A n \in Calls, m \in Calls \ {w} : told[n] # None /\ runs'[m] = told'[n] =>
            /\ at'[m] = "commit" => n \in staged'[LangOf[m]] \cup committed' \cup overwritten'
            /\ at'[m] \in Decided /\ code'[m] \in Success => n \in committed' \cup overwritten'
    BY <1>1, WorkMovesOne DEF IInv, CallersAreIn, Workers
  <1>3. CASE w = Watcher
    BY <1>2, <1>3, WorkMovesOne, CallAssumption DEF CallersAreIn
  <1>4. CASE w \in Calls
    <2>. USE CallAssumption, WorkMovesOne
         DEF IInv, TypeOK, CallersAreIn, Workers, ProjectOf, Result, Goto, Locked, Decided,
             Success, Running, RunningHasJob, RunsAreApart
    <2>2. SUFFICES ASSUME NEW n \in Calls, told[n] # None, runs[w] = told[n]
                   PROVE  /\ at'[w] = "commit" => n \in staged'[LangOf[w]] \cup committed' \cup overwritten'
                          /\ at'[w] \in Decided /\ code'[w] \in Success => n \in committed' \cup overwritten'
      BY <1>2
    <2>3. CASE BeginCommit(w)
      BY <1>4, <2>2, <2>3 DEF BeginCommit, HardReset, Uncommitted, Written, Fresh, ToldOfOwn
    <2>4. ASSUME NEW c \in Codes, MakeCommit(w, c)
          PROVE  /\ at'[w] = "commit" => n \in staged'[LangOf[w]] \cup committed' \cup overwritten'
                 /\ at'[w] \in Decided /\ code'[w] \in Success => n \in committed' \cup overwritten'
      BY <1>4, <2>2, <2>4 DEF MakeCommit, Outcomes
    <2>5. CASE ContributorUnset(w) \/ CommitBusy(w)
      BY <1>4, <2>2, <2>5 DEF ContributorUnset, CommitBusy, EndsWith
    <2>6. CASE LoadFile(w)
      BY <1>4, <2>2, <2>6 DEF LoadFile, LoadsTo
    <2>7. CASE CountFailures(w)
      BY <1>4, <2>2, <2>7 DEF CountFailures, SaveFile
    <2>8. CASE StampCommit(w) \/ SetPendingPush(w)
      BY <1>4, <2>2, <2>8 DEF StampCommit, SetPendingPush, SaveFile
    <2>9. QED
      BY <2>3, <2>4, <2>5, <2>6, <2>7, <2>8 DEF Work
  <1>5. QED
    BY <1>3, <1>4 DEF Workers

LEMMA WorkKeepsLock ==
  ASSUME IInv, NEW w \in Workers, Work(w)
  PROVE  TypeOK' /\ WatcherAtWork' /\ LockIsHeld' /\ StagedIsThere'
  <1>. USE CallAssumption, WorkMovesOne
       DEF IInv, TypeOK, WatcherAtWork, LockIsHeld, Workers, ProjectOf, Result, Goto,
           Locked, Codes, Places, Entries
  <1>1. ProjectOf(w) \in Langs /\ w \in Workers
    <2>1. at[w] # "idle"
      BY DEF AtWorkPlaces
    <2>2. QED
      BY <2>1
  <1>. SUFFICES TypeOK' /\ WatcherAtWork' /\ LockIsHeld'
    BY <1>1, WorkKeepsStaged
  <1>2. NoEntries \in [Langs -> Entries]
    BY DEF NoEntries
  <1>3. CASE ContributorUnset(w) \/ CommitBusy(w)
    <2>1. PICK c \in Codes, place \in {"idle", "finish"} :
               /\ code' = [code EXCEPT ![w] = c] /\ at' = [at EXCEPT ![w] = place]
               /\ w = Watcher => place = "idle"
      BY <1>3 DEF ContributorUnset, CommitBusy, EndsWith
    <2>2. UNCHANGED <<handler, jobVars, runs, retrying, copy, diskVars>>
      BY <1>3 DEF ContributorUnset, CommitBusy, EndsWith
    <2>3. QED
      BY <1>1, <2>1, <2>2 DEF jobVars, diskVars
  <1>4. CASE BeginCommit(w)
    <2>1. PICK gone \in SUBSET Uncommitted(ProjectOf(w)) :
               /\ overwritten' = overwritten \cup gone
               /\ staged' = [staged EXCEPT ![ProjectOf(w)] = Uncommitted(ProjectOf(w)) \ gone]
      BY <1>4 DEF BeginCommit, HardReset
    <2>2. Uncommitted(ProjectOf(w)) \subseteq Calls
      BY DEF Uncommitted, Written
    <2>3. /\ staged' \in [Langs -> SUBSET Calls]
          /\ overwritten' \in SUBSET Calls
          /\ queued' \in SUBSET Langs
      <3>1. queued' \in SUBSET Langs
        BY <1>1, <1>4 DEF BeginCommit
      <3>2. QED
        BY <1>1, <2>1, <2>2, <3>1
    <2>4. /\ at' = [at EXCEPT ![w] = "commit"] /\ holder' = [holder EXCEPT ![ProjectOf(w)] = w]
          /\ at[w] = "run" /\ holder[ProjectOf(w)] = None
          /\ UNCHANGED <<handler, jobVars, runs, code, retrying, copy, file, committed>>
      BY <1>4 DEF BeginCommit
    <2>5. TypeOK'
      BY <1>1, <2>3, <2>4 DEF jobVars
    <2>6. WatcherAtWork' /\ LockIsHeld'
      BY <1>1, <2>4 DEF jobVars
    <2>7. QED
      BY <2>5, <2>6
  <1>5. ASSUME NEW c \in Codes, MakeCommit(w, c)
        PROVE  TypeOK' /\ WatcherAtWork' /\ LockIsHeld'
    <2>1. /\ committed' \in SUBSET Calls
          /\ staged' \in [Langs -> SUBSET Calls]
      BY <1>1, <1>5 DEF MakeCommit
    <2>2. /\ at' = [at EXCEPT ![w] = "count"] /\ code' = [code EXCEPT ![w] = c]
          /\ at[w] = "commit"
          /\ UNCHANGED <<handler, jobVars, runs, retrying, copy, file, holder, queued, overwritten>>
      BY <1>5 DEF MakeCommit
    <2>3. TypeOK'
      BY <1>1, <2>1, <2>2 DEF jobVars
    <2>4. WatcherAtWork' /\ LockIsHeld'
      BY <1>1, <2>2 DEF jobVars
    <2>5. QED
      BY <2>3, <2>4
  <1>6. CASE LoadFile(w)
    BY <1>1, <1>6 DEF LoadFile, LoadsTo, jobVars, diskVars
  <1>7. CASE CountFailures(w)
    <2> DEFINE l == ProjectOf(w)
               new == [copy[w] EXCEPT ![l].failed = code[w] \notin Success]
    <2>1. copy[w] \in [Langs -> Entries] /\ copy[w][l] \in Entries
      BY <1>1
    <2>2. [copy[w][l] EXCEPT !.failed = code[w] \notin Success] \in Entries
      BY <2>1, Zenon
    <2>3. new \in [Langs -> Entries]
      BY <2>1, <2>2, <1>1
    <2>. HIDE DEF new
    <2>4. file' \in {new, file} /\ copy' = [copy EXCEPT ![w] = NoEntries]
          /\ holder' = [holder EXCEPT ![l] = None] /\ UNCHANGED treeVars
          /\ at[w] = "counted"
      BY <1>7 DEF CountFailures, SaveFile, new
    <2>5. PICK c \in Codes, place \in {"flag", "idle", "stamp", "finish"} :
               /\ code' = [code EXCEPT ![w] = c] /\ at' = [at EXCEPT ![w] = place]
               /\ w = Watcher => place \in {"flag", "idle"}
      BY <1>7 DEF CountFailures, SaveFile
    <2>6. at' \in [Workers -> Places] /\ code' \in [Workers -> Codes]
      BY <1>1, <2>4, <2>5
    <2>7. file' \in [Langs -> Entries] /\ copy' \in [Workers -> [Langs -> Entries]]
      BY <1>1, <1>2, <2>3, <2>4
    <2>8. /\ holder' \in [Langs -> Workers \cup {Other, None}]
          /\ staged' \in [Langs -> SUBSET Calls] /\ committed' \in SUBSET Calls
          /\ queued' \in SUBSET Langs /\ overwritten' \in SUBSET Calls
      BY <1>1, <2>4 DEF treeVars
    <2>9. TypeOK'
      BY <2>6, <2>7, <2>8
    <2>10. WatcherAtWork' /\ LockIsHeld'
      BY <1>1, <2>4, <2>5
    <2>11. QED
      BY <2>9, <2>10
  <1>8. CASE StampCommit(w)
    BY <1>1, <1>2, <1>8 DEF StampCommit, SaveFile, jobVars, treeVars
  <1>9. CASE SetPendingPush(w)
    <2> DEFINE l == ProjectOf(w)
               new == [copy[w] EXCEPT ![l].pending_push = TRUE]
    <2>1. copy[w] \in [Langs -> Entries] /\ copy[w][l] \in Entries
      BY <1>1
    <2>2. [copy[w][l] EXCEPT !.pending_push = TRUE] \in Entries
      BY <2>1, Zenon
    <2>3. new \in [Langs -> Entries]
      BY <2>1, <2>2, <1>1
    <2>. HIDE DEF new
    <2>4. file' = new /\ copy' = [copy EXCEPT ![w] = NoEntries] /\ at[w] = "flagged"
          /\ UNCHANGED <<code, holder, staged, committed, queued, overwritten>>
      BY <1>9 DEF SetPendingPush, SaveFile, new, treeVars
    <2>5. PICK place \in {"idle", "over"} :
               at' = [at EXCEPT ![w] = place] /\ (w = Watcher => place = "idle")
      BY <1>9 DEF SetPendingPush, SaveFile
    <2>6. at' \in [Workers -> Places] /\ copy' \in [Workers -> [Langs -> Entries]]
      BY <1>1, <1>2, <2>4, <2>5
    <2>7. TypeOK'
      BY <2>3, <2>4, <2>6
    <2>8. WatcherAtWork' /\ LockIsHeld'
      BY <1>1, <2>4, <2>5
    <2>9. QED
      BY <2>7, <2>8
  <1>10. QED
    BY <1>1, <1>3, <1>4, <1>5, <1>6, <1>7, <1>8, <1>9 DEF Work

-----------------------------------------------------------------------------
(* commit_project: the job it gives out has not been taken by a thread,    *)
(* and the timer it cancels is one of the same project.                    *)
LEMMA CallKeeps ==
  ASSUME IInv, NEW n \in Calls, NEW debounce \in BOOLEAN, CommitProject(n, debounce)
  PROVE  IInv'
  <1> DEFINE l == LangOf[n]
  <1>1. /\ l \in Langs /\ handler[n] = "landed"
        /\ n \in Workers /\ n # Watcher /\ Watcher \in Workers
    BY CallAssumption DEF CommitProject, Workers
  <1>2. told[n] = None /\ at[n] = "none" /\ jobs[n].state = "none" /\ runs[n] = None
    BY <1>1 DEF IInv, Fresh, RunningHasJob, Running
  <1>3. /\ handler' = [handler EXCEPT ![n] = "returned"]
        /\ UNCHANGED <<runs, code, retrying, copy, diskVars>>
    BY DEF CommitProject
  <1>4. PICK j \in Calls :
           /\ told' = [told EXCEPT ![n] = j]
           /\ pendingJob' = [pendingJob EXCEPT ![l] = j]
           /\ \/ j = pendingJob[l] /\ jobs' = jobs /\ known' = known
              \/ /\ j = n /\ pendingJob[l] = None /\ jobs' = [jobs EXCEPT ![n].state = "PENDING"]
                 /\ known' \subseteq known \cup {n}
    <2>1. CASE pendingJob[l] # None
      <3>1. pendingJob[l] \in Calls /\ pendingJob = [pendingJob EXCEPT ![l] = pendingJob[l]]
        BY <1>1, <2>1 DEF IInv, TypeOK
      <3>2. told' = [told EXCEPT ![n] = pendingJob[l]] /\ UNCHANGED <<pendingJob, jobs, known>>
        BY <2>1 DEF CommitProject
      <3>3. QED
        BY <3>1, <3>2
    <2>2. CASE pendingJob[l] = None
      BY <2>2 DEF CommitProject, Prune
    <2>3. QED
      BY <2>1, <2>2
  <1>. HIDE DEF l
  <1>5. /\ told'[n] = j /\ \A m \in Calls \ {n} : told'[m] = told[m]
        /\ pendingJob'[l] = j /\ \A k \in Langs \ {l} : pendingJob'[k] = pendingJob[k]
        /\ handler'[n] = "returned" /\ \A m \in Calls \ {n} : handler'[m] = handler[m]
    BY <1>1, <1>3, <1>4 DEF IInv, TypeOK
  <1>6. \A m \in Calls \ {n} : jobs'[m] = jobs[m] /\ (m \in known' => m \in known)
    BY <1>4 DEF IInv, TypeOK
  <1>7. LangOf[j] = l /\ jobs'[j].state = "PENDING" /\ \A m \in Calls : runs[m] # j
    <2>1. CASE j = pendingJob[l] /\ jobs' = jobs
      BY <1>1, <1>4, <2>1, CallAssumption DEF IInv, PendingIsUntaken
    <2>2. CASE j = n /\ jobs' = [jobs EXCEPT ![n].state = "PENDING"]
      <3>1. jobs'[n].state = "PENDING"
        BY <2>2 DEF IInv, TypeOK, JobRecords
      <3>2. \A m \in Calls : runs[m] # n
        BY <1>2, CallAssumption DEF IInv, RunsAreApart
      <3>3. QED
        BY <2>2, <3>1, <3>2 DEF l
    <2>3. QED
      BY <1>4, <2>1, <2>2
  <1>8. \A m \in Calls : jobs[m].state # "none" => m # n /\ jobs'[m] = jobs[m]
    BY <1>2, <1>6
  <1>9. at'[n] \in {"armed", "due"}
    BY <1>1 DEF CommitProject
  <1>10. \A w \in Workers \ {n} :
            at'[w] = at[w] \/ (at[w] = "armed" /\ at'[w] = "cancelled" /\ w = lastTimer[l])
    BY DEF CommitProject, Cancelled, l
  <1>11. \A w \in Workers \ {n} : at'[w] # at[w] => w \in Calls
    BY <1>10 DEF IInv, WatcherAtWork, Workers, Locked
  <1>12. lastTimer' \in [Langs -> Calls \cup {None}] /\ TimersAreHome'
    BY <1>1, CallAssumption DEF CommitProject, IInv, TypeOK, TimersAreHome, l
  <1>13. TypeOK'
    <2>1. at' \in [Workers -> Places]
      BY <1>9, <1>10 DEF CommitProject, IInv, TypeOK, Places
    <2>2. jobs[n] \in JobRecords
      BY DEF IInv, TypeOK
    <2>3. jobs' \in [Calls -> JobRecords]
      <3>1. [jobs[n] EXCEPT !.state = "PENDING"] \in JobRecords
        BY <2>2, Zenon DEF JobRecords
      <3>2. QED
        BY <1>4, <3>1 DEF IInv, TypeOK
    <2>4. QED
      BY <1>1, <1>3, <1>4, <1>12, <2>1, <2>3 DEF IInv, TypeOK, diskVars
  <1>14. Fresh'
    BY <1>1, <1>5, <1>6, <1>10 DEF IInv, Fresh, Workers
  <1>15. JobsAreTold'
    <2>. SUFFICES ASSUME NEW k \in Calls, jobs'[k].state # "none"
                  PROVE  told'[k] = k
      BY DEF JobsAreTold
    <2>1. CASE k # n
      BY <1>5, <1>6, <2>1 DEF IInv, JobsAreTold
    <2>2. CASE k = n
      BY <1>2, <1>4, <1>5, <2>2
    <2>3. QED
      BY <2>1, <2>2
  <1>16. ToldOfOwn'
    <2>. SUFFICES ASSUME NEW m \in Calls, told'[m] # None
                  PROVE  LangOf[told'[m]] = LangOf[m] /\ jobs'[told'[m]].state # "none"
      BY DEF ToldOfOwn
    <2>1. CASE m # n
      <3>1. told'[m] = told[m] /\ told[m] \in Calls
        BY <1>5, <2>1 DEF IInv, TypeOK
      <3>2. QED
        BY <1>8, <3>1 DEF IInv, ToldOfOwn
    <2>2. CASE m = n
      BY <1>5, <1>7, <2>2 DEF l
    <2>3. QED
      BY <2>1, <2>2
  <1>17. PendingIsUntaken'
    <2>. SUFFICES ASSUME NEW k \in Langs, pendingJob'[k] # None
                  PROVE  /\ LangOf[pendingJob'[k]] = k /\ jobs'[pendingJob'[k]].state = "PENDING"
                         /\ \A m \in Calls : runs'[m] # pendingJob'[k]
      BY DEF PendingIsUntaken
    <2>1. CASE k # l
      <3>1. pendingJob'[k] = pendingJob[k] /\ pendingJob[k] \in Calls
        BY <1>5, <2>1 DEF IInv, TypeOK
      <3>2. QED
        BY <1>3, <1>8, <3>1 DEF IInv, PendingIsUntaken
    <2>2. CASE k = l
      BY <1>3, <1>5, <1>7, <2>2
    <2>3. QED
      BY <2>1, <2>2
  <1>18. PendingHasTimer'
    <2>. SUFFICES ASSUME NEW k \in Langs, pendingJob'[k] # None
                  PROVE  \E m \in Calls : LangOf[m] = k /\ at'[m] \in {"armed", "due"}
      BY DEF PendingHasTimer
    <2>1. CASE k # l
      <3>1. PICK m \in Calls : LangOf[m] = k /\ at[m] \in {"armed", "due"}
        BY <1>5, <2>1 DEF IInv, PendingHasTimer
      <3>2. m # n /\ m # lastTimer[l]
        BY <1>1, <2>1, <3>1, CallAssumption DEF IInv, TimersAreHome, l
      <3>3. QED
        BY <1>10, <3>1, <3>2 DEF Workers
    <2>2. CASE k = l
      BY <1>9, <2>2 DEF l
    <2>3. QED
      BY <2>1, <2>2
  <1>19. RunningHasJob'
    BY <1>2, <1>3, <1>9, <1>10 DEF IInv, RunningHasJob, Running, Workers
  <1>20. RunsAreApart'
    <2>1. \A m \in Calls : runs[m] # None => runs[m] \in Calls
      BY DEF IInv, TypeOK, Workers
    <2>2. QED
      BY <1>3, <1>8, <2>1 DEF IInv, RunsAreApart
  <1>21. WatcherAtWork' /\ LockIsHeld'
    BY <1>1, <1>3, <1>9, <1>10, <1>11 DEF IInv, WatcherAtWork, LockIsHeld, Locked, ProjectOf,
       diskVars
  <1>22. CallersAreIn'
    <2>. SUFFICES ASSUME NEW m \in Calls, NEW w \in Calls, told'[m] # None, runs'[w] = told'[m]
                  PROVE  /\ at'[w] = "commit" => m \in staged'[LangOf[w]] \cup committed' \cup overwritten'
                         /\ at'[w] \in Decided /\ code'[w] \in Success => m \in committed' \cup overwritten'
      BY DEF CallersAreIn
    <2>1. m # n /\ told'[m] = told[m]
      BY <1>3, <1>5, <1>7
    <2>2. at'[w] = "commit" \/ at'[w] \in Decided => at'[w] = at[w]
      BY <1>9, <1>10 DEF Decided, Workers
    <2>3. QED
      BY <1>3, <2>1, <2>2 DEF IInv, CallersAreIn, diskVars
  <1>23. JobSpeaksForCaller'
    <2>. SUFFICES ASSUME NEW m \in Calls, told'[m] # None, jobs'[told'[m]].state = "DONE",
                         jobs'[told'[m]].code \in Success
                  PROVE  m \in committed' \cup overwritten'
      BY DEF JobSpeaksForCaller
    <2>1. m # n /\ told'[m] = told[m] /\ told[m] \in Calls
      BY <1>5, <1>7 DEF IInv, TypeOK
    <2>2. jobs'[told[m]] = jobs[told[m]]
      BY <1>8, <2>1 DEF IInv, ToldOfOwn
    <2>3. QED
      BY <1>3, <2>1, <2>2 DEF IInv, JobSpeaksForCaller, diskVars
  <1>24. Carried'
    <2>. SUFFICES ASSUME NEW k \in known', jobs'[k].state \in Unfinished
                  PROVE  pendingJob'[LangOf[k]] = k \/ \E m \in Calls : runs'[m] = k
      BY DEF Carried
    <2>1. k \in Calls /\ LangOf[k] \in Langs
      BY <1>13, CallAssumption DEF TypeOK
    <2>2. CASE k = j
      BY <1>5, <1>7, <2>2
    <2>3. CASE k # j /\ k # n
      <3>1. k \in known /\ jobs[k].state \in Unfinished
        BY <1>6, <2>1, <2>3
      <3>2. CASE \E m \in Calls : runs[m] = k
        BY <1>3, <3>2
      <3>3. CASE pendingJob[LangOf[k]] = k
        <4>1. CASE LangOf[k] # l
          BY <1>5, <2>1, <3>3, <4>1
        <4>2. CASE LangOf[k] = l
          BY <1>4, <2>1, <2>3, <3>3, <4>2, CallAssumption
        <4>3. QED
          BY <4>1, <4>2
      <3>4. QED
        BY <3>1, <3>2, <3>3 DEF IInv, Carried
    <2>4. CASE k = n /\ k # j
      BY <1>2, <1>4, <2>4 DEF Unfinished
    <2>5. QED
      BY <2>2, <2>3, <2>4
  <1>25. StagedIsThere'
    BY <1>1, <1>3 DEF IInv, TypeOK, StagedIsThere, Uncommitted, Written, diskVars
  <1>26. QED
    BY <1>12, <1>13, <1>14, <1>15, <1>16, <1>17, <1>18, <1>19, <1>20, <1>21, <1>22, <1>23,
       <1>24, <1>25 DEF IInv

(* _fire takes whatever job the project has; none is left behind.          *)
LEMMA FireKeeps ==
  ASSUME IInv, NEW n \in Calls, Fire(n)
  PROVE  IInv'
  <1>. DEFINE l == LangOf[n]
              j == pendingJob[l]
  <1>1. /\ l \in Langs /\ n \in Workers /\ n # Watcher /\ Watcher \in Workers
        /\ j \in Calls \cup {None} /\ at[n] = "due" /\ runs[n] = None
        /\ pendingJob' = [pendingJob EXCEPT ![l] = None]
        /\ lastTimer' = [lastTimer EXCEPT ![l] = None]
        /\ runs' = [runs EXCEPT ![n] = j]
        /\ at' = [at EXCEPT ![n] = IF j = None THEN "over" ELSE "start"]
        /\ UNCHANGED <<handler, told, jobs, known, code, retrying, copy,
                       file, holder, staged, committed, queued, overwritten>>
    BY CallAssumption
    DEF Fire, Popped, Goto, IInv, TypeOK, Workers, RunningHasJob, Running, diskVars
  <1>2. j # None => /\ LangOf[j] = l /\ jobs[j].state = "PENDING"
                    /\ \A m \in Calls : runs[m] # j
    BY <1>1 DEF IInv, PendingIsUntaken
  <1>3. TypeOK'
    BY <1>1 DEF IInv, TypeOK, Places, Workers
  <1>4. Fresh' /\ JobsAreTold' /\ ToldOfOwn' /\ TimersAreHome'
    BY <1>1 DEF IInv, TypeOK, Fresh, JobsAreTold, ToldOfOwn, TimersAreHome
  <1>5. PendingIsUntaken'
    BY <1>1, <1>2, CallAssumption DEF IInv, TypeOK, PendingIsUntaken
  <1>6. PendingHasTimer'
    BY <1>1, CallAssumption DEF IInv, TypeOK, PendingHasTimer, Workers
  <1>7. RunningHasJob'
    BY <1>1, CallAssumption DEF IInv, TypeOK, RunningHasJob, Running, Workers
  <1>8. RunsAreApart'
    BY <1>1, <1>2, CallAssumption DEF IInv, TypeOK, RunsAreApart
  <1>9. WatcherAtWork' /\ LockIsHeld'
    BY <1>1 DEF IInv, TypeOK, WatcherAtWork, LockIsHeld, Locked, ProjectOf
  <1>10. CallersAreIn' /\ StagedIsThere'
    BY <1>1, <1>2 DEF IInv, TypeOK, CallersAreIn, StagedIsThere, Uncommitted, Written, Workers,
       Decided
  <1>11. JobSpeaksForCaller'
    BY <1>1 DEF IInv, JobSpeaksForCaller
  <1>12. Carried'
    <2>. SUFFICES ASSUME NEW k \in known, jobs[k].state \in Unfinished
                  PROVE  pendingJob'[LangOf[k]] = k \/ \E m \in Calls : runs'[m] = k
      BY <1>1 DEF Carried
    <2>1. CASE k = j
      BY <1>1, <2>1 DEF IInv, TypeOK
    <2>2. CASE k # j /\ pendingJob[LangOf[k]] = k
      BY <1>1, <2>2, CallAssumption DEF IInv, TypeOK
    <2>3. CASE \E m \in Calls : runs[m] = k
      <3>1. PICK m \in Calls : runs[m] = k
        BY <2>3
      <3>2. m # n
        BY <1>1, <3>1, CallAssumption DEF IInv, TypeOK
      <3>3. QED
        BY <1>1, <3>1, <3>2
    <2>4. QED
      BY <2>1, <2>2, <2>3 DEF IInv, Carried
  <1>13. QED
    BY <1>3, <1>4, <1>5, <1>6, <1>7, <1>8, <1>9, <1>10, <1>11, <1>12 DEF IInv

-----------------------------------------------------------------------------
(* The thread that has a job in hand reports on it: no other job, and no   *)
(* call that has not returned, is touched.                                 *)
LEMMA ReportKeeps ==
  ASSUME IInv, NEW n \in Calls, at[n] \in Running,
         \A m \in Calls : m # runs[n] => jobs'[m] = jobs[m],
         jobs'[runs[n]].state # "none",
         UNCHANGED <<handler, told, pendingJob, lastTimer>>,
         \A m \in Calls \ {n} : at'[m] = at[m] /\ runs'[m] = runs[m],
         runs'[n] \in {None, runs[n]}
  PROVE  /\ Fresh' /\ JobsAreTold' /\ ToldOfOwn' /\ PendingIsUntaken'
         /\ PendingHasTimer' /\ TimersAreHome'
  <1>1. /\ runs[n] \in Calls /\ jobs[runs[n]].state \in {"PENDING", "RUNNING"}
        /\ \A l \in Langs : pendingJob[l] # runs[n]
    BY CallAssumption
    DEF IInv, TypeOK, RunningHasJob, RunsAreApart, PendingIsUntaken, Workers
  <1>2. Fresh' /\ JobsAreTold' /\ ToldOfOwn' /\ TimersAreHome'
    <2>1. Fresh'
      BY <1>1 DEF IInv, Fresh, Running
    <2>2. JobsAreTold' /\ TimersAreHome'
      BY <1>1 DEF IInv, JobsAreTold, TimersAreHome
    <2>3. ToldOfOwn'
      <3>1. \A m \in Calls : told[m] \in Calls \cup {None}
        BY DEF IInv, TypeOK
      <3>2. QED
        BY <3>1 DEF IInv, ToldOfOwn
    <2>4. QED
      BY <2>1, <2>2, <2>3
  <1>3. PendingIsUntaken'
    <2>1. \A l \in Langs : pendingJob[l] \in Calls \cup {None}
      BY DEF IInv, TypeOK
    <2>2. QED
      BY <1>1, <2>1 DEF IInv, PendingIsUntaken
  <1>4. PendingHasTimer'
    BY DEF IInv, PendingHasTimer, Running
  <1>5. QED
    BY <1>2, <1>3, <1>4

LEMMA StartKeeps ==
  ASSUME IInv, NEW n \in Calls, Start(n)
  PROVE  IInv'
  <1> DEFINE j == runs[n]
  <1>1. /\ j \in Calls /\ at[n] = "start" /\ n \in Workers /\ n # Watcher /\ Watcher \in Workers
        /\ jobs[j] \in JobRecords /\ jobs[j].state \in {"PENDING", "RUNNING"}
    BY CallAssumption
    DEF Start, IInv, TypeOK, RunningHasJob, RunsAreApart, Running, Workers
  <1>2. /\ at' = [at EXCEPT ![n] = "run"]
        /\ UNCHANGED <<handler, told, pendingJob, lastTimer, known, runs, code, retrying,
                       copy, file, holder, staged, committed, queued, overwritten>>
    BY DEF Start, Goto, diskVars
  <1>3. jobs'[j].state = "RUNNING" /\ \A m \in Calls : m # j => jobs'[m] = jobs[m]
    BY <1>1 DEF Start, IInv, TypeOK, JobRecords
  <1>4. jobs' \in [Calls -> JobRecords]
    <2>1. [jobs[j] EXCEPT !.state = "RUNNING"] \in JobRecords
      BY <1>1, Zenon DEF JobRecords
    <2>2. QED
      BY <1>1, <2>1 DEF Start, IInv, TypeOK
  <1>5. at'[n] = "run" /\ \A w \in Workers \ {n} : at'[w] = at[w]
    BY <1>1, <1>2 DEF IInv, TypeOK
  <1>6. TypeOK'
    BY <1>1, <1>2, <1>4 DEF IInv, TypeOK, Places
  <1>7. /\ Fresh' /\ JobsAreTold' /\ ToldOfOwn' /\ PendingIsUntaken'
        /\ PendingHasTimer' /\ TimersAreHome'
    BY <1>1, <1>2, <1>3, <1>5, ReportKeeps DEF Running, Workers
  <1>8. RunningHasJob' /\ WatcherAtWork' /\ LockIsHeld' /\ CallersAreIn' /\ StagedIsThere'
    BY <1>1, <1>2, <1>5
    DEF IInv, RunningHasJob, Running, WatcherAtWork, LockIsHeld, Locked, ProjectOf,
        CallersAreIn, StagedIsThere, Uncommitted, Written, Decided, Workers
  <1>9. RunsAreApart'
    <2>1. \A m \in Calls : runs[m] \in Calls \cup {None}
      BY DEF IInv, TypeOK, Workers
    <2>2. QED
      BY <1>2, <1>3, <2>1 DEF IInv, RunsAreApart
  <1>10. JobSpeaksForCaller'
    <2>1. \A m \in Calls : told[m] \in Calls \cup {None}
      BY DEF IInv, TypeOK
    <2>2. QED
      BY <1>2, <1>3, <2>1 DEF IInv, JobSpeaksForCaller
  <1>11. Carried'
    <2>1. known \subseteq Calls
      BY DEF IInv, TypeOK
    <2>2. QED
      BY <1>2, <1>3, <2>1 DEF IInv, Carried
  <1>12. QED
    BY <1>6, <1>7, <1>8, <1>9, <1>10, <1>11 DEF IInv

LEMMA FinishKeeps ==
  ASSUME IInv, NEW n \in Calls, Finish(n)
  PROVE  IInv'
  <1> DEFINE j == runs[n]
             place == IF code[n] = "COMMITTED_LOCAL" THEN "flag" ELSE "over"
  <1>1. /\ j \in Calls /\ at[n] = "finish" /\ n \in Workers /\ n # Watcher /\ Watcher \in Workers
        /\ code[n] \in Codes
    BY CallAssumption
    DEF Finish, IInv, TypeOK, RunningHasJob, Running, Workers
  <1>2. /\ at' = [at EXCEPT ![n] = place] /\ runs' = [runs EXCEPT ![n] = None]
        /\ code' = [code EXCEPT ![n] = "none"]
        /\ jobs' = [jobs EXCEPT ![j] = [state |-> "DONE", code |-> code[n]]]
        /\ UNCHANGED <<handler, told, pendingJob, lastTimer, known, retrying,
                       copy, file, holder, staged, committed, queued, overwritten>>
    BY DEF Finish, Goto, diskVars
  <1>. HIDE DEF place
  <1>3. /\ jobs'[j] = [state |-> "DONE", code |-> code[n]]
        /\ \A m \in Calls : m # j => jobs'[m] = jobs[m]
    BY <1>1, <1>2 DEF IInv, TypeOK
  <1>4. /\ at'[n] \in {"flag", "over"} /\ runs'[n] = None
        /\ \A w \in Workers \ {n} : at'[w] = at[w] /\ runs'[w] = runs[w] /\ code'[w] = code[w]
    BY <1>1, <1>2 DEF IInv, TypeOK, place
  <1>5. TypeOK'
    <2>1. [state |-> "DONE", code |-> code[n]] \in JobRecords
      BY <1>1 DEF JobRecords
    <2>2. jobs' \in [Calls -> JobRecords]
      BY <1>1, <1>2, <2>1 DEF IInv, TypeOK
    <2>3. at' \in [Workers -> Places] /\ runs' \in [Workers -> Calls \cup {None}]
      BY <1>1, <1>2 DEF IInv, TypeOK, Places, place
    <2>4. code' \in [Workers -> Codes]
      BY <1>1, <1>2 DEF IInv, TypeOK, Codes
    <2>5. QED
      BY <1>2, <2>2, <2>3, <2>4 DEF IInv, TypeOK
  <1>6. /\ Fresh' /\ JobsAreTold' /\ ToldOfOwn' /\ PendingIsUntaken'
        /\ PendingHasTimer' /\ TimersAreHome'
    BY <1>1, <1>2, <1>3, <1>4, ReportKeeps DEF Running, Workers
  <1>7. RunningHasJob'
    BY <1>4 DEF IInv, RunningHasJob, Running, Workers
  <1>8. WatcherAtWork' /\ LockIsHeld'
    BY <1>1, <1>2, <1>4 DEF IInv, WatcherAtWork, LockIsHeld, Locked, ProjectOf, Workers
  <1>9. CallersAreIn' /\ StagedIsThere'
    BY <1>1, <1>2, <1>4 DEF IInv, CallersAreIn, StagedIsThere, Uncommitted, Written, Workers
  <1>10. RunsAreApart'
    <2>1. \A m \in Calls \ {n} : runs[m] # j
      BY <1>1, CallAssumption DEF IInv, RunsAreApart
    <2>2. \A m \in Calls : runs[m] \in Calls \cup {None}
      BY DEF IInv, TypeOK, Workers
    <2>3. QED
      BY <1>1, <1>3, <1>4, <2>1, <2>2 DEF IInv, RunsAreApart, Workers
  <1>11. JobSpeaksForCaller'
    <2>. SUFFICES ASSUME NEW m \in Calls, told[m] # None, jobs'[told[m]].state = "DONE",
                         jobs'[told[m]].code \in Success
                  PROVE  m \in committed \cup overwritten
      BY <1>2 DEF JobSpeaksForCaller
    <2>1. CASE told[m] = j
      BY <1>1, <1>3, <2>1 DEF IInv, CallersAreIn, Decided
    <2>2. CASE told[m] # j
      <3>1. told[m] \in Calls
        BY DEF IInv, TypeOK
      <3>2. QED
        BY <1>3, <2>2, <3>1 DEF IInv, JobSpeaksForCaller
    <2>3. QED
      BY <2>1, <2>2
  <1>12. Carried'
    <2>. SUFFICES ASSUME NEW k \in known, jobs'[k].state \in Unfinished
                  PROVE  pendingJob[LangOf[k]] = k \/ \E m \in Calls : runs'[m] = k
      BY <1>2 DEF Carried
    <2>1. k \in Calls /\ k # j /\ jobs'[k] = jobs[k]
      BY <1>3 DEF IInv, TypeOK, Unfinished
    <2>2. CASE \E m \in Calls : runs[m] = k
      BY <1>4, <2>1, <2>2 DEF Workers
    <2>3. QED
      BY <2>1, <2>2 DEF IInv, Carried
  <1>13. QED
    BY <1>5, <1>6, <1>7, <1>8, <1>9, <1>10, <1>11, <1>12 DEF IInv

-----------------------------------------------------------------------------
(* After a restart no job waits, none is run, and none in the table is     *)
(* unfinished.                                                             *)
LEMMA CrashKeeps ==
  ASSUME IInv, Crash
  PROVE  IInv'
  <1>1. Watcher \in Workers /\ \A n \in Calls : n \in Workers /\ n # Watcher
    BY CallAssumption DEF Workers
  <1>2. /\ \A w \in Workers : at'[w] \in {"idle", "none", "over"} /\ runs'[w] = None
        /\ at'[Watcher] = "idle"
        /\ \A n \in Calls : at'[n] # "idle" /\ (at[n] = "none" => at'[n] = "none")
    BY <1>1 DEF Crash, Idle
  <1>3. /\ \A j \in Calls :
               \/ jobs'[j] = jobs[j]
               \/ /\ jobs[j].state \in Unfinished
                  /\ jobs'[j] = [state |-> "DONE", code |-> "JOB_INTERRUPTED"]
        /\ \A j \in known' : j \in known /\ jobs'[j].state \notin Unfinished
        /\ \A l \in Langs : pendingJob'[l] = None /\ lastTimer'[l] = None
        /\ UNCHANGED <<told, staged, committed, overwritten>>
    <2>1. \A j \in Calls : jobs'[j] = IF j \in known /\ jobs[j].state \in Unfinished
             THEN [state |-> "DONE", code |-> "JOB_INTERRUPTED"] ELSE jobs[j]
      BY DEF Crash
    <2>2. known' \subseteq known /\ known \subseteq Calls
      BY DEF Crash, IInv, TypeOK
    <2>3. \A j \in known' : j \in known /\ jobs'[j].state \notin Unfinished
      BY <2>1, <2>2 DEF Unfinished
    <2>4. \A l \in Langs : pendingJob'[l] = None /\ lastTimer'[l] = None
      BY DEF Crash
    <2>5. UNCHANGED <<told, staged, committed, overwritten>>
      BY DEF Crash, treeVars
    <2>6. QED
      BY <2>1, <2>3, <2>4, <2>5
  <1>4. TypeOK'
    <2>1. [state |-> "DONE", code |-> "JOB_INTERRUPTED"] \in JobRecords
      BY DEF JobRecords, Codes
    <2>2. jobs' \in [Calls -> JobRecords]
      BY <2>1 DEF Crash, IInv, TypeOK
    <2>3. copy' \in [Workers -> [Langs -> Entries]]
      BY DEF Crash, NoEntries, Entries
    <2>4. at' \in [Workers -> Places]
      BY DEF Crash, Places, Idle
    <2>5. QED
      BY <2>2, <2>3, <2>4 DEF Crash, IInv, TypeOK, Codes, treeVars
  <1>5. Fresh'
    <2>1. \A n \in Calls : handler'[n] # "returned" => handler[n] # "returned"
      BY DEF Crash
    <2>2. QED
      BY <1>2, <1>3, <2>1 DEF IInv, Fresh, Unfinished
  <1>6. JobsAreTold'
    BY <1>3 DEF IInv, JobsAreTold, Unfinished
  <1>7. ToldOfOwn'
    <2>1. \A n \in Calls : told[n] \in Calls \cup {None}
      BY DEF IInv, TypeOK
    <2>2. QED
      BY <1>3, <2>1 DEF IInv, ToldOfOwn
  <1>8. PendingIsUntaken' /\ PendingHasTimer' /\ TimersAreHome'
    BY <1>3 DEF PendingIsUntaken, PendingHasTimer, TimersAreHome
  <1>9. RunningHasJob' /\ RunsAreApart' /\ WatcherAtWork' /\ LockIsHeld'
    BY <1>1, <1>2 DEF RunningHasJob, RunsAreApart, WatcherAtWork, LockIsHeld, Running, Locked
  <1>10. CallersAreIn' /\ StagedIsThere'
    <2>1. CallersAreIn'
      BY <1>1, <1>2 DEF CallersAreIn
    <2>2. \A n \in Calls : handler[n] \notin {"new", "refused"} => handler'[n] \notin {"new", "refused"}
      BY DEF Crash
    <2>3. QED
      BY <1>3, <2>1, <2>2 DEF IInv, StagedIsThere, Uncommitted, Written
  <1>11. JobSpeaksForCaller'
    <2>1. \A n \in Calls : told[n] \in Calls \cup {None}
      BY DEF IInv, TypeOK
    <2>2. QED
      BY <1>3, <2>1 DEF IInv, JobSpeaksForCaller, Success
  <1>12. Carried'
    BY <1>3 DEF Carried
  <1>13. QED
    BY <1>4, <1>5, <1>6, <1>7, <1>8, <1>9, <1>10, <1>11, <1>12 DEF IInv

(* A reset after a push takes no write of a commit under way, since it has *)
(* the lock of the project, and none that is committed.                    *)
LEMMA ResetKeeps ==
  ASSUME IInv, NEW l \in Langs, QueueReset(l) \/ ResetAfterReceive(l)
  PROVE  IInv'
  <1>1. /\ UNCHANGED <<handler, jobVars, workVars, file, holder, committed>>
        /\ queued' \in SUBSET Langs
        /\ \/ UNCHANGED <<staged, overwritten>>
           \/ /\ holder[l] = None /\ staged' = [staged EXCEPT ![l] = {}]
              /\ \E gone \in SUBSET staged[l] : overwritten' = overwritten \cup gone
    BY DEF QueueReset, ResetAfterReceive, HardReset, IInv, TypeOK
  <1>2. PICK gone \in SUBSET staged[l] : overwritten' = overwritten \cup gone
    <2>1. overwritten = overwritten \cup {}
      OBVIOUS
    <2>2. QED
      BY <1>1, <2>1
  <1>3. staged \in [Langs -> SUBSET Calls]
    BY DEF IInv, TypeOK
  <1>4. TypeOK'
    BY <1>1, <1>2, <1>3 DEF IInv, TypeOK, jobVars, workVars
  <1>5. /\ Fresh' /\ JobsAreTold' /\ ToldOfOwn' /\ PendingIsUntaken' /\ PendingHasTimer'
        /\ TimersAreHome' /\ RunningHasJob' /\ RunsAreApart' /\ WatcherAtWork'
        /\ LockIsHeld' /\ Carried'
    BY <1>1 DEF IInv, Fresh, JobsAreTold, ToldOfOwn, PendingIsUntaken, PendingHasTimer,
       TimersAreHome, RunningHasJob, RunsAreApart, WatcherAtWork, LockIsHeld, Carried,
       ProjectOf, jobVars, workVars
  <1>6. JobSpeaksForCaller'
    BY <1>1, <1>2 DEF IInv, JobSpeaksForCaller, jobVars
  <1>7. CallersAreIn'
    <2>1. \A w \in Calls : at[w] = "commit" => holder[LangOf[w]] # None
      BY CallAssumption DEF IInv, LockIsHeld, Locked, ProjectOf, Workers
    <2>2. \A w \in Calls : at[w] = "commit" => staged'[LangOf[w]] = staged[LangOf[w]]
      BY <1>1, <1>3, <2>1, CallAssumption
    <2>3. QED
      BY <1>1, <1>2, <2>2 DEF IInv, CallersAreIn, jobVars, workVars
  <1>8. StagedIsThere'
    <2>1. CASE UNCHANGED <<staged, overwritten>>
      BY <1>1, <2>1 DEF IInv, StagedIsThere, Uncommitted, Written
    <2>2. CASE staged' = [staged EXCEPT ![l] = {}]
      BY <1>1, <1>2, <1>3, <2>2 DEF IInv, StagedIsThere, Uncommitted, Written
    <2>3. QED
      BY <1>1, <2>1, <2>2
  <1>9. QED
    BY <1>4, <1>5, <1>6, <1>7, <1>8 DEF IInv

LEMMA NextPreserves == IInv /\ [Next]_vars => IInv'
  <1>. SUFFICES ASSUME IInv, [Next]_vars PROVE IInv'
    OBVIOUS
  <1>. USE CallAssumption
  <1>1. ASSUME NEW n \in Calls, Land(n) \/ LandTimeout(n)
        PROVE  IInv'
    <2>1. /\ handler[n] = "new"
          /\ handler' \in {[handler EXCEPT ![n] = "landed"], [handler EXCEPT ![n] = "refused"]}
          /\ UNCHANGED <<jobVars, workVars, diskVars>>
      BY <1>1 DEF Land, LandTimeout
    <2>2. TypeOK' /\ Fresh'
      BY <2>1 DEF IInv, TypeOK, Fresh, jobVars, workVars, diskVars
    <2>3. /\ JobsAreTold' /\ ToldOfOwn' /\ PendingIsUntaken' /\ PendingHasTimer'
          /\ TimersAreHome' /\ RunningHasJob' /\ RunsAreApart' /\ WatcherAtWork'
          /\ LockIsHeld' /\ CallersAreIn' /\ JobSpeaksForCaller' /\ Carried'
      BY <2>1 DEF IInv, JobsAreTold, ToldOfOwn, PendingIsUntaken, PendingHasTimer,
         TimersAreHome, RunningHasJob, RunsAreApart, WatcherAtWork, LockIsHeld,
         CallersAreIn, JobSpeaksForCaller, Carried, ProjectOf, jobVars, workVars, diskVars
    <2>4. StagedIsThere'
      <3>1. \A l \in Langs : Written(l) \subseteq Written(l)'
        BY <2>1 DEF IInv, TypeOK, Written
      <3>2. QED
        BY <2>1, <3>1 DEF IInv, StagedIsThere, Uncommitted, diskVars
    <2>5. QED
      BY <2>2, <2>3, <2>4 DEF IInv
  <1>2. ASSUME NEW n \in Calls, NEW debounce \in BOOLEAN, CommitProject(n, debounce)
        PROVE  IInv'
    BY <1>2, CallKeeps
  <1>3. ASSUME NEW n \in Calls, Expire(n)
        PROVE  IInv'
    BY <1>3 DEF Expire, IInv, TypeOK, Fresh, JobsAreTold, ToldOfOwn,
       PendingIsUntaken, PendingHasTimer, TimersAreHome, RunningHasJob, RunsAreApart,
       WatcherAtWork, LockIsHeld, CallersAreIn, StagedIsThere, Uncommitted, Written,
       JobSpeaksForCaller, Carried, ProjectOf, Running, Locked, Decided, Workers, Places, Goto, jobVars, workVars, diskVars
  <1>4. ASSUME NEW n \in Calls, Fire(n) \/ Start(n) \/ Finish(n)
        PROVE  IInv'
    BY <1>4, FireKeeps, StartKeeps, FinishKeeps
  <1>5. ASSUME NEW w \in Workers, Work(w)
        PROVE  IInv'
    BY <1>5, WorkKeepsTables, WorkKeepsCallers, WorkKeepsLock DEF IInv
  <1>6. ASSUME NEW l \in Langs, RetryStuckCommit(l)
        PROVE  IInv'
    BY <1>6 DEF RetryStuckCommit, IInv, TypeOK, Fresh, JobsAreTold, ToldOfOwn,
       PendingIsUntaken, PendingHasTimer, TimersAreHome, RunningHasJob, RunsAreApart,
       WatcherAtWork, LockIsHeld, CallersAreIn, StagedIsThere, Uncommitted, Written,
       JobSpeaksForCaller, Carried, ProjectOf, Running, Locked, Decided, Workers, Places, Goto, jobVars, workVars, diskVars
  <1>7. ASSUME NEW l \in Langs, OtherTakes(l) \/ OtherLeaves(l)
        PROVE  IInv'
    <2>1. /\ holder[l] \in {None, Other}
          /\ holder' \in {[holder EXCEPT ![l] = Other], [holder EXCEPT ![l] = None]}
          /\ UNCHANGED <<handler, jobVars, workVars, file, treeVars>>
      BY <1>7 DEF OtherTakes, OtherLeaves
    <2>2. TypeOK'
      BY <2>1 DEF IInv, TypeOK, jobVars, workVars, treeVars
    <2>3. LockIsHeld'
      <3>1. \A w \in Workers : w # Other /\ w # None
        BY DEF Workers
      <3>2. \A w \in Workers : at[w] \in Locked => ProjectOf(w) # l
        BY <2>1, <3>1 DEF IInv, LockIsHeld
      <3>3. \A m \in Langs \ {l} : holder'[m] = holder[m]
        BY <2>1 DEF IInv, TypeOK
      <3>4. \A w \in Workers : at[w] \in Locked => ProjectOf(w) \in Langs
        BY DEF IInv, WatcherAtWork, ProjectOf, Workers, Locked
      <3>5. UNCHANGED <<at, retrying>>
        BY <2>1 DEF workVars
      <3>6. QED
        BY <3>2, <3>3, <3>4, <3>5 DEF IInv, LockIsHeld, ProjectOf
    <2>4. /\ Fresh' /\ JobsAreTold' /\ ToldOfOwn' /\ PendingIsUntaken' /\ PendingHasTimer'
          /\ TimersAreHome' /\ RunningHasJob' /\ RunsAreApart' /\ WatcherAtWork'
          /\ CallersAreIn' /\ StagedIsThere' /\ JobSpeaksForCaller' /\ Carried'
      BY <2>1 DEF IInv, Fresh, JobsAreTold, ToldOfOwn, PendingIsUntaken, PendingHasTimer,
         TimersAreHome, RunningHasJob, RunsAreApart, WatcherAtWork,
         CallersAreIn, StagedIsThere, Uncommitted, Written, JobSpeaksForCaller, Carried,
         ProjectOf, jobVars, workVars, treeVars
    <2>5. QED
      BY <2>2, <2>3, <2>4 DEF IInv
  <1>8. ASSUME NEW l \in Langs, QueueReset(l) \/ ResetAfterReceive(l)
        PROVE  IInv'
    BY <1>8, ResetKeeps
  <1>9. CASE Crash
    BY <1>9, CrashKeeps
  <1>10. CASE UNCHANGED vars
    BY <1>10 DEF vars, IInv, TypeOK, Fresh, JobsAreTold, ToldOfOwn,
       PendingIsUntaken, PendingHasTimer, TimersAreHome, RunningHasJob, RunsAreApart,
       WatcherAtWork, LockIsHeld, CallersAreIn, StagedIsThere, Uncommitted, Written,
       JobSpeaksForCaller, Carried, ProjectOf
  <1>11. QED
    BY <1>1, <1>2, <1>3, <1>4, <1>5, <1>6, <1>7, <1>8, <1>9, <1>10 DEF Next, Request, Timer

(* The invariant holds in every behaviour of the scheduler.                *)
THEOREM Invariance == Spec => []IInv
  <1>1. QED
    BY InitEstablishes, NextPreserves, PTL DEF Spec

(* Type correctness of the scheduler's tables, threads and files.          *)
THEOREM TypeCorrect == Spec => []TypeOK
  <1>1. IInv => TypeOK
    BY DEF IInv
  <1>2. QED
    BY <1>1, Invariance, PTL

(* A success that a client reads from the job it was given by              *)
(* commit_project is a commit that contains its write, or a reset had      *)
(* taken the write off the disk before the commit staged.                  *)
THEOREM JobsSpeak == Spec => []JobSpeaksForCaller
  <1>1. IInv => JobSpeaksForCaller
    BY DEF IInv
  <1>2. QED
    BY <1>1, Invariance, PTL

(* An unfinished job that jobs.json shows waits with a live timer, or is   *)
(* in the hands of exactly one thread, across restarts too.                *)
THEOREM JobsCarried == Spec => []JobIsCarried
  <1>1. ASSUME IInv PROVE JobIsCarried
    <2>. SUFFICES ASSUME NEW j \in known, jobs[j].state \in Unfinished
                  PROVE  Waiting(j) \/ AtWork(j)
      BY DEF JobIsCarried, Unfinished
    <2>1. j \in Calls /\ LangOf[j] \in Langs
      BY <1>1, CallAssumption DEF IInv, TypeOK
    <2>2. CASE pendingJob[LangOf[j]] = j
      BY <1>1, <2>1, <2>2, CallAssumption DEF IInv, PendingHasTimer, Waiting
    <2>3. CASE \E n \in Calls : runs[n] = j
      BY <1>1, <2>1, <2>3, CallAssumption
      DEF IInv, RunningHasJob, RunsAreApart, Running, AtWork
    <2>4. QED
      BY <1>1, <2>2, <2>3 DEF IInv, Carried
  <1>2. QED
    BY <1>1, Invariance, PTL

-----------------------------------------------------------------------------
(* The scheduler keeps the promise of commit_project.  What is still to be *)
(* known is that a thread finds the job it has popped not begun, and from  *)
(* then on begun, whatever it waits for in between, ...                    *)
RunsInOrder == \A n \in Calls : runs[n] # None =>
    jobs[runs[n]].state = IF at[n] = "start" THEN "PENDING" ELSE "RUNNING"

(* ... and has a code for it once the commit is over.                      *)
ResultIsKnown == \A n \in Calls : at[n] \in Decided => code[n] \in Codes \ {"none", "JOB_INTERRUPTED"}

PInv == IInv /\ RunsInOrder /\ ResultIsKnown

(* What no step of the timers but the ones below does.                     *)
Steady ==
    /\ UNCHANGED <<told, jobs, runs>>
    /\ \A n \in Calls : runs[n] # None => (at[n] = "start" <=> at'[n] = "start")

LEMMA SteadyKeepsOrder == ASSUME PInv, Steady PROVE RunsInOrder'
  BY DEF Steady, PInv, RunsInOrder

LEMMA WorkIsSteady == ASSUME PInv, NEW w \in Workers, Work(w) PROVE Steady
  <1>1. /\ UNCHANGED <<told, jobs, runs>>
        /\ \A m \in Workers \ {w} : at'[m] = at[m]
        /\ at[w] # "start" /\ at'[w] # "start"
    BY WorkMovesOne DEF PInv, AtWorkPlaces
  <1>2. QED
    BY <1>1 DEF Steady, Workers

LEMMA OthersAreSteady ==
  ASSUME PInv,
         \/ \E n \in Calls : Land(n) \/ LandTimeout(n) \/ Expire(n)
         \/ \E l \in Langs : RetryStuckCommit(l) \/ OtherTakes(l) \/ OtherLeaves(l)
         \/ UNCHANGED vars
  PROVE  Steady /\ UNCHANGED <<committed, overwritten>>
  <1>1. CASE \E n \in Calls : Land(n) \/ LandTimeout(n)
    BY <1>1 DEF Land, LandTimeout, Steady, jobVars, workVars, diskVars
  <1>2. CASE \E n \in Calls : Expire(n)
    BY <1>2 DEF Expire, Goto, Steady, PInv, IInv, TypeOK, Workers, jobVars, diskVars
  <1>3. CASE \E l \in Langs : RetryStuckCommit(l)
    <2>1. \A n \in Calls : at'[n] = at[n]
      BY <1>3, CallAssumption DEF RetryStuckCommit, Goto, PInv, IInv, TypeOK, Workers
    <2>2. QED
      BY <1>3, <2>1 DEF RetryStuckCommit, Steady, jobVars, diskVars
  <1>4. CASE \E l \in Langs : OtherTakes(l) \/ OtherLeaves(l)
    BY <1>4 DEF OtherTakes, OtherLeaves, Steady, jobVars, workVars, treeVars
  <1>5. CASE UNCHANGED vars
    BY <1>5 DEF vars, Steady
  <1>6. QED
    BY <1>1, <1>2, <1>3, <1>4, <1>5

(* A call opens a job that did not exist, or joins one that waits.         *)
LEMMA CallPromises ==
  ASSUME PInv, NEW n \in Calls, NEW debounce \in BOOLEAN, CommitProject(n, debounce)
  PROVE  RunsInOrder' /\ (Promise!Open(n) \/ \E j \in Calls : Promise!Join(n, j))
  <1> DEFINE l == LangOf[n]
  <1>1. l \in Langs /\ n \in Workers /\ handler[n] = "landed"
    BY CallAssumption DEF CommitProject, Workers
  <1>2. told[n] = None /\ at[n] = "none" /\ jobs[n].state = "none" /\ runs[n] = None
    BY <1>1 DEF PInv, IInv, Fresh, RunningHasJob, Running
  <1>3. ASSUME NEW m \in Calls, runs[m] # None
        PROVE  at'[m] = at[m] /\ jobs'[runs[m]] = jobs[runs[m]] /\ runs'[m] = runs[m]
    <2>1. m # n /\ m \in Workers /\ at[m] # "armed" /\ at[m] \in Running
      BY <1>2, <1>3 DEF PInv, IInv, RunningHasJob, Running, Workers
    <2>2. at'[m] = at[m]
      BY <2>1 DEF CommitProject, Cancelled
    <2>3. runs[m] \in Calls /\ runs[m] # n
      BY <1>2, <1>3, <2>1 DEF PInv, IInv, TypeOK, RunsAreApart
    <2>4. jobs'[runs[m]] = jobs[runs[m]] /\ runs' = runs
      BY <2>3 DEF CommitProject, PInv, IInv, TypeOK
    <2>5. QED
      BY <2>2, <2>4
  <1>4. RunsInOrder'
    <2>1. UNCHANGED runs
      BY DEF CommitProject
    <2>2. QED
      BY <1>3, <2>1 DEF PInv, RunsInOrder
  <1>5. CASE pendingJob[l] # None
    <2>1. pendingJob[l] \in Calls /\ jobs[pendingJob[l]].state = "PENDING"
      BY <1>1, <1>5 DEF PInv, IInv, TypeOK, PendingIsUntaken
    <2>2. told' = [told EXCEPT ![n] = pendingJob[l]] /\ UNCHANGED <<jobs, committed, overwritten>>
      BY <1>5 DEF CommitProject, diskVars
    <2>3. Promise!Join(n, pendingJob[l])
      BY <1>2, <2>1, <2>2 DEF Promise!Join
    <2>4. QED
      BY <1>4, <2>1, <2>3
  <1>6. CASE pendingJob[l] = None
    <2>1. /\ told' = [told EXCEPT ![n] = n] /\ jobs' = [jobs EXCEPT ![n].state = "PENDING"]
          /\ UNCHANGED <<committed, overwritten>>
      BY <1>6 DEF CommitProject, diskVars
    <2>2. QED
      BY <1>2, <1>4, <2>1 DEF Promise!Open
  <1>7. QED
    BY <1>5, <1>6

LEMMA FirePromises ==
  ASSUME PInv, NEW n \in Calls, Fire(n)
  PROVE  RunsInOrder' /\ UNCHANGED <<told, jobs, committed, overwritten>>
  <1> DEFINE l == LangOf[n]
             j == pendingJob[l]
  <1>1. /\ l \in Langs /\ n \in Workers
        /\ runs' = [runs EXCEPT ![n] = j]
        /\ at' = [at EXCEPT ![n] = IF j = None THEN "over" ELSE "start"]
        /\ UNCHANGED <<told, jobs, committed, overwritten>>
    BY CallAssumption DEF Fire, Goto, Workers, diskVars
  <1>2. j # None => jobs[j].state = "PENDING"
    BY <1>1 DEF PInv, IInv, PendingIsUntaken
  <1>3. ASSUME NEW m \in Calls, runs'[m] # None
        PROVE  jobs[runs'[m]].state = IF at'[m] = "start" THEN "PENDING" ELSE "RUNNING"
    <2>1. m \in Workers
      BY DEF Workers
    <2>2. CASE m = n
      BY <1>1, <1>2, <1>3, <2>1, <2>2 DEF PInv, IInv, TypeOK
    <2>3. CASE m # n
      BY <1>1, <1>3, <2>1, <2>3 DEF PInv, IInv, TypeOK, RunsInOrder
    <2>4. QED
      BY <2>2, <2>3
  <1>4. QED
    BY <1>1, <1>3 DEF RunsInOrder

LEMMA StartPromises ==
  ASSUME PInv, NEW n \in Calls, Start(n)
  PROVE  RunsInOrder' /\ \E j \in Calls : Promise!Run(j)
  <1> DEFINE j == runs[n]
  <1>1. /\ j \in Calls /\ j # None /\ at[n] = "start" /\ n \in Workers
        /\ jobs[j] \in JobRecords
    BY CallAssumption DEF Start, PInv, IInv, TypeOK, RunningHasJob, Running, Workers
  <1>2. /\ jobs' = [jobs EXCEPT ![j].state = "RUNNING"] /\ at' = [at EXCEPT ![n] = "run"]
        /\ UNCHANGED <<told, committed, overwritten, runs>>
    BY DEF Start, Goto, diskVars
  <1>3. jobs[j].state = "PENDING"
    BY <1>1 DEF PInv, RunsInOrder
  <1>4. Promise!Run(j)
    BY <1>2, <1>3 DEF Promise!Run
  <1>5. jobs'[j].state = "RUNNING" /\ \A k \in Calls \ {j} : jobs'[k] = jobs[k]
    BY <1>1, <1>2 DEF PInv, IInv, TypeOK, JobRecords
  <1>6. at'[n] = "run" /\ \A m \in Calls \ {n} : at'[m] = at[m] /\ runs[m] # j
    BY <1>1, <1>2 DEF PInv, IInv, TypeOK, RunsAreApart, Workers
  <1>7. \A m \in Calls : runs[m] \in Calls \cup {None}
    BY DEF PInv, IInv, TypeOK, Workers
  <1>8. RunsInOrder'
    BY <1>2, <1>5, <1>6, <1>7 DEF PInv, RunsInOrder
  <1>9. QED
    BY <1>1, <1>4, <1>8

LEMMA FinishPromises ==
  ASSUME PInv, NEW n \in Calls, Finish(n)
  PROVE  RunsInOrder'
         /\ \E j \in Calls : \E c \in Codes \ {"none", "JOB_INTERRUPTED"} : Promise!Report(j, c)
  <1> DEFINE j == runs[n]
  <1>1. /\ j \in Calls /\ j # None /\ at[n] = "finish" /\ n \in Workers /\ code[n] \in Codes
    BY CallAssumption DEF Finish, PInv, IInv, TypeOK, RunningHasJob, Running, Workers
  <1>2. /\ jobs' = [jobs EXCEPT ![j] = [state |-> "DONE", code |-> code[n]]]
        /\ runs' = [runs EXCEPT ![n] = None]
        /\ UNCHANGED <<told, committed, overwritten>>
        /\ \A m \in Calls \ {n} : at'[m] = at[m]
    BY DEF Finish, Goto, diskVars, PInv, IInv, TypeOK, Workers
  <1>3. jobs[j].state = "RUNNING"
    BY <1>1 DEF PInv, RunsInOrder
  <1>4. code[n] \in Success => \A m \in Calls : told[m] = j => m \in committed \cup overwritten
    BY <1>1 DEF PInv, IInv, CallersAreIn, Decided, Workers
  <1>5. code[n] \notin {"none", "JOB_INTERRUPTED"}
    BY <1>1 DEF PInv, ResultIsKnown, Decided
  <1>6. Promise!Report(j, code[n])
    BY <1>2, <1>3, <1>4 DEF Promise!Report
  <1>7. \A k \in Calls \ {j} : jobs'[k] = jobs[k]
    BY <1>1, <1>2 DEF PInv, IInv, TypeOK
  <1>8. /\ runs'[n] = None
        /\ \A m \in Calls \ {n} : runs'[m] = runs[m] /\ runs[m] # j /\ runs[m] \in Calls \cup {None}
    BY <1>1, <1>2 DEF PInv, IInv, TypeOK, RunsAreApart, Workers
  <1>9. RunsInOrder'
    BY <1>2, <1>7, <1>8 DEF PInv, RunsInOrder
  <1>10. QED
    BY <1>1, <1>5, <1>6, <1>9

LEMMA ResultStaysKnown == ASSUME PInv, [Next]_vars PROVE ResultIsKnown'
  <1> USE CallAssumption DEF ResultIsKnown, Decided
  <1>1. ASSUME NEW n \in Calls, at'[n] = at[n], code'[n] = code[n]
        PROVE  at'[n] \in Decided => code'[n] \in Codes \ {"none", "JOB_INTERRUPTED"}
    BY <1>1 DEF PInv
  <1>2. ASSUME NEW w \in Workers, Work(w) PROVE ResultIsKnown'
    <2>1. \A m \in Calls \ {w} : at'[m] = at[m] /\ code'[m] = code[m]
      BY <1>2, WorkMovesOne DEF PInv, Workers
    <2>2. ASSUME w \in Calls, at'[w] \in Decided
          PROVE  code'[w] \in Codes \ {"none", "JOB_INTERRUPTED"}
      <3> USE DEF PInv, IInv, TypeOK, Workers, Goto, Result, Codes
      <3>1. CASE ContributorUnset(w) \/ CommitBusy(w)
        BY <2>2, <3>1 DEF ContributorUnset, CommitBusy, EndsWith
      <3>2. CASE BeginCommit(w)
        BY <2>2, <3>2 DEF BeginCommit
      <3>3. CASE \E c \in Codes : MakeCommit(w, c)
        BY <2>2, <3>3 DEF MakeCommit, Outcomes
      <3>4. CASE LoadFile(w)
        BY <2>2, <3>4 DEF LoadFile, LoadsTo
      <3>5. CASE CountFailures(w)
        BY <2>2, <3>5 DEF CountFailures, SaveFile
      <3>6. CASE StampCommit(w) \/ SetPendingPush(w)
        BY <2>2, <3>6 DEF StampCommit, SetPendingPush, SaveFile
      <3>7. QED
        BY <1>2, <3>1, <3>2, <3>3, <3>4, <3>5, <3>6 DEF Work
    <2>3. QED
      BY <1>1, <2>1, <2>2
  <1>3. ASSUME NEW n \in Calls, NEW debounce \in BOOLEAN, CommitProject(n, debounce)
        PROVE  ResultIsKnown'
    <2>1. \A m \in Calls : at'[m] = at[m] \/ at'[m] \in {"armed", "due", "cancelled"}
      BY <1>3 DEF CommitProject, Cancelled, Workers
    <2>2. UNCHANGED code
      BY <1>3 DEF CommitProject
    <2>3. QED
      BY <1>1, <2>1, <2>2
  <1>4. ASSUME NEW n \in Calls, Expire(n) \/ Fire(n) \/ Start(n) \/ Finish(n)
        PROVE  ResultIsKnown'
    <2>1. /\ at'[n] \in {"due", "over", "start", "run", "flag"}
          /\ \A m \in Calls \ {n} : at'[m] = at[m]
          /\ \A m \in Calls \ {n} : code'[m] = code[m]
      BY <1>4 DEF Expire, Fire, Start, Finish, Goto, PInv, IInv, TypeOK, Workers
    <2>2. QED
      BY <1>1, <2>1
  <1>5. CASE \E l \in Langs : RetryStuckCommit(l)
    <2>1. \A m \in Calls : at'[m] = at[m] /\ code'[m] = code[m]
      BY <1>5 DEF RetryStuckCommit, Goto, PInv, IInv, TypeOK, Workers
    <2>2. QED
      BY <1>1, <2>1
  <1>6. CASE \/ \E n \in Calls : Land(n) \/ LandTimeout(n)
             \/ \E l \in Langs : \/ OtherTakes(l) \/ OtherLeaves(l)
                                 \/ QueueReset(l) \/ ResetAfterReceive(l)
             \/ UNCHANGED vars
    <2>1. UNCHANGED <<at, code>>
      BY <1>6 DEF Land, LandTimeout, OtherTakes, OtherLeaves, QueueReset, ResetAfterReceive, vars,
         workVars
    <2>2. QED
      BY <1>1, <2>1
  <1>7. CASE Crash
    BY <1>7 DEF Crash, Idle, Workers
  <1>8. QED
    BY <1>2, <1>3, <1>4, <1>5, <1>6, <1>7 DEF Next, Request, Timer

(* A commit only adds to the history, and nothing that was overwritten; a  *)
(* reset it absorbs takes nothing out of it.                               *)
LEMMA WorkPromises ==
  ASSUME PInv, NEW w \in Workers, Work(w)
  PROVE  Promise!Commit \/ Promise!Overwrite \/ UNCHANGED Promise!vars
  <1>1. UNCHANGED <<told, jobs>>
    BY WorkIsSteady DEF Steady
  <1>2. ProjectOf(w) \in Langs
    <2>1. at[w] # "idle"
      BY WorkMovesOne DEF PInv, AtWorkPlaces
    <2>2. QED
      BY <2>1, CallAssumption DEF PInv, IInv, WatcherAtWork, ProjectOf, Workers
  <1>3. CASE \E c \in Codes : MakeCommit(w, c)
    <2>1. staged[ProjectOf(w)] \in SUBSET (Calls \ overwritten)
      BY <1>2 DEF PInv, IInv, StagedIsThere, Uncommitted, Written
    <2>2. /\ overwritten' = overwritten
          /\ committed' \in {committed, committed \cup staged[ProjectOf(w)]}
      BY <1>3 DEF MakeCommit
    <2>3. QED
      BY <1>1, <2>1, <2>2 DEF Promise!Commit, Promise!vars
  <1>4. CASE BeginCommit(w)
    <2>1. PICK gone \in SUBSET Uncommitted(ProjectOf(w)) : overwritten' = overwritten \cup gone
      BY <1>4 DEF BeginCommit, HardReset
    <2>2. gone \in SUBSET (Calls \ committed)
      BY DEF Uncommitted, Written
    <2>3. UNCHANGED committed
      BY <1>4 DEF BeginCommit
    <2>4. QED
      BY <1>1, <2>1, <2>2, <2>3 DEF Promise!Overwrite
  <1>5. CASE ~BeginCommit(w) /\ ~\E c \in Codes : MakeCommit(w, c)
    BY <1>1, <1>5
    DEF Work, ContributorUnset, CommitBusy, EndsWith, LoadFile, CountFailures,
        StampCommit, SetPendingPush, diskVars, treeVars, Promise!vars
  <1>6. QED
    BY <1>3, <1>4, <1>5

LEMMA ResetPromises ==
  ASSUME PInv, NEW l \in Langs, QueueReset(l) \/ ResetAfterReceive(l)
  PROVE  Steady /\ (Promise!Overwrite \/ UNCHANGED Promise!vars)
  <1>1. UNCHANGED <<told, jobs, runs, at, committed>>
    BY DEF QueueReset, ResetAfterReceive, jobVars, workVars
  <1>2. CASE QueueReset(l)
    BY <1>1, <1>2 DEF QueueReset, Steady, Promise!vars
  <1>3. CASE ResetAfterReceive(l)
    <2>1. PICK gone \in SUBSET staged[l] : overwritten' = overwritten \cup gone
      BY <1>3 DEF ResetAfterReceive, HardReset
    <2>2. gone \in SUBSET (Calls \ committed)
      BY DEF PInv, IInv, StagedIsThere, Uncommitted, Written
    <2>3. QED
      BY <1>1, <2>1, <2>2 DEF Promise!Overwrite, Steady
  <1>4. QED
    BY <1>2, <1>3

LEMMA CrashPromises ==
  ASSUME PInv, Crash
  PROVE  RunsInOrder' /\ Promise!Restart
  <1>1. RunsInOrder'
    BY DEF Crash, RunsInOrder, Workers
  <1>2. DEFINE js == {j \in known : jobs[j].state \in Unfinished}
  <1>3. js \in SUBSET {j \in Calls : jobs[j].state \in {"PENDING", "RUNNING"}}
    BY DEF PInv, IInv, TypeOK, Unfinished
  <1>4. jobs' = [j \in Calls |-> IF j \in js THEN [state |-> "DONE", code |-> "JOB_INTERRUPTED"]
                                             ELSE jobs[j]]
    BY DEF Crash
  <1>5. UNCHANGED <<told, committed, overwritten>>
    BY DEF Crash, treeVars
  <1>6. QED
    BY <1>1, <1>3, <1>4, <1>5 DEF Promise!Restart

LEMMA NextPromises ==
  PInv /\ [Next]_vars => PInv' /\ [Promise!PromiseNext]_(Promise!vars)
  <1> SUFFICES ASSUME PInv, [Next]_vars
               PROVE  RunsInOrder' /\ (Promise!PromiseNext \/ UNCHANGED Promise!vars)
    BY NextPreserves, ResultStaysKnown DEF PInv
  <1> USE DEF Promise!PromiseNext
  <1>1. ASSUME NEW n \in Calls, NEW debounce \in BOOLEAN, CommitProject(n, debounce)
        PROVE  RunsInOrder' /\ Promise!PromiseNext
    BY <1>1, CallPromises
  <1>2. ASSUME NEW n \in Calls, Fire(n)
        PROVE  RunsInOrder' /\ UNCHANGED Promise!vars
    BY <1>2, FirePromises DEF Promise!vars
  <1>3. ASSUME NEW n \in Calls, Start(n) PROVE RunsInOrder' /\ Promise!PromiseNext
    BY <1>3, StartPromises
  <1>4. ASSUME NEW n \in Calls, Finish(n) PROVE RunsInOrder' /\ Promise!PromiseNext
    BY <1>4, FinishPromises
  <1>5. ASSUME NEW w \in Workers, Work(w)
        PROVE  RunsInOrder' /\ (Promise!PromiseNext \/ UNCHANGED Promise!vars)
    BY <1>5, WorkIsSteady, SteadyKeepsOrder, WorkPromises
  <1>6. CASE Crash
    BY <1>6, CrashPromises
  <1>7. CASE \/ \E n \in Calls : Land(n) \/ LandTimeout(n) \/ Expire(n)
             \/ \E l \in Langs : RetryStuckCommit(l) \/ OtherTakes(l) \/ OtherLeaves(l)
             \/ UNCHANGED vars
    BY <1>7, OthersAreSteady, SteadyKeepsOrder DEF Steady, Promise!vars
  <1>8. ASSUME NEW l \in Langs, QueueReset(l) \/ ResetAfterReceive(l)
        PROVE  RunsInOrder' /\ (Promise!PromiseNext \/ UNCHANGED Promise!vars)
    BY <1>8, ResetPromises, SteadyKeepsOrder
  <1>9. QED
    BY <1>1, <1>2, <1>3, <1>4, <1>5, <1>6, <1>7, <1>8 DEF Next, Request, Timer

(* A job is run at most once, with everybody who was told of it told       *)
(* before; its result is final, no success is taken back, and a success    *)
(* has the writes of all of them, but those a reset took before they were  *)
(* committed.                                                              *)
THEOREM PromiseKept == Spec => KeepsPromise
  <1>1. Init => PInv
    BY InitEstablishes, CallAssumption
    DEF PInv, Init, RunsInOrder, ResultIsKnown, Decided, Idle, Workers
  <1>2. Init => Promise!PromiseInit
    BY DEF Init, Promise!PromiseInit
  <1>3. QED
    BY <1>1, <1>2, NextPromises, PTL DEF Spec, KeepsPromise, Promise!PromiseSpec
=============================================================================
