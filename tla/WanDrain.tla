------------------------------ MODULE WanDrain ------------------------------
(***************************************************************************)
(* From a commit to the git host (azt_collabd/scheduler.py, wan_backoff.py,*)
(* push_repo and sync_repo of repo.py).  A drain is a thread: the watcher  *)
(* starts one on every tick that finds the network, a user's nudge another.*)
(* It collects the projects to push, passes over those whose backoff is    *)
(* not over, claims one after the other in _wan_inflight, pushes it and    *)
(* keeps the books.  The Sync request pushes too, without a claim.  A push *)
(* the daemon was killed in is counted at the next start; a project whose  *)
(* pushes keep being killed is escalated: pushed again and again in one    *)
(* visit, whatever its backoff says.                                       *)
(*                                                                         *)
(* wan_state.json and projects.json are loaded, changed and saved whole,   *)
(* without a lock, by all of these threads.                                *)
(***************************************************************************)
EXTENDS Naturals, FiniteSets

CONSTANTS
    Langs,        \* the projects
    Threads,      \* bound: the threads at work at a time
    Runs,         \* bound: [Threads -> SUBSET Kinds] what a thread is used for
    MaxCommits,   \* bound: commits per project
    MaxCrashes,   \* bound: deaths of the daemon
    Threshold,    \* _ESCALATE_INTERRUPT_THRESHOLD
    MaxVisits,    \* _ESCALATE_MAX_VISITS
    MaxIters      \* _RUN_TO_COMPLETION_MAX_ITERS

ASSUME BoundAssumption ==
    /\ MaxCommits \in Nat /\ MaxCrashes \in Nat
    /\ Threshold \in Nat \ {0} /\ MaxVisits \in Nat \ {0} /\ MaxIters \in Nat \ {0}

VARIABLES
    head,         \* [Langs -> Nat] the commits a project has
    origin,       \* [Langs -> Nat] those of them the git host has
    flagged,      \* projects.json: the projects with pending_push
    wan,          \* wan_state.json: [Langs -> Entries]
    inflight,     \* _wan_inflight
    online,       \* _last_online_state
    crashes,      \* deaths of the daemon so far
    thread        \* [Threads -> ThreadStates]

vars == <<head, origin, flagged, wan, inflight, online, crashes, thread>>
memory == <<inflight, online, crashes>>
disk == <<head, origin, flagged, wan>>

Entries == [waiting : BOOLEAN,            \* next_attempt_at is to come
            marked : BOOLEAN,             \* push_inflight_since
            interrupted : 0..Threshold,   \* interrupted_count, up to the threshold
            visits : 0..MaxVisits]        \* escalation_attempts

Blank == [waiting |-> FALSE, marked |-> FALSE, interrupted |-> 0, visits |-> 0]

(* The changes of wan_state.json and of projects.json, each a load and,    *)
(* later, a save.                                                          *)
WanOps == {"nudge", "start", "finish", "failure", "success", "clear", "bump"}
FlagOps == {"flag", "unflag"}

(* From the claim to the end of a push; and the books kept after it, which *)
(* an escalated visit does before it lets go of the claim.                 *)
PushPlaces == {"start", "push", "finish", "settle"}
BookPlaces == {"loop", "unflag", "success", "clear", "failure", "bump", "release"}
Places == {"idle", "nudge", "next", "claim", "flag"} \cup PushPlaces \cup BookPlaces

(* What a drain does with the codes of a push goes by these classes:       *)
(* PERMANENT stands for _PERMANENT_PUSH_CODES, FAILED for the network and  *)
(* for an exception.                                                       *)
Results == {"PUSHED", "BUSY", "INVITE_ACCEPTED", "NO_REMOTE", "PERMANENT", "FAILED"}

Kinds == {"tick", "nudge", "sync", "commit"}

ThreadStates ==
    [at : Places,
     kind : Kinds,                                 \* what has started it
     todo : SUBSET Langs,                          \* what is left of its loop
     lang : Langs,
     escalate : BOOLEAN,
     iters : 0..MaxIters,
     after : Places,                               \* where its last push leads it
     loaded : BOOLEAN,                             \* between a load and a save
     wan : [Langs -> Entries],                     \* wan_state.json as loaded
     flagged : SUBSET Langs]                       \* projects.json as loaded

TypeOK ==
    /\ head \in [Langs -> Nat] /\ origin \in [Langs -> Nat]
    /\ flagged \in SUBSET Langs
    /\ wan \in [Langs -> Entries]
    /\ inflight \in SUBSET Langs
    /\ online \in BOOLEAN /\ crashes \in Nat
    /\ thread \in [Threads -> ThreadStates]

NoEntries == [l \in Langs |-> Blank]

Fresh(kind, place, todo, l) ==
    [at |-> place, kind |-> kind, todo |-> todo, lang |-> l, escalate |-> FALSE,
     iters |-> 0, after |-> "idle", loaded |-> FALSE,
     wan |-> NoEntries, flagged |-> {}]

Idle(l) == Fresh("tick", "idle", {}, l)

Init ==
    /\ head = [l \in Langs |-> 0] /\ origin = [l \in Langs |-> 0]
    /\ flagged = {} /\ wan = NoEntries
    /\ inflight = {}
    /\ online = FALSE /\ crashes = 0
    /\ thread \in [Threads -> {Idle(l) : l \in Langs}]

At(t, place) == thread[t].at = place

Drains(t) == thread[t].kind \in {"tick", "nudge"}

(* The thread has put its project into _wan_inflight.                      *)
Holds(t) ==
    /\ Drains(t)
    /\ \/ thread[t].at \in PushPlaces
       \/ thread[t].escalate /\ thread[t].at \in BookPlaces

Goto(t, place) == thread' = [thread EXCEPT ![t].at = place]

Finished(t) == thread' = [thread EXCEPT ![t] = Idle(thread[t].lang)]

(* Variants with a fault, to show what the properties depend on: nobody is *)
(* swept up; any project may be claimed; a claim is left behind.           *)
FlaggedOnly(sweep) == flagged
ClaimAny(l) == TRUE
ClaimLeft(l) == inflight

(* _wan_inflight without a project.                                        *)
Released(l) == inflight \ {l}

-----------------------------------------------------------------------------
(* What starts a thread                                                    *)

Begin(t, kind, place, todo, l) ==
    /\ At(t, "idle") /\ kind \in Runs[t]
    /\ thread' = [thread EXCEPT ![t] = Fresh(kind, place, todo, l)]

(* A commit, under the project lock; the flag for the push comes later.    *)
Commit(t, l) ==
    /\ head[l] < MaxCommits
    /\ head' = [head EXCEPT ![l] = @ + 1]
    /\ Begin(t, "commit", "flag", {}, l)
    /\ UNCHANGED <<origin, flagged, wan, memory>>

Tick(t) ==
    /\ online
    /\ Begin(t, "tick", "nudge", {}, thread[t].lang)
    /\ UNCHANGED <<disk, memory>>

(* From offline to online the watcher nudges what is flagged, before its   *)
(* tick; not so when it looks for the first time.                          *)
OnlineEdge(t) ==
    /\ ~online /\ online' = TRUE
    /\ \E todo \in {{}, flagged} : Begin(t, "tick", "nudge", todo, thread[t].lang)
    /\ UNCHANGED <<disk, inflight, crashes>>

(* drain_pushes_now, of one project or of all; it looks for the network    *)
(* itself.                                                                 *)
Nudge(t) ==
    /\ \E todo \in {Langs} \cup {{l} : l \in Langs} :
          Begin(t, "nudge", "nudge", todo, thread[t].lang)
    /\ UNCHANGED <<disk, memory>>

(* The Sync request: sync_repo under the project lock. What it commits     *)
(* itself is a Commit before it.                                           *)
Sync(t, l) ==
    /\ Begin(t, "sync", "push", {}, l)
    /\ UNCHANGED <<disk, memory>>

-----------------------------------------------------------------------------
(* The files                                                               *)

Load(t) ==
    /\ thread[t].at \in WanOps \cup FlagOps /\ ~thread[t].loaded
    /\ \E l \in IF At(t, "nudge") THEN thread[t].todo ELSE {thread[t].lang} :
          thread' = [thread EXCEPT ![t] = [@ EXCEPT !.loaded = TRUE, !.lang = l,
                        !.wan = IF thread[t].at \in WanOps THEN wan ELSE NoEntries,
                        !.flagged = IF thread[t].at \in FlagOps THEN flagged ELSE {}]]
    /\ UNCHANGED <<disk, memory>>

Least(m, n) == IF m <= n THEN m ELSE n

(* What each operation of wan_backoff makes of the entry it has loaded.    *)
Rewritten(op, e) ==
    CASE op = "nudge"   -> [e EXCEPT !.waiting = FALSE]
      [] op = "start"   -> [e EXCEPT !.marked = TRUE]
      [] op = "finish"  -> [e EXCEPT !.marked = FALSE]
      [] op = "failure" -> [e EXCEPT !.waiting = TRUE, !.marked = FALSE]
      [] op = "success" -> Blank
      [] op = "clear"   -> [e EXCEPT !.interrupted = 0, !.visits = 0, !.marked = FALSE]
      [] op = "bump"    -> [e EXCEPT !.visits = Least(@ + 1, MaxVisits)]

AfterBooks(t) == IF thread[t].escalate THEN "release" ELSE "next"

GivesUp(t) == thread[t].wan[thread[t].lang].visits + 1 >= MaxVisits

PlaceAfter(t) ==
    CASE At(t, "nudge")   -> "nudge"
      [] At(t, "start")   -> "push"
      [] At(t, "finish")  -> IF thread[t].escalate THEN thread[t].after ELSE "settle"
      [] At(t, "failure") -> AfterBooks(t)
      [] At(t, "success") -> AfterBooks(t)
      [] At(t, "clear")   -> "failure"
      [] At(t, "bump")    -> IF GivesUp(t) THEN "clear" ELSE "release"

Saved(t) ==
    [thread[t] EXCEPT
        !.at = PlaceAfter(t), !.loaded = FALSE, !.wan = NoEntries,
        !.todo = thread[t].todo \ {thread[t].lang},
        !.after = IF PlaceAfter(t) = "settle" THEN thread[t].after ELSE "idle"]

(* _save; a file that cannot be replaced is left as it is, and a change    *)
(* that changes nothing is not saved.                                      *)
SaveWan(t) == LET l == thread[t].lang  op == thread[t].at
                  new == Rewritten(op, thread[t].wan[l]) IN
    /\ op \in WanOps /\ thread[t].loaded
    /\ \/ /\ op \in {"finish", "clear"} => new # thread[t].wan[l]
          /\ wan' = [thread[t].wan EXCEPT ![l] = new]
       \/ wan' = wan
    /\ thread' = [thread EXCEPT ![t] = Saved(t)]
    /\ UNCHANGED <<head, origin, flagged, memory>>

(* What _save does before its try may raise: the thread ends, and the      *)
(* finally lets go of the claim. The watcher goes on to its tick.          *)
SaveRaises(t) ==
    /\ thread[t].at \in WanOps /\ thread[t].loaded
    /\ inflight' = IF Holds(t) THEN Released(thread[t].lang) ELSE inflight
    /\ IF At(t, "nudge") /\ thread[t].kind = "tick"
       THEN thread' = [thread EXCEPT ![t] = Fresh("tick", "nudge", {}, thread[t].lang)]
       ELSE Finished(t)
    /\ UNCHANGED <<disk, online, crashes>>

(* _set_pending_push. A failure to save is ignored; so no other change of  *)
(* projects.json that is made meanwhile, as that of set_last_sync, can do  *)
(* to the flags what is not done to them here.                             *)
SaveFlags(t) == LET l == thread[t].lang  op == thread[t].at IN
    /\ op \in FlagOps /\ thread[t].loaded
    /\ flagged' \in {flagged, IF op = "flag" THEN thread[t].flagged \cup {l}
                              ELSE thread[t].flagged \ {l}}
    /\ IF Drains(t)
       THEN thread' = [thread EXCEPT ![t] = [@ EXCEPT !.at = "success", !.loaded = FALSE, !.flagged = {}]]
       ELSE Finished(t)
    /\ UNCHANGED <<head, origin, wan, memory>>

-----------------------------------------------------------------------------
(* _drain_pending_push                                                     *)

Ahead == {l \in Langs : origin[l] < head[l]}

(* The sweep for what is ahead of the host without a flag: with every      *)
(* nudge, and with the tick when its ten minutes are over.                 *)
Candidates(sweep) == flagged \cup IF sweep THEN Ahead ELSE {}

Gather(t, sweep) ==
    /\ At(t, "nudge") /\ ~thread[t].loaded /\ thread[t].todo = {}
    /\ thread[t].kind = "nudge" => sweep
    /\ thread' = [thread EXCEPT ![t] = [@ EXCEPT !.at = "next", !.todo = Candidates(sweep)]]
    /\ UNCHANGED <<disk, memory>>

MustEscalate(l) == online /\ wan[l].interrupted >= Threshold

(* The curve says wait, unless a user has asked or the project is stuck.   *)
IsDue(t, l) == thread[t].kind = "nudge" \/ MustEscalate(l) \/ ~wan[l].waiting

SkipNotDue(t, l) ==
    /\ At(t, "next") /\ l \in thread[t].todo /\ ~IsDue(t, l)
    /\ thread' = [thread EXCEPT ![t].todo = @ \ {l}]
    /\ UNCHANGED <<disk, memory>>

Taken(t, l) ==
    [thread[t] EXCEPT
        !.at = "claim", !.lang = l, !.escalate = MustEscalate(l),
        !.todo = thread[t].todo \ {l}]

Take(t, l) ==
    /\ At(t, "next") /\ l \in thread[t].todo /\ IsDue(t, l)
    /\ thread' = [thread EXCEPT ![t] = Taken(t, l)]
    /\ UNCHANGED <<disk, memory>>

LoopOver(t) ==
    /\ At(t, "next") /\ thread[t].todo = {}
    /\ Finished(t)
    /\ UNCHANGED <<disk, memory>>

(* Under _wan_inflight_lock.                                               *)
CanClaim(l) == l \notin inflight

Claim(t) == LET l == thread[t].lang IN
    /\ At(t, "claim")
    /\ \/ /\ CanClaim(l)
          /\ inflight' = inflight \cup {l}
          /\ Goto(t, IF thread[t].escalate THEN "loop" ELSE "start")
       \/ /\ ~CanClaim(l)
          /\ thread' = [thread EXCEPT ![t] = [@ EXCEPT !.at = "next", !.escalate = FALSE]]
          /\ UNCHANGED inflight
    /\ UNCHANGED <<disk, online, crashes>>

-----------------------------------------------------------------------------
(* _attempt_push: between the marks of "start" and "finish", push_repo     *)

(* What a drain does next goes by the result of the push: once it has let  *)
(* go of the claim, or on an escalated visit, with the claim.              *)
AfterPush(r) ==
    CASE r = "PUSHED" -> "unflag"
      [] r \in {"FAILED", "PERMANENT"} -> "failure"
      [] OTHER -> "next"

AfterVisitPush(r) ==
    CASE r = "PUSHED" -> "unflag"
      [] r = "PERMANENT" -> "clear"
      [] r = "NO_REMOTE" -> "release"
      [] OTHER -> "loop"

(* A drain has its mark to take away; the Sync request clears the flag if  *)
(* it got through.                                                         *)
EndsWith(t, r) ==
    IF Drains(t)
    THEN thread' = [thread EXCEPT ![t] = [@ EXCEPT !.at = "finish",
                       !.after = IF thread[t].escalate THEN AfterVisitPush(r) ELSE AfterPush(r)]]
    ELSE IF r = "PUSHED" THEN Goto(t, "unflag") ELSE Finished(t)

(* The push is made under the project lock: what the branch has then gets  *)
(* to the host, or it fails; BUSY if the lock cannot be had.               *)
Push(t, r) == LET l == thread[t].lang IN
    /\ At(t, "push")
    /\ origin' = IF r = "PUSHED" THEN [origin EXCEPT ![l] = head[l]] ELSE origin
    /\ EndsWith(t, r)
    /\ UNCHANGED <<head, flagged, wan, memory>>

(* After a single push the claim goes first, then the books are kept.      *)
Settle(t) ==
    /\ At(t, "settle")
    /\ inflight' = Released(thread[t].lang)
    /\ thread' = [thread EXCEPT ![t] = [@ EXCEPT !.at = thread[t].after, !.after = "idle"]]
    /\ UNCHANGED <<disk, online, crashes>>

-----------------------------------------------------------------------------
(* _run_to_completion                                                      *)

MoreIters(n) == n < MaxIters

Iterate(t) ==
    /\ At(t, "loop") /\ MoreIters(thread[t].iters) /\ online
    /\ thread' = [thread EXCEPT ![t] = [@ EXCEPT !.at = "start", !.iters = thread[t].iters + 1]]
    /\ UNCHANGED <<disk, memory>>

(* Offline, or past the deadline, which no visit is before its first push. *)
Yield(t) ==
    /\ At(t, "loop") /\ MoreIters(thread[t].iters)
    /\ ~online \/ thread[t].iters > 0
    /\ Goto(t, "release")
    /\ UNCHANGED <<disk, memory>>

Incomplete(t) ==
    /\ At(t, "loop") /\ ~MoreIters(thread[t].iters)
    /\ Goto(t, "bump")
    /\ UNCHANGED <<disk, memory>>

(* The finally of the visit.                                               *)
Release(t) ==
    /\ At(t, "release")
    /\ inflight' = Released(thread[t].lang)
    /\ thread' = [thread EXCEPT ![t] = [@ EXCEPT !.at = "next", !.escalate = FALSE, !.iters = 0]]
    /\ UNCHANGED <<disk, online, crashes>>

-----------------------------------------------------------------------------
(* Time, the network, and the death of the daemon                          *)

Past(entries, l) == [entries EXCEPT ![l].waiting = FALSE]

(* A due time that is past is past in every copy of the file.              *)
WaitPasses(l) ==
    /\ wan[l].waiting \/ \E t \in Threads : thread[t].wan[l].waiting
    /\ wan' = Past(wan, l)
    /\ thread' = [t \in Threads |-> [thread[t] EXCEPT !.wan = Past(@, l)]]
    /\ UNCHANGED <<head, origin, flagged, memory>>

GoOffline ==
    /\ online /\ online' = FALSE
    /\ UNCHANGED <<disk, inflight, crashes, thread>>

(* Killed and started again: note_interrupted_on_startup counts the marks  *)
(* that are left, if it can save. A push that is cut off has not arrived.  *)
Interrupted(e) ==
    IF e.marked THEN [e EXCEPT !.marked = FALSE, !.interrupted = Least(@ + 1, Threshold)] ELSE e

Crash ==
    /\ crashes < MaxCrashes
    /\ crashes' = crashes + 1
    /\ thread' = [t \in Threads |-> Idle(thread[t].lang)]
    /\ inflight' = {}
    /\ wan' \in {wan, [l \in Langs |-> Interrupted(wan[l])]}
    /\ online' = FALSE
    /\ UNCHANGED <<head, origin, flagged>>

Starts(t) ==
    \/ Tick(t) \/ OnlineEdge(t) \/ Nudge(t)
    \/ \E l \in Langs : Commit(t, l) \/ Sync(t, l)

Works(t) ==
    \/ Load(t) \/ SaveWan(t) \/ SaveRaises(t) \/ SaveFlags(t)
    \/ (\E sweep \in BOOLEAN : Gather(t, sweep)) \/ LoopOver(t) \/ Claim(t)
    \/ \E l \in Langs : SkipNotDue(t, l) \/ Take(t, l)
    \/ \E r \in Results : Push(t, r)
    \/ Settle(t) \/ Iterate(t) \/ Yield(t) \/ Incomplete(t) \/ Release(t)

Next ==
    \/ \E t \in Threads : Starts(t) \/ Works(t)
    \/ \E l \in Langs : WaitPasses(l)
    \/ GoOffline \/ Crash

Spec == Init /\ [][Next]_vars

(* Threads run and the watcher goes on ticking; waits and intervals pass;  *)
(* what is tried again and again - to save a file, to push - does not fail *)
(* for ever.                                                               *)
Fairness ==
    /\ \A t \in Threads : WF_vars(Works(t))
    /\ SF_vars(\E t \in Threads : Tick(t))
    /\ SF_vars(\E t \in Threads : thread[t].kind = "tick" /\ Gather(t, TRUE))
    /\ \A l \in Langs :
          /\ WF_vars(WaitPasses(l))
          /\ SF_vars(\E t \in Threads : At(t, "start") /\ thread[t].lang = l /\ SaveWan(t))
          /\ SF_vars(\E t \in Threads : thread[t].lang = l /\ Push(t, "PUSHED"))

FairSpec == Spec /\ Fairness

-----------------------------------------------------------------------------
(* scheduler.py:1594, "one WAN push per project at a time": two drains are *)
(* never between claim and end of a push of the same project, whatever     *)
(* ticks, nudges and escalated visits overlap, and however one of them     *)
(* ends.                                                                   *)
OnePush ==
    \A t, u \in Threads : t # u /\ Holds(t) /\ Holds(u) => thread[t].lang # thread[u].lang

(* A claim is never left behind: a project in _wan_inflight has a drain at *)
(* work that will let go of it. One left behind would keep the project     *)
(* from the host for as long as the daemon lives.                          *)
ClaimIsHeld ==
    \A l \in inflight : \E t \in Threads : Holds(t) /\ thread[t].lang = l

(* Once the network is there to stay, every commit gets to the host: over  *)
(* lost flags, waits, escalation and its cap, files saved over each other, *)
(* failed saves and restarts.                                              *)
CommittedIsPushed ==
    <>[]online => \A l \in Langs : \A n \in 1..MaxCommits : head[l] >= n ~> origin[l] >= n
=============================================================================
