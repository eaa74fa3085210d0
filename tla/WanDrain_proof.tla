--------------------------- MODULE WanDrain_proof ---------------------------
(***************************************************************************)
(* Two drains never push one project at the same time, and a claim is never*)
(* left behind: for any projects, threads and bounds.  By itself neither is*)
(* inductive; both follow from _wan_inflight being exactly the projects    *)
(* that the drains between claim and release are at.                       *)
(***************************************************************************)
EXTENDS WanDrain, TLAPS

(* Where a thread is tells what it may be: only a drain claims and only an *)
(* escalated visit goes through the places of _run_to_completion; after a  *)
(* push it goes on as its visit does.                                      *)
PlaceOK(t) ==
    /\ thread[t].at \notin {"idle", "flag", "push", "unflag"} => Drains(t)
    /\ At(t, "flag") => ~Drains(t)
    /\ thread[t].at \in {"loop", "release", "bump", "clear"} => thread[t].escalate
    /\ At(t, "settle") => ~thread[t].escalate
    /\ At(t, "finish") /\ thread[t].escalate =>
          thread[t].after \in {"unflag", "clear", "release", "loop"}
    /\ thread[t].at \in {"finish", "settle"} /\ ~thread[t].escalate =>
          thread[t].after \in {"unflag", "failure", "next"}

(* What a holder is at is in _wan_inflight.                                *)
HolderIsIn == \A t \in Threads : Holds(t) => thread[t].lang \in inflight

Claims == OnePush /\ ClaimIsHeld /\ HolderIsIn

IInv == TypeOK /\ (\A t \in Threads : PlaceOK(t)) /\ Claims

-----------------------------------------------------------------------------
(* A step of one thread leaves the others where they are.                  *)
Alone(t) == \A u \in Threads \ {t} : thread'[u] = thread[u]

Keeps(t) ==
    /\ inflight' = inflight
    /\ Holds(t)' <=> Holds(t)
    /\ Holds(t) => thread'[t].lang = thread[t].lang

Claiming(t) ==
    /\ thread'[t].lang \notin inflight
    /\ inflight' = inflight \cup {thread'[t].lang}
    /\ ~Holds(t) /\ Holds(t)'

Releasing(t) ==
    /\ inflight' = inflight \ {thread[t].lang}
    /\ Holds(t) /\ ~Holds(t)'

(* A thread that claims, lets go or does neither keeps the claims in order,*)
(* as the lock around _wan_inflight and the finally blocks make it do.     *)
LEMMA ClaimsKept ==
    ASSUME TypeOK, Claims, NEW t \in Threads, Alone(t),
           Keeps(t) \/ Claiming(t) \/ Releasing(t)
    PROVE  Claims'
<1>1. \A u \in Threads \ {t} : Holds(u)' <=> Holds(u)
  BY DEF Alone, Holds, Drains
<1>2. CASE Keeps(t)
  <2>1. HolderIsIn'
    BY <1>1, <1>2 DEF Claims, HolderIsIn, Keeps, Alone
  <2>2. OnePush'
    BY <1>1, <1>2 DEF Claims, OnePush, Keeps, Alone
  <2>3. ClaimIsHeld'
    BY <1>1, <1>2 DEF Claims, ClaimIsHeld, Keeps, Alone
  <2> QED BY <2>1, <2>2, <2>3 DEF Claims
<1>3. CASE Claiming(t)
  <2>1. HolderIsIn'
    BY <1>1, <1>3 DEF Claims, HolderIsIn, Claiming, Alone
  <2>2. OnePush'
    BY <1>1, <1>3 DEF Claims, OnePush, HolderIsIn, Claiming, Alone
  <2>3. ClaimIsHeld'
    BY <1>1, <1>3 DEF Claims, ClaimIsHeld, Claiming, Alone
  <2> QED BY <2>1, <2>2, <2>3 DEF Claims
<1>4. CASE Releasing(t)
  <2>1. HolderIsIn'
    BY <1>1, <1>4 DEF Claims, HolderIsIn, OnePush, Releasing, Alone
  <2>2. OnePush'
    BY <1>1, <1>4 DEF Claims, OnePush, Releasing, Alone
  <2>3. ClaimIsHeld'
    BY <1>1, <1>4 DEF Claims, ClaimIsHeld, Releasing, Alone
  <2> QED BY <2>1, <2>2, <2>3 DEF Claims
<1> QED BY <1>2, <1>3, <1>4

(* One thread makes a step that is right by itself.                        *)
Moves(t) ==
    /\ Alone(t)
    /\ thread' \in [Threads -> ThreadStates]
    /\ PlaceOK(t)'
    /\ Keeps(t) \/ Claiming(t) \/ Releasing(t)

(* Such a step keeps the places, the claims and the threads' type.          *)
LEMMA MoveIsGood ==
    ASSUME IInv, NEW t \in Threads, Moves(t)
    PROVE  /\ thread' \in [Threads -> ThreadStates]
           /\ inflight' \in SUBSET Langs
           /\ \A u \in Threads : PlaceOK(u)'
           /\ Claims'
<1>1. thread' \in [Threads -> ThreadStates]
  BY DEF Moves
<1>2. inflight' \in SUBSET Langs
  BY <1>1 DEF IInv, TypeOK, Moves, Keeps, Claiming, Releasing, ThreadStates
<1>3. \A u \in Threads : PlaceOK(u)'
  BY DEF IInv, Moves, Alone, PlaceOK, At, Drains
<1>4. Claims'
  BY ClaimsKept DEF IInv, Moves
<1> QED BY <1>1, <1>2, <1>3, <1>4

-----------------------------------------------------------------------------
(* What the operators of WanDrain make of entries and threads has its type.*)
LEMMA NoEntriesType == NoEntries \in [Langs -> Entries]
BY BoundAssumption DEF NoEntries, Blank, Entries

(* A thread that starts or ends is a thread.                               *)
LEMMA FreshType ==
    ASSUME NEW kind \in Kinds, NEW place \in Places, NEW todo \in SUBSET Langs, NEW l \in Langs
    PROVE  Fresh(kind, place, todo, l) \in ThreadStates
<1>1. "idle" \in Places /\ 0 \in 0..MaxIters
  BY BoundAssumption DEF Places
<1> QED BY <1>1, NoEntriesType DEF Fresh, ThreadStates

(* The operations of wan_backoff make entries of entries.                  *)
LEMMA RewrittenType ==
    ASSUME NEW op \in WanOps, NEW e \in Entries PROVE Rewritten(op, e) \in Entries
<1> USE BoundAssumption DEF Entries
<1>1. Blank \in Entries BY DEF Blank
<1>2. Least(e.visits + 1, MaxVisits) \in 0..MaxVisits BY DEF Least
<1>3. CASE op = "nudge" BY <1>3 DEF Rewritten
<1>4. CASE op = "start" BY <1>4 DEF Rewritten
<1>5. CASE op = "finish" BY <1>5 DEF Rewritten
<1>6. CASE op = "failure" BY <1>6 DEF Rewritten
<1>7. CASE op = "success" BY <1>1, <1>7 DEF Rewritten
<1>8. CASE op = "clear"
  <2>1. Rewritten(op, e) = [waiting |-> e.waiting, marked |-> FALSE, interrupted |-> 0, visits |-> 0]
    BY <1>8 DEF Rewritten
  <2> QED BY <2>1
<1>9. CASE op = "bump" BY <1>2, <1>9 DEF Rewritten
<1> QED BY <1>3, <1>4, <1>5, <1>6, <1>7, <1>8, <1>9 DEF WanOps

(* Counting an interruption stops at the threshold.                        *)
LEMMA InterruptedType == ASSUME NEW e \in Entries PROVE Interrupted(e) \in Entries
<1> USE BoundAssumption DEF Entries
<1>1. Least(e.interrupted + 1, Threshold) \in 0..Threshold BY DEF Least
<1> QED BY <1>1 DEF Interrupted

(* A step that starts a thread makes no claim.                             *)
LEMMA BeginMoves ==
    ASSUME IInv, NEW t \in Threads, NEW kind \in Kinds, NEW place \in Places,
           NEW todo \in SUBSET Langs, NEW l \in Langs,
           Begin(t, kind, place, todo, l), inflight' = inflight,
           \/ place = "nudge" /\ kind \in {"tick", "nudge"}
           \/ place = "flag" /\ kind = "commit"
           \/ place = "push" /\ kind = "sync"
    PROVE  Moves(t)
<1>1. thread' = [thread EXCEPT ![t] = Fresh(kind, place, todo, l)] /\ thread[t].at = "idle"
  BY DEF Begin, At
<1>2. thread' \in [Threads -> ThreadStates] /\ Alone(t)
  BY <1>1, FreshType DEF IInv, TypeOK, Alone
<1>3. /\ thread'[t].at = place /\ thread'[t].kind = kind
      /\ ~thread'[t].escalate /\ thread'[t].after = "idle"
  BY <1>1 DEF IInv, TypeOK, Fresh
<1>4. PlaceOK(t)'
  BY <1>3 DEF PlaceOK, At, Drains
<1>5. Keeps(t)
  BY <1>1, <1>3 DEF Keeps, Holds, Drains, PushPlaces, BookPlaces
<1> QED BY <1>2, <1>4, <1>5 DEF Moves


-----------------------------------------------------------------------------
(* What a step does beside moving its thread.                              *)
DiskOK ==
    /\ head \in [Langs -> Nat] /\ origin \in [Langs -> Nat]
    /\ flagged \in SUBSET Langs
    /\ wan \in [Langs -> Entries]
    /\ online \in BOOLEAN /\ crashes \in Nat

Good(t) == Moves(t) /\ DiskOK'

(* The threads that the watcher, a user or a commit start claim nothing.   *)
LEMMA StartsGood ==
    ASSUME IInv, NEW t \in Threads, Starts(t)
    PROVE  Good(t)
<1>0. /\ Kinds = {"tick", "nudge", "sync", "commit"}
      /\ "nudge" \in Places /\ "flag" \in Places /\ "push" \in Places
  BY DEF Kinds, Places, PushPlaces
<1>1. thread[t].lang \in Langs BY DEF IInv, TypeOK, ThreadStates
<1>2. DiskOK'
  <2>1. ASSUME NEW l \in Langs, Commit(t, l) PROVE DiskOK'
    BY <2>1 DEF IInv, TypeOK, DiskOK, Commit, memory
  <2> QED BY <2>1 DEF IInv, TypeOK, DiskOK, Starts, Tick, OnlineEdge, Nudge, Sync, disk, memory
<1>3. ASSUME Tick(t) PROVE Moves(t)
  <2>1. Begin(t, "tick", "nudge", {}, thread[t].lang) /\ inflight' = inflight
    BY <1>3 DEF Tick, memory
  <2> QED BY <1>0, <1>1, <2>1, BeginMoves
<1>4. ASSUME OnlineEdge(t) PROVE Moves(t)
  <2>1. PICK todo \in {{}, flagged} : Begin(t, "tick", "nudge", todo, thread[t].lang)
    BY <1>4 DEF OnlineEdge
  <2>2. todo \in SUBSET Langs BY DEF IInv, TypeOK
  <2>3. inflight' = inflight BY <1>4 DEF OnlineEdge
  <2> QED BY <1>1, <2>1, <2>2, <2>3, <1>0, BeginMoves
<1>5. ASSUME Nudge(t) PROVE Moves(t)
  <2>1. PICK todo \in SUBSET Langs : Begin(t, "nudge", "nudge", todo, thread[t].lang)
    BY <1>5 DEF Nudge
  <2>2. inflight' = inflight BY <1>5 DEF Nudge, memory
  <2> QED BY <1>1, <2>1, <2>2, <1>0, BeginMoves
<1>6. ASSUME NEW l \in Langs, Commit(t, l) PROVE Moves(t)
  <2>1. Begin(t, "commit", "flag", {}, l) /\ inflight' = inflight
    BY <1>6 DEF Commit, memory
  <2> QED BY <1>0, <2>1, BeginMoves
<1>7. ASSUME NEW l \in Langs, Sync(t, l) PROVE Moves(t)
  <2>1. Begin(t, "sync", "push", {}, l) /\ inflight' = inflight
    BY <1>7 DEF Sync, memory
  <2> QED BY <1>0, <2>1, BeginMoves
<1> QED BY <1>2, <1>3, <1>4, <1>5, <1>6, <1>7 DEF Starts, Good

(* Loading a file changes no claim; a nudge goes on to a project, and it   *)
(* holds none.                                                             *)
LEMMA LoadGood ==
    ASSUME IInv, NEW t \in Threads, Load(t)
    PROVE  Good(t)
<1>1. wan \in [Langs -> Entries] /\ flagged \in SUBSET Langs /\ thread[t] \in ThreadStates
      /\ thread \in [Threads -> ThreadStates]
  BY DEF IInv, TypeOK
<1>3. PICK l \in IF At(t, "nudge") THEN thread[t].todo ELSE {thread[t].lang} :
          thread' = [thread EXCEPT ![t] = [@ EXCEPT !.loaded = TRUE, !.lang = l,
                        !.wan = IF thread[t].at \in WanOps THEN wan ELSE NoEntries,
                        !.flagged = IF thread[t].at \in FlagOps THEN flagged ELSE {}]]
  BY DEF Load
<1>4. l \in Langs
  BY <1>1 DEF ThreadStates
<1>5. thread' \in [Threads -> ThreadStates] /\ Alone(t)
  BY <1>1, <1>3, <1>4, NoEntriesType DEF ThreadStates, Alone
<1>6. /\ thread'[t].at = thread[t].at /\ thread'[t].kind = thread[t].kind
      /\ thread'[t].escalate = thread[t].escalate /\ thread'[t].after = thread[t].after
      /\ thread[t].at # "nudge" => thread'[t].lang = thread[t].lang
  BY <1>1, <1>3 DEF ThreadStates, At
<1>7. PlaceOK(t)'
  BY <1>6 DEF PlaceOK, At, Drains, IInv
<1>8. Keeps(t)
  BY <1>6 DEF Keeps, Holds, Drains, PushPlaces, BookPlaces, Load, memory
<1>9. DiskOK' BY DEF IInv, TypeOK, DiskOK, Load, disk, memory
<1> QED BY <1>5, <1>7, <1>8, <1>9 DEF Good, Moves

(* A step that ends a thread.                                              *)
LEMMA FinishedIs ==
    ASSUME IInv, NEW t \in Threads, Finished(t)
    PROVE  /\ thread' \in [Threads -> ThreadStates] /\ Alone(t)
           /\ PlaceOK(t)' /\ ~Holds(t)'
<1>1. thread[t].lang \in Langs /\ thread \in [Threads -> ThreadStates]
  BY DEF IInv, TypeOK, ThreadStates
<1>2. thread' = [thread EXCEPT ![t] = Fresh("tick", "idle", {}, thread[t].lang)]
  BY DEF Finished, Idle
<1>3. thread' \in [Threads -> ThreadStates] /\ Alone(t)
  BY <1>1, <1>2, FreshType DEF Alone, Kinds, Places
<1>4. /\ thread'[t].at = "idle" /\ thread'[t].kind = "tick"
      /\ ~thread'[t].escalate /\ thread'[t].after = "idle"
  BY <1>1, <1>2 DEF Fresh
<1> QED BY <1>3, <1>4 DEF PlaceOK, Holds, At, Drains, PushPlaces, BookPlaces

(* A step that moves a thread on and changes nothing else of it.           *)
LEMMA GotoIs ==
    ASSUME IInv, NEW t \in Threads, NEW place \in Places, Goto(t, place)
    PROVE  /\ thread' \in [Threads -> ThreadStates] /\ Alone(t)
           /\ thread'[t].at = place /\ thread'[t].kind = thread[t].kind
           /\ thread'[t].lang = thread[t].lang /\ thread'[t].escalate = thread[t].escalate
           /\ thread'[t].after = thread[t].after
BY DEF IInv, TypeOK, ThreadStates, Goto, Alone

(* The files are saved by whom they were loaded by; a claim is kept until  *)
(* the books are.                                                          *)
LEMMA SaveWanGood ==
    ASSUME IInv, NEW t \in Threads, SaveWan(t)
    PROVE  Good(t)
<1> DEFINE s == thread[t]
<1>1. s \in ThreadStates /\ thread \in [Threads -> ThreadStates] /\ wan \in [Langs -> Entries]
  BY DEF IInv, TypeOK
<1>2. PlaceOK(t) BY DEF IInv
<1>3. s.at \in WanOps BY DEF SaveWan
<1>4. /\ PlaceAfter(t) \in Places
      /\ s.at = "nudge" => PlaceAfter(t) = "nudge"
      /\ s.at = "start" => PlaceAfter(t) = "push"
      /\ s.at = "finish" /\ s.escalate => PlaceAfter(t) = s.after
      /\ s.at = "finish" /\ ~s.escalate => PlaceAfter(t) = "settle"
      /\ s.at \in {"failure", "success"} /\ s.escalate => PlaceAfter(t) = "release"
      /\ s.at \in {"failure", "success"} /\ ~s.escalate => PlaceAfter(t) = "next"
      /\ s.at = "clear" => PlaceAfter(t) = "failure"
      /\ s.at = "bump" => PlaceAfter(t) \in {"clear", "release"}
  <2>1. CASE s.at = "nudge" BY <2>1 DEF PlaceAfter, At, Places
  <2>2. CASE s.at = "start" BY <2>2 DEF PlaceAfter, At, Places, PushPlaces
  <2>3. CASE s.at = "finish" BY <1>1, <2>3 DEF PlaceAfter, At, Places, PushPlaces, ThreadStates
  <2>4. CASE s.at = "failure" BY <2>4 DEF PlaceAfter, AfterBooks, At, Places, BookPlaces
  <2>5. CASE s.at = "success" BY <2>5 DEF PlaceAfter, AfterBooks, At, Places, BookPlaces
  <2>6. CASE s.at = "clear" BY <2>6 DEF PlaceAfter, At, Places, BookPlaces
  <2>7. CASE s.at = "bump" BY <2>7 DEF PlaceAfter, At, Places, BookPlaces
  <2> QED BY <1>3, <2>1, <2>2, <2>3, <2>4, <2>5, <2>6, <2>7 DEF WanOps
<1>5. thread' = [thread EXCEPT ![t] = Saved(t)]
  BY DEF SaveWan
<1>6. Saved(t) \in ThreadStates
  <2>1. /\ s.todo \ {s.lang} \in SUBSET Langs
        /\ (IF PlaceAfter(t) = "settle" THEN s.after ELSE "idle") \in Places
    BY <1>1 DEF ThreadStates, Places
  <2> QED BY <1>1, <1>4, <2>1, NoEntriesType DEF ThreadStates, Saved
<1>7. thread' \in [Threads -> ThreadStates] /\ Alone(t)
  BY <1>1, <1>5, <1>6 DEF Alone
<1> HIDE DEF s
<1>8. /\ thread'[t].at = PlaceAfter(t) /\ thread'[t].kind = s.kind
      /\ thread'[t].lang = s.lang /\ thread'[t].escalate = s.escalate
      /\ PlaceAfter(t) = "settle" => thread'[t].after = s.after
  BY <1>1, <1>5 DEF ThreadStates, Saved, s
<1>9. PlaceOK(t)'
  BY <1>2, <1>3, <1>4, <1>8 DEF PlaceOK, At, Drains, WanOps, s
<1>10. Keeps(t)
  BY <1>2, <1>3, <1>4, <1>8
     DEF Keeps, Holds, Drains, PlaceOK, At, WanOps, PushPlaces, BookPlaces, SaveWan, memory, s
<1>11. DiskOK'
  <2>1. s.lang \in Langs /\ s.wan \in [Langs -> Entries]
    BY <1>1 DEF ThreadStates
  <2>2. Rewritten(s.at, s.wan[s.lang]) \in Entries
    BY <1>3, <2>1, RewrittenType
  <2>3. wan' \in [Langs -> Entries]
    BY <1>1, <2>1, <2>2 DEF SaveWan, s
  <2> QED BY <2>3 DEF IInv, TypeOK, DiskOK, SaveWan, memory
<1> QED BY <1>7, <1>9, <1>10, <1>11 DEF Good, Moves

(* A save that raises ends the thread, and its claim with it.              *)
LEMMA SaveRaisesGood ==
    ASSUME IInv, NEW t \in Threads, SaveRaises(t)
    PROVE  Good(t)
<1>1. thread[t].lang \in Langs /\ thread \in [Threads -> ThreadStates]
  BY DEF IInv, TypeOK, ThreadStates
<1>2. DiskOK' BY DEF IInv, TypeOK, DiskOK, SaveRaises, disk
<1>3. ASSUME ~Holds(t)' PROVE Keeps(t) \/ Claiming(t) \/ Releasing(t)
  BY <1>3 DEF Keeps, Releasing, Released, SaveRaises
<1>4. CASE At(t, "nudge") /\ thread[t].kind = "tick"
  <2>1. thread' = [thread EXCEPT ![t] = Fresh("tick", "nudge", {}, thread[t].lang)]
    BY <1>4 DEF SaveRaises
  <2>2. thread' \in [Threads -> ThreadStates] /\ Alone(t)
    BY <1>1, <2>1, FreshType DEF Alone, Kinds, Places
  <2>3. /\ thread'[t].at = "nudge" /\ thread'[t].kind = "tick" /\ ~thread'[t].escalate
    BY <1>1, <2>1 DEF Fresh
  <2>4. PlaceOK(t)' /\ ~Holds(t)'
    BY <2>3 DEF PlaceOK, Holds, At, Drains, PushPlaces, BookPlaces
  <2> QED BY <1>2, <1>3, <2>2, <2>4 DEF Good, Moves
<1>5. CASE ~(At(t, "nudge") /\ thread[t].kind = "tick")
  <2>1. Finished(t) BY <1>5 DEF SaveRaises
  <2> QED BY <1>2, <1>3, <2>1, FinishedIs DEF Good, Moves
<1> QED BY <1>4, <1>5

(* After the flag a drain records its success, with the claim if it is on  *)
(* a visit; any other thread is done.                                      *)
LEMMA SaveFlagsGood ==
    ASSUME IInv, NEW t \in Threads, SaveFlags(t)
    PROVE  Good(t)
<1>1. thread[t] \in ThreadStates /\ thread \in [Threads -> ThreadStates]
  BY DEF IInv, TypeOK
<1>2. PlaceOK(t) BY DEF IInv
<1>3. thread[t].at \in {"flag", "unflag"} /\ inflight' = inflight
  BY DEF SaveFlags, FlagOps, memory
<1>4. DiskOK'
  BY <1>1 DEF IInv, TypeOK, DiskOK, SaveFlags, memory, ThreadStates
<1>5. CASE Drains(t)
  <2>1. thread' = [thread EXCEPT ![t] = [@ EXCEPT !.at = "success", !.loaded = FALSE, !.flagged = {}]]
    BY <1>5 DEF SaveFlags
  <2>2. thread' \in [Threads -> ThreadStates] /\ Alone(t)
    BY <1>1, <2>1 DEF ThreadStates, Places, BookPlaces, Alone
  <2>3. /\ thread'[t].at = "success" /\ thread'[t].kind = thread[t].kind
        /\ thread'[t].lang = thread[t].lang /\ thread'[t].escalate = thread[t].escalate
    BY <1>1, <2>1 DEF ThreadStates
  <2>4. thread[t].at = "unflag"
    BY <1>2, <1>3, <1>5 DEF PlaceOK, At
  <2>5. PlaceOK(t)'
    BY <1>5, <2>3 DEF PlaceOK, At, Drains
  <2>6. Keeps(t)
    BY <1>3, <2>3, <2>4 DEF Keeps, Holds, Drains, PushPlaces, BookPlaces
  <2> QED BY <1>4, <2>2, <2>5, <2>6 DEF Good, Moves
<1>6. CASE ~Drains(t)
  <2>1. Finished(t) BY <1>6 DEF SaveFlags
  <2>2. Keeps(t) BY <1>3, <1>6, <2>1, FinishedIs DEF Keeps, Holds
  <2> QED BY <1>4, <2>1, <2>2, FinishedIs DEF Good, Moves
<1> QED BY <1>5, <1>6

(* Before the claim a drain holds none.                                    *)
LEMMA LoopGood ==
    ASSUME IInv, NEW t \in Threads,
           \/ \E sweep \in BOOLEAN : Gather(t, sweep)
           \/ LoopOver(t)
           \/ \E l \in Langs : SkipNotDue(t, l) \/ Take(t, l)
    PROVE  Good(t)
<1>1. /\ thread[t] \in ThreadStates /\ thread \in [Threads -> ThreadStates]
      /\ flagged \in SUBSET Langs
  BY DEF IInv, TypeOK
<1>2. PlaceOK(t) BY DEF IInv
<1>3. UNCHANGED <<disk, memory>>
  BY DEF Gather, LoopOver, SkipNotDue, Take
<1>4. DiskOK' BY <1>3 DEF IInv, TypeOK, DiskOK, disk, memory
<1>5. inflight' = inflight BY <1>3 DEF memory
<1>6. ASSUME NEW sweep \in BOOLEAN, Gather(t, sweep) PROVE Moves(t)
  <2>1. Candidates(sweep) \in SUBSET Langs BY <1>1 DEF Candidates, Ahead
  <2>2. thread' = [thread EXCEPT ![t] = [@ EXCEPT !.at = "next", !.todo = Candidates(sweep)]]
    BY <1>6 DEF Gather
  <2>3. thread' \in [Threads -> ThreadStates] /\ Alone(t)
    BY <1>1, <2>1, <2>2 DEF ThreadStates, Places, Alone
  <2>4. thread[t].at = "nudge" BY <1>6 DEF Gather, At
  <2>5. thread'[t].at = "next" /\ thread'[t].kind = thread[t].kind
    BY <1>1, <2>2 DEF ThreadStates
  <2> QED BY <1>2, <1>5, <2>3, <2>4, <2>5
          DEF Moves, Keeps, PlaceOK, At, Holds, Drains, PushPlaces, BookPlaces
<1>7. CASE LoopOver(t)
  <2>1. Finished(t) /\ thread[t].at = "next" BY <1>7 DEF LoopOver, At
  <2>2. Keeps(t)
    BY <1>5, <2>1, FinishedIs DEF Keeps, Holds, PushPlaces, BookPlaces
  <2> QED BY <1>4, <2>1, <2>2, FinishedIs DEF Good, Moves
<1>8. ASSUME NEW l \in Langs, SkipNotDue(t, l) PROVE Moves(t)
  <2>1. thread' = [thread EXCEPT ![t].todo = @ \ {l}] /\ thread[t].at = "next"
    BY <1>8 DEF SkipNotDue, At
  <2>2. thread' \in [Threads -> ThreadStates] /\ Alone(t)
    BY <1>1, <2>1 DEF ThreadStates, Alone
  <2>3. thread'[t].at = "next" /\ thread'[t].kind = thread[t].kind
    BY <1>1, <2>1 DEF ThreadStates
  <2> QED BY <1>2, <1>5, <2>1, <2>2, <2>3
          DEF Moves, Keeps, PlaceOK, At, Holds, Drains, PushPlaces, BookPlaces
<1>9. ASSUME NEW l \in Langs, Take(t, l) PROVE Moves(t)
  <2>1. MustEscalate(l) \in BOOLEAN /\ thread[t].todo \ {l} \in SUBSET Langs /\ "claim" \in Places
    BY <1>1 DEF MustEscalate, IInv, TypeOK, ThreadStates, Places
  <2>2. thread' = [thread EXCEPT ![t] = Taken(t, l)] /\ thread[t].at = "next"
    BY <1>9 DEF Take, At
  <2>3. /\ Taken(t, l) \in ThreadStates
        /\ Taken(t, l).at = "claim" /\ Taken(t, l).kind = thread[t].kind
    BY <1>1, <2>1 DEF ThreadStates, Taken
  <2>4. /\ thread' \in [Threads -> ThreadStates] /\ Alone(t)
        /\ thread'[t].at = "claim" /\ thread'[t].kind = thread[t].kind
    BY <1>1, <2>2, <2>3 DEF Alone
  <2> QED BY <1>2, <1>5, <2>2, <2>4
          DEF Moves, Keeps, PlaceOK, At, Holds, Drains, PushPlaces, BookPlaces
<1> QED BY <1>4, <1>6, <1>7, <1>8, <1>9 DEF Good

(* _wan_inflight_lock makes the look at the claims and the claim one step. *)
LEMMA ClaimGood ==
    ASSUME IInv, NEW t \in Threads, Claim(t)
    PROVE  Good(t)
<1>1. thread[t] \in ThreadStates /\ thread \in [Threads -> ThreadStates]
  BY DEF IInv, TypeOK
<1>2. PlaceOK(t) /\ thread[t].at = "claim" BY DEF IInv, Claim, At
<1>3. DiskOK' BY DEF IInv, TypeOK, DiskOK, disk, Claim
<1>4. CASE CanClaim(thread[t].lang)
  <2> DEFINE place == IF thread[t].escalate THEN "loop" ELSE "start"
  <2>1. Goto(t, place) /\ inflight' = inflight \cup {thread[t].lang}
    BY <1>4 DEF Claim
  <2>2. place \in Places BY DEF Places, PushPlaces, BookPlaces
  <2>3. (place = "loop" /\ thread[t].escalate) \/ place = "start"
    OBVIOUS
  <2> HIDE DEF place
  <2>4. /\ thread' \in [Threads -> ThreadStates] /\ Alone(t)
        /\ thread'[t].at = place /\ thread'[t].kind = thread[t].kind
        /\ thread'[t].lang = thread[t].lang /\ thread'[t].escalate = thread[t].escalate
    BY <2>1, <2>2, GotoIs
  <2>5. Drains(t) BY <1>2 DEF PlaceOK
  <2>6. PlaceOK(t)'
    BY <2>3, <2>4, <2>5 DEF PlaceOK, At, Drains
  <2>7. Claiming(t)
    BY <1>2, <1>4, <2>1, <2>3, <2>4, <2>5
       DEF Claiming, CanClaim, Holds, Drains, PushPlaces, BookPlaces
  <2> QED BY <1>3, <2>4, <2>6, <2>7 DEF Good, Moves
<1>5. CASE ~CanClaim(thread[t].lang)
  <2>1. thread' = [thread EXCEPT ![t] = [@ EXCEPT !.at = "next", !.escalate = FALSE]]
        /\ inflight' = inflight
    BY <1>5 DEF Claim
  <2>2. thread' \in [Threads -> ThreadStates] /\ Alone(t)
    BY <1>1, <2>1 DEF ThreadStates, Places, Alone
  <2>3. thread'[t].at = "next" /\ thread'[t].kind = thread[t].kind
    BY <1>1, <2>1 DEF ThreadStates
  <2> QED BY <1>2, <1>3, <2>1, <2>2, <2>3
          DEF Good, Moves, Keeps, PlaceOK, At, Holds, Drains, PushPlaces, BookPlaces
<1> QED BY <1>4, <1>5

(* Whatever comes of a push, a drain goes on to take its mark away.        *)
LEMMA PushGood ==
    ASSUME IInv, NEW t \in Threads, NEW r \in Results, Push(t, r)
    PROVE  Good(t)
<1>1. thread[t] \in ThreadStates /\ thread \in [Threads -> ThreadStates]
  BY DEF IInv, TypeOK
<1>2. PlaceOK(t) /\ thread[t].at = "push" /\ inflight' = inflight
  BY DEF IInv, Push, At, memory
<1>3. DiskOK'
  BY <1>1 DEF IInv, TypeOK, DiskOK, Push, memory, ThreadStates
<1>4. CASE Drains(t)
  <2> DEFINE after == IF thread[t].escalate THEN AfterVisitPush(r) ELSE AfterPush(r)
  <2>1. thread' = [thread EXCEPT ![t] = [@ EXCEPT !.at = "finish", !.after = after]]
    BY <1>4 DEF Push, EndsWith
  <2>2. /\ thread[t].escalate => after \in {"unflag", "clear", "release", "loop"}
        /\ ~thread[t].escalate => after \in {"unflag", "failure", "next"}
    <3>1. AfterVisitPush(r) \in {"unflag", "clear", "release", "loop"}
      BY Zenon DEF AfterVisitPush, Results
    <3>2. AfterPush(r) \in {"unflag", "failure", "next"}
      BY Zenon DEF AfterPush, Results
    <3> QED BY <3>1, <3>2
  <2> HIDE DEF after
  <2>3. after \in Places /\ "finish" \in Places
    BY <1>1, <2>2 DEF Places, BookPlaces, PushPlaces, ThreadStates
  <2>4. thread' \in [Threads -> ThreadStates] /\ Alone(t)
    BY <1>1, <2>1, <2>3 DEF ThreadStates, Alone
  <2>5. /\ thread'[t].at = "finish" /\ thread'[t].kind = thread[t].kind
        /\ thread'[t].lang = thread[t].lang /\ thread'[t].escalate = thread[t].escalate
        /\ thread'[t].after = after
    BY <1>1, <2>1 DEF ThreadStates
  <2>6. PlaceOK(t)'
    BY <1>4, <2>2, <2>5 DEF PlaceOK, At, Drains
  <2>7. Keeps(t)
    BY <1>2, <2>5 DEF Keeps, Holds, Drains, PushPlaces
  <2> QED BY <1>3, <2>4, <2>6, <2>7 DEF Good, Moves
<1>5. CASE ~Drains(t) /\ r = "PUSHED"
  <2>1. Goto(t, "unflag") /\ "unflag" \in Places
    BY <1>5 DEF Push, EndsWith, Places, BookPlaces
  <2>2. /\ thread' \in [Threads -> ThreadStates] /\ Alone(t)
        /\ thread'[t].at = "unflag" /\ thread'[t].kind = thread[t].kind
    BY <2>1, GotoIs
  <2> QED BY <1>2, <1>3, <1>5, <2>2 DEF Good, Moves, Keeps, PlaceOK, At, Holds, Drains
<1>6. CASE ~Drains(t) /\ r # "PUSHED"
  <2>1. Finished(t) BY <1>6 DEF Push, EndsWith
  <2> QED BY <1>2, <1>3, <1>6, <2>1, FinishedIs DEF Good, Moves, Keeps, Holds
<1> QED BY <1>4, <1>5, <1>6

(* After a single push the claim goes at once, after a visit at its end.   *)
LEMMA ReleaseGood ==
    ASSUME IInv, NEW t \in Threads, Settle(t) \/ Release(t)
    PROVE  Good(t)
<1>1. thread[t] \in ThreadStates /\ thread \in [Threads -> ThreadStates]
  BY DEF IInv, TypeOK
<1>2. PlaceOK(t) /\ inflight' = inflight \ {thread[t].lang}
  BY DEF IInv, Settle, Release, Released
<1>3. DiskOK' BY DEF IInv, TypeOK, DiskOK, Settle, Release, disk
<1>4. CASE Settle(t)
  <2>1. thread' = [thread EXCEPT ![t] = [@ EXCEPT !.at = thread[t].after, !.after = "idle"]]
        /\ thread[t].at = "settle"
    BY <1>4 DEF Settle, At
  <2>2. /\ Drains(t) /\ ~thread[t].escalate
        /\ thread[t].after \in {"unflag", "failure", "next"}
    BY <1>2, <2>1 DEF PlaceOK, At
  <2>3. thread' \in [Threads -> ThreadStates] /\ Alone(t)
    BY <1>1, <2>1 DEF ThreadStates, Places, Alone
  <2>4. /\ thread'[t].at = thread[t].after /\ thread'[t].kind = thread[t].kind
        /\ ~thread'[t].escalate
    BY <1>1, <2>1, <2>2 DEF ThreadStates
  <2>5. PlaceOK(t)'
    BY <2>2, <2>4 DEF PlaceOK, At, Drains
  <2>6. Releasing(t)
    BY <1>2, <2>1, <2>2, <2>4 DEF Releasing, Holds, Drains, PushPlaces
  <2> QED BY <1>3, <2>3, <2>5, <2>6 DEF Good, Moves
<1>5. CASE Release(t)
  <2>1. thread' = [thread EXCEPT ![t] = [@ EXCEPT !.at = "next", !.escalate = FALSE, !.iters = 0]]
        /\ thread[t].at = "release"
    BY <1>5 DEF Release, At
  <2>2. Drains(t) /\ thread[t].escalate
    BY <1>2, <2>1 DEF PlaceOK, At
  <2>3. thread' \in [Threads -> ThreadStates] /\ Alone(t)
    <3>1. "next" \in Places /\ 0 \in 0..MaxIters
      BY BoundAssumption DEF Places
    <3>2. [thread[t] EXCEPT !.at = "next", !.escalate = FALSE, !.iters = 0] \in ThreadStates
      BY <1>1, <3>1 DEF ThreadStates
    <3> QED BY <1>1, <2>1, <3>2 DEF Alone
  <2>4. thread'[t].at = "next" /\ thread'[t].kind = thread[t].kind
    BY <1>1, <2>1 DEF ThreadStates
  <2>5. PlaceOK(t)'
    BY <2>2, <2>4 DEF PlaceOK, At, Drains
  <2>6. Releasing(t)
    BY <1>2, <2>1, <2>2, <2>4 DEF Releasing, Holds, Drains, PushPlaces, BookPlaces
  <2> QED BY <1>3, <2>3, <2>5, <2>6 DEF Good, Moves
<1> QED BY <1>4, <1>5

(* An escalated visit keeps its claim over all of its pushes.              *)
LEMMA VisitGood ==
    ASSUME IInv, NEW t \in Threads, Iterate(t) \/ Yield(t) \/ Incomplete(t)
    PROVE  Good(t)
<1>1. thread[t] \in ThreadStates /\ thread \in [Threads -> ThreadStates]
  BY DEF IInv, TypeOK
<1>2. PlaceOK(t) /\ thread[t].at = "loop" /\ UNCHANGED <<disk, memory>>
  BY DEF IInv, Iterate, Yield, Incomplete, At
<1>3. DiskOK' /\ inflight' = inflight
  BY <1>2 DEF IInv, TypeOK, DiskOK, disk, memory
<1>4. Drains(t) /\ thread[t].escalate
  BY <1>2 DEF PlaceOK, At
<1>5. /\ thread' \in [Threads -> ThreadStates] /\ Alone(t)
      /\ thread'[t].at \in {"start", "release", "bump"} /\ thread'[t].kind = thread[t].kind
      /\ thread'[t].lang = thread[t].lang /\ thread'[t].escalate = thread[t].escalate
  <2>1. CASE Iterate(t)
    <3> DEFINE iters == thread[t].iters + 1
    <3>1. thread' = [thread EXCEPT ![t] = [@ EXCEPT !.at = "start", !.iters = iters]]
      BY <2>1 DEF Iterate
    <3>2. iters \in 0..MaxIters /\ "start" \in Places
      BY <1>1, <2>1, BoundAssumption
         DEF Iterate, MoreIters, ThreadStates, Places, PushPlaces
    <3> HIDE DEF iters
    <3> QED BY <1>1, <3>1, <3>2 DEF ThreadStates, Alone
  <2>2. CASE Yield(t)
    BY <2>2, GotoIs DEF Yield, Places, BookPlaces
  <2>3. CASE Incomplete(t)
    BY <2>3, GotoIs DEF Incomplete, Places, BookPlaces
  <2> QED BY <2>1, <2>2, <2>3
<1>6. PlaceOK(t)'
  BY <1>4, <1>5 DEF PlaceOK, At, Drains
<1>7. Keeps(t)
  BY <1>2, <1>3, <1>4, <1>5 DEF Keeps, Holds, Drains, PushPlaces, BookPlaces
<1> QED BY <1>3, <1>5, <1>6, <1>7 DEF Good, Moves

(* Time passes for the files and for what has been loaded of them.         *)
LEMMA WaitPassesGood ==
    ASSUME IInv, NEW l \in Langs, WaitPasses(l)
    PROVE  IInv'
<1>1. ASSUME NEW w \in [Langs -> Entries] PROVE Past(w, l) \in [Langs -> Entries]
  BY DEF Past, Entries
<1>2. wan' \in [Langs -> Entries]
  BY <1>1 DEF IInv, TypeOK, WaitPasses
<1>3. thread' = [t \in Threads |-> [thread[t] EXCEPT !.wan = Past(@, l)]]
  BY DEF WaitPasses
<1>4. ASSUME NEW t \in Threads
      PROVE  /\ thread'[t] \in ThreadStates
             /\ thread'[t].at = thread[t].at /\ thread'[t].kind = thread[t].kind
             /\ thread'[t].lang = thread[t].lang /\ thread'[t].escalate = thread[t].escalate
             /\ thread'[t].after = thread[t].after
  <2>1. thread[t] \in ThreadStates BY DEF IInv, TypeOK
  <2>2. Past(thread[t].wan, l) \in [Langs -> Entries]
    BY <1>1, <2>1 DEF ThreadStates
  <2> QED BY <1>3, <2>1, <2>2 DEF ThreadStates
<1>5. TypeOK'
  <2>1. thread' \in [Threads -> ThreadStates] BY <1>3, <1>4
  <2> QED BY <1>2, <2>1 DEF IInv, TypeOK, WaitPasses, memory
<1>6. \A t \in Threads : PlaceOK(t)'
  BY <1>4 DEF IInv, PlaceOK, At, Drains
<1>7. /\ inflight' = inflight
      /\ \A t \in Threads : (Holds(t)' <=> Holds(t)) /\ thread'[t].lang = thread[t].lang
  BY <1>4 DEF WaitPasses, memory, Holds, Drains
<1>8. Claims'
  BY <1>7 DEF IInv, Claims, OnePush, ClaimIsHeld, HolderIsIn
<1> QED BY <1>5, <1>6, <1>8 DEF IInv

(* The daemon comes up without threads and without claims.                 *)
LEMMA CrashGood ==
    ASSUME IInv, Crash
    PROVE  IInv'
<1>1. thread' = [t \in Threads |-> Idle(thread[t].lang)] /\ inflight' = {}
  BY DEF Crash
<1>2. ASSUME NEW t \in Threads
      PROVE  /\ thread'[t] \in ThreadStates
             /\ thread'[t].at = "idle" /\ thread'[t].kind = "tick" /\ ~thread'[t].escalate
  <2>1. thread[t].lang \in Langs BY DEF IInv, TypeOK, ThreadStates
  <2>2. thread'[t] = Fresh("tick", "idle", {}, thread[t].lang) BY <1>1 DEF Idle
  <2>3. "idle" \in Places /\ "tick" \in Kinds BY DEF Places, Kinds
  <2>4. thread'[t] \in ThreadStates BY <2>1, <2>2, <2>3, FreshType
  <2> QED BY <2>2, <2>4 DEF Fresh
<1>3. TypeOK'
  <2>1. thread' \in [Threads -> ThreadStates] BY <1>1, <1>2
  <2>2. \A l \in Langs : Interrupted(wan[l]) \in Entries
    BY InterruptedType DEF IInv, TypeOK
  <2>3. wan' \in [Langs -> Entries] BY <2>2 DEF Crash, IInv, TypeOK
  <2>4. crashes' \in Nat /\ online' \in BOOLEAN
    <3>1. crashes \in Nat BY DEF IInv, TypeOK
    <3>2. crashes' = crashes + 1 /\ (online' \in BOOLEAN) BY DEF Crash
    <3>3. crashes + 1 \in Nat BY <3>1
    <3> QED BY <3>2, <3>3
  <2>5. UNCHANGED <<head, origin, flagged>>
    BY DEF Crash
  <2> QED BY <1>1, <2>1, <2>3, <2>4, <2>5 DEF IInv, TypeOK
<1>4. \A t \in Threads : PlaceOK(t)' /\ ~Holds(t)'
  BY <1>2 DEF PlaceOK, At, Drains, Holds, PushPlaces, BookPlaces
<1>5. Claims'
  BY <1>1, <1>4 DEF Claims, OnePush, ClaimIsHeld, HolderIsIn
<1> QED BY <1>3, <1>4, <1>5 DEF IInv

-----------------------------------------------------------------------------
(* No thread is at work when the daemon comes up first.                    *)
LEMMA Initially == Init => IInv
<1> SUFFICES ASSUME Init PROVE IInv
  OBVIOUS
<1>1. PICK f \in [Threads -> Langs] : thread = [t \in Threads |-> Idle(f[t])]
  <2> DEFINE f == [t \in Threads |-> CHOOSE l \in Langs : thread[t] = Idle(l)]
  <2>1. \A t \in Threads : f[t] \in Langs /\ thread[t] = Idle(f[t])
    BY DEF Init
  <2> QED BY <2>1 DEF Init
<1>2. ASSUME NEW t \in Threads
      PROVE  /\ thread[t] \in ThreadStates
             /\ thread[t].at = "idle" /\ thread[t].kind = "tick" /\ ~thread[t].escalate
  <2>1. thread[t] = Fresh("tick", "idle", {}, f[t]) BY <1>1 DEF Idle
  <2>2. "idle" \in Places /\ "tick" \in Kinds BY DEF Places, Kinds
  <2>3. thread[t] \in ThreadStates BY <2>1, <2>2, FreshType
  <2> QED BY <2>1, <2>3 DEF Fresh
<1>3. TypeOK
  BY <1>1, <1>2, NoEntriesType DEF Init, TypeOK
<1>4. \A t \in Threads : PlaceOK(t) /\ ~Holds(t)
  BY <1>2 DEF PlaceOK, At, Drains, Holds, PushPlaces, BookPlaces
<1>5. Claims
  BY <1>4 DEF Init, Claims, OnePush, ClaimIsHeld, HolderIsIn
<1> QED BY <1>3, <1>4, <1>5 DEF IInv

(* Every step keeps the invariant.                                         *)
LEMMA Inductive == IInv /\ [Next]_vars => IInv'
<1> SUFFICES ASSUME IInv, [Next]_vars PROVE IInv'
  OBVIOUS
<1>1. ASSUME NEW t \in Threads, Good(t) PROVE IInv'
  BY <1>1, MoveIsGood DEF Good, DiskOK, IInv, TypeOK
<1>2. ASSUME NEW t \in Threads, Starts(t) \/ Works(t) PROVE IInv'
  <2>1. CASE Starts(t) BY <1>1, <2>1, StartsGood
  <2>2. CASE Load(t) BY <1>1, <2>2, LoadGood
  <2>3. CASE SaveWan(t) BY <1>1, <2>3, SaveWanGood
  <2>4. CASE SaveRaises(t) BY <1>1, <2>4, SaveRaisesGood
  <2>5. CASE SaveFlags(t) BY <1>1, <2>5, SaveFlagsGood
  <2>6. CASE \/ \E sweep \in BOOLEAN : Gather(t, sweep)
             \/ LoopOver(t)
             \/ \E l \in Langs : SkipNotDue(t, l) \/ Take(t, l)
    BY <1>1, <2>6, LoopGood
  <2>7. CASE Claim(t) BY <1>1, <2>7, ClaimGood
  <2>8. CASE \E r \in Results : Push(t, r) BY <1>1, <2>8, PushGood
  <2>9. CASE Settle(t) \/ Release(t) BY <1>1, <2>9, ReleaseGood
  <2>10. CASE Iterate(t) \/ Yield(t) \/ Incomplete(t) BY <1>1, <2>10, VisitGood
  <2> QED BY <1>2, <2>1, <2>2, <2>3, <2>4, <2>5, <2>6, <2>7, <2>8, <2>9, <2>10 DEF Works
<1>3. ASSUME NEW l \in Langs, WaitPasses(l) PROVE IInv'
  BY <1>3, WaitPassesGood
<1>4. CASE GoOffline \/ UNCHANGED vars
  <2>1. UNCHANGED <<head, origin, flagged, wan, inflight, crashes, thread>>
    BY <1>4 DEF GoOffline, vars, disk
  <2>2. online' \in BOOLEAN
    BY <1>4 DEF GoOffline, vars, IInv, TypeOK
  <2>3. TypeOK'
    BY <2>1, <2>2 DEF IInv, TypeOK
  <2>4. \A t \in Threads : PlaceOK(t)'
    BY <2>1 DEF IInv, PlaceOK, At, Drains
  <2>5. Claims'
    BY <2>1 DEF IInv, Claims, OnePush, ClaimIsHeld, HolderIsIn, Holds, Drains
  <2> QED BY <2>3, <2>4, <2>5 DEF IInv
<1>5. CASE Crash BY <1>5, CrashGood
<1> QED BY <1>2, <1>3, <1>4, <1>5 DEF Next

(* The claims and the places stay in order, whatever the threads do.       *)
THEOREM Inv == Spec => []IInv
BY Initially, Inductive, PTL DEF Spec

(* The files and the threads hold what they are meant to.                  *)
THEOREM TypeCorrect == Spec => []TypeOK
<1>1. IInv => TypeOK BY DEF IInv
<1> QED BY <1>1, Inv, PTL

(* Two drains are never between the claim and the end of a push of one     *)
(* project, whatever ticks, nudges and escalated visits overlap, whatever  *)
(* raises and whenever the daemon dies.                                    *)
THEOREM OnePushAtATime == Spec => []OnePush
<1>1. IInv => OnePush BY DEF IInv, Claims
<1> QED BY <1>1, Inv, PTL

(* Every project in _wan_inflight has a drain at work that will let go of  *)
(* it: no way out of a push or of a visit leaves a claim behind.           *)
THEOREM ClaimsAreHeld == Spec => []ClaimIsHeld
<1>1. IInv => ClaimIsHeld BY DEF IInv, Claims
<1> QED BY <1>1, Inv, PTL
=============================================================================
