------------------------------ MODULE LanFanOut -----------------------------
(***************************************************************************)
(* The pushes of a project among devices of one network                    *)
(* (azt_collabd/lan_push.py): peek at the peer's head, push, peek again;   *)
(* where the histories have diverged, fetch, merge, push the merge.        *)
(* receive-pack at the other end moves the branch if it is where the       *)
(* pusher saw it, at any time, without the project lock, and whether or    *)
(* not the new head descends from the old one.                             *)
(*                                                                         *)
(* A commit is its history, the edits and the merges, and the order of the *)
(* edits that clash: pairs of which the second gave way to the first, or   *)
(* came on top of it.  The edits and their order make the tree.  A merge   *)
(* is known by its two parents and its tree: _deterministic_merge_commit   *)
(* fixes the rest.  What the working tree of a device does meanwhile is in *)
(* ProjectTree; here an edit is pending when it is on disk only.           *)
(***************************************************************************)
EXTENDS Naturals, FiniteSets

CONSTANTS
    Devices,   \* the devices that share the project
    Own,       \* the edits that each of them makes
    Clashes,   \* pairs of edits whose merge depends on which side is ours
    MaxFailed  \* bound: the commits before a merge that fail

Edits == UNION {Own[d] : d \in Devices}

ASSUME OwnAssumption ==
    \A d, p \in Devices : d # p => Own[d] \cap Own[p] = {}

(* Two added entries (lift_merge puts ours first), two changes of one      *)
(* element (labelled ours and theirs; the attributes are ours), of one     *)
(* file that is not LIFT (ours is kept).                                   *)
ASSUME ClashAssumption ==
    /\ Clashes \subseteq Edits \X Edits
    /\ \A e, f \in Edits : <<e, f>> \in Clashes => <<f, e>> \in Clashes /\ e # f

ASSUME BoundAssumption == MaxFailed \in Nat

VARIABLES
    head,      \* head[d]: the head of the branch of a device
    covered,   \* covered[d][p]: last_covered_local, what p is recorded to have
    at,        \* at[d][p]: where the push from d to p is (_push_inflight)
    local,     \* local_head of that push
    peer,      \* the head of the peer it goes by
    sent,      \* the head it sends
    snapshot,  \* snapshot[d]: the pending edits that a merge of d puts back
    failed     \* how many commits before a merge have failed

pending == <<snapshot, failed>>
vars == <<head, covered, at, local, peer, sent, snapshot, failed>>

(* In the order of the code; at the locked places the push has the project *)
(* lock of its device.                                                     *)
Locked == {"compare", "forward", "merge", "reapply", "deliver", "land"}
Places == {"idle", "peek", "push", "send", "verify", "lost", "fetch", "lock"} \cup Locked

Root == [edits |-> {}, merges |-> {}, order |-> {}]

Init ==
    /\ head = [d \in Devices |-> Root]
    /\ covered = [d \in Devices |-> [p \in Devices |-> Root]]
    /\ at = [d \in Devices |-> [p \in Devices |-> "idle"]]
    /\ local = [d \in Devices |-> [p \in Devices |-> Root]]
    /\ peer = [d \in Devices |-> [p \in Devices |-> Root]]
    /\ sent = [d \in Devices |-> [p \in Devices |-> Root]]
    /\ snapshot = [d \in Devices |-> {}]
    /\ failed = 0

-----------------------------------------------------------------------------
(* Histories.                                                              *)

(* One commit is an ancestor of another, or the same.                      *)
Before(a, b) == a.edits \subseteq b.edits /\ a.merges \subseteq b.merges

(* An edit comes on top of those it clashes with; a new entry goes to the  *)
(* end of the file.                                                        *)
WithEdit(c, e) ==
    [edits  |-> c.edits \cup {e},
     merges |-> c.merges,
     order  |-> c.order \cup ((c.edits \X {e}) \cap Clashes)]

(* A variant with a fault: what they only have is put before ours.         *)
TheirsFirst(mine, theirs) ==
    LET TheirsOnly == theirs.edits \ mine.edits
    IN  mine.order \cup ((TheirsOnly \X mine.edits) \cap Clashes)
        \cup (theirs.order \cap TheirsOnly \X TheirsOnly)

(* three_way_merge: ours as it is, then what they only have, as they have  *)
(* it.                                                                     *)
InOrder(mine, theirs) ==
    LET TheirsOnly == theirs.edits \ mine.edits
    IN  mine.order \cup ((mine.edits \X TheirsOnly) \cap Clashes)
        \cup (theirs.order \cap TheirsOnly \X TheirsOnly)

(* The merge of two heads, as the device makes it whose head is the first. *)
MergeOf(mine, theirs) ==
    [parents |-> {mine, theirs}, order |-> InOrder(mine, theirs)]

Merged(mine, theirs) ==
    [edits  |-> mine.edits \cup theirs.edits,
     merges |-> mine.merges \cup theirs.merges \cup {MergeOf(mine, theirs)},
     order  |-> InOrder(mine, theirs)]

-----------------------------------------------------------------------------
(* Parts of the actions of a push from d to p.                             *)

Goto(d, p, place) == at' = [at EXCEPT ![d][p] = place]

(* set_peer_covered_local                                                  *)
Covers(d, p, c) == covered' = [covered EXCEPT ![d][p] = c]

(* A variant with a fault: the locked part runs without the lock.          *)
NoLock(d) == TRUE

LockFree(d) == \A p \in Devices : at[d][p] \notin Locked

-----------------------------------------------------------------------------
(* A commit of what is staged, under the project lock.                     *)
Commit(d) ==
    /\ LockFree(d)
    /\ \E e \in Own[d] \ head[d].edits : head' = [head EXCEPT ![d] = WithEdit(head[d], e)]
    /\ UNCHANGED <<covered, at, local, peer, sent, pending>>

(* Fan-out, sweep, arrival, reverse delivery: one push to a peer at a time. *)
Begin(d, p) ==
    /\ at[d][p] = "idle"
    /\ Goto(d, p, "peek")
    /\ local' = [local EXCEPT ![d][p] = head[d]]
    /\ UNCHANGED <<head, covered, peer, sent, pending>>

(* ls-remote: the peer is where we are, or behind, or has what we have not. *)
Peek(d, p) ==
    /\ at[d][p] = "peek"
    /\ \/ /\ head[p] = local[d][p]
          /\ Covers(d, p, local[d][p])
          /\ Goto(d, p, "idle")
       \/ /\ head[p] # local[d][p] /\ Before(head[p], head[d])
          /\ Goto(d, p, "push")
          /\ UNCHANGED covered
       \/ /\ head[p] # local[d][p] /\ ~ Before(head[p], head[d])
          /\ Goto(d, p, "fetch")
          /\ UNCHANGED covered
    /\ UNCHANGED <<head, local, peer, sent, pending>>

(* No answer: the push is tried all the same.                              *)
PeekFails(d, p) ==
    /\ at[d][p] = "peek"
    /\ Goto(d, p, "push")
    /\ UNCHANGED <<head, covered, local, peer, sent, pending>>

(* dulwich's check_diverged, before a push that is not forced.             *)
MayPush(a, b) == Before(a, b)

(* porcelain.push reads the peer's refs and sends HEAD as it is by now.    *)
Advertise(d, p) ==
    /\ at[d][p] \in {"push", "deliver"}
    /\ \/ /\ MayPush(head[p], head[d])
          /\ peer' = [peer EXCEPT ![d][p] = head[p]]
          /\ sent' = [sent EXCEPT ![d][p] = head[d]]
          /\ Goto(d, p, IF at[d][p] = "push" THEN "send" ELSE "land")
       \/ /\ ~ MayPush(head[p], head[d])
          /\ Goto(d, p, IF at[d][p] = "push" THEN "fetch" ELSE "idle")
          /\ UNCHANGED <<peer, sent>>
    /\ UNCHANGED <<head, covered, local, pending>>

(* receive-pack: set_if_equals, and no look at the ancestry.               *)
Receives(d, p) ==
    head' = IF head[p] = peer[d][p] THEN [head EXCEPT ![p] = sent[d][p]] ELSE head

(* A refusal is an answer like any other: porcelain.push does not raise.   *)
Land(d, p) ==
    /\ at[d][p] \in {"send", "land"}
    /\ Receives(d, p)
    /\ Goto(d, p, IF at[d][p] = "send" THEN "verify" ELSE "idle")
    /\ UNCHANGED <<covered, local, peer, sent, pending>>

(* The connection breaks after the pack has arrived.                       *)
AnswerLost(d, p) ==
    /\ at[d][p] \in {"send", "land"}
    /\ Receives(d, p)
    /\ Goto(d, p, IF at[d][p] = "send" THEN "lost" ELSE "idle")
    /\ UNCHANGED <<covered, local, peer, sent, pending>>

(* The peek after the push, or after a push whose answer was lost.         *)
Verify(d, p) ==
    /\ at[d][p] \in {"verify", "lost"}
    /\ \/ /\ head[p] = local[d][p]
          /\ Covers(d, p, local[d][p])
          /\ Goto(d, p, "idle")
       \/ /\ head[p] # local[d][p]
          /\ Goto(d, p, IF at[d][p] = "verify" THEN "fetch" ELSE "idle")
          /\ UNCHANGED covered
    /\ UNCHANGED <<head, local, peer, sent, pending>>

(* No answer: after a push that did not raise, the push counts as landed.  *)
VerifyFails(d, p) ==
    /\ at[d][p] = "verify"
    /\ Covers(d, p, local[d][p])
    /\ Goto(d, p, "idle")
    /\ UNCHANGED <<head, local, peer, sent, pending>>

(* _merge_then_push, without the lock.                                     *)
Fetch(d, p) ==
    /\ at[d][p] = "fetch"
    /\ peer' = [peer EXCEPT ![d][p] = head[p]]
    /\ Goto(d, p, "lock")
    /\ UNCHANGED <<head, covered, local, sent, pending>>

(* The lock, and a commit of what is pending: it is made (Commit, just     *)
(* before), or there is nothing to commit ...                              *)
TakeLock(d, p) ==
    /\ at[d][p] = "lock"
    /\ LockFree(d)
    /\ Goto(d, p, "compare")
    /\ UNCHANGED <<head, covered, local, peer, sent, pending>>

(* ... or it fails, and the pending files are kept to be put back.         *)
CommitFails(d, p) ==
    /\ at[d][p] = "lock"
    /\ LockFree(d)
    /\ failed < MaxFailed
    /\ \E e \in Own[d] \ head[d].edits : snapshot' = [snapshot EXCEPT ![d] = {e}]
    /\ failed' = failed + 1
    /\ Goto(d, p, "compare")
    /\ UNCHANGED <<head, covered, local, peer, sent>>

(* Variants with a fault: heads of the same content are merged; heads are  *)
(* never found to differ.                                                  *)
NeverSame(a, b) == FALSE
AlwaysSame(a, b) == TRUE

(* The trees of two heads are the same.                                    *)
SameContent(a, b) == a.edits = b.edits /\ a.order = b.order

(* The exits of _merge_then_push_locked: with edits to put back, only      *)
(* equal heads are left alone.                                             *)
Outcome(mine, theirs, kept) ==
    CASE mine = theirs -> "idle"
      [] mine # theirs /\ kept # {} -> "merge"
      [] kept = {} /\ Before(theirs, mine) /\ mine # theirs -> "deliver"
      [] kept = {} /\ Before(mine, theirs) /\ mine # theirs -> "forward"
      [] kept = {} /\ ~ Before(theirs, mine) /\ ~ Before(mine, theirs) ->
             IF SameContent(mine, theirs) THEN "idle" ELSE "merge"

Leaves(d) == snapshot' = [snapshot EXCEPT ![d] = {}]

Compare(d, p) == LET place == Outcome(head[d], peer[d][p], snapshot[d]) IN
    /\ at[d][p] = "compare"
    /\ local' = [local EXCEPT ![d][p] = head[d]]
    /\ Goto(d, p, place)
    /\ IF place = "merge" THEN UNCHANGED snapshot ELSE Leaves(d)
    /\ UNCHANGED <<head, covered, peer, sent, failed>>

(* A variant with a fault: the ref is written without a compare.           *)
Blindly(d, p) == TRUE

(* set_if_equals, which compares the ref with the head that was read.      *)
Unmoved(d, p) == head[d] = local[d][p]

(* The branch is fast-forwarded if nobody has moved it since.              *)
Forward(d, p) ==
    /\ at[d][p] = "forward"
    /\ \/ /\ Unmoved(d, p)
          /\ head' = [head EXCEPT ![d] = peer[d][p]]
          /\ Covers(d, p, peer[d][p])
       \/ /\ ~ Unmoved(d, p)
          /\ UNCHANGED <<head, covered>>
    /\ Goto(d, p, "idle")
    /\ UNCHANGED <<local, peer, sent, pending>>

(* _merge_diverged writes the branch whether anybody has moved it or not.  *)
Merge(d, p) ==
    /\ at[d][p] = "merge"
    /\ head' = [head EXCEPT ![d] = Merged(local[d][p], peer[d][p])]
    /\ Goto(d, p, IF snapshot[d] = {} THEN "deliver" ELSE "reapply")
    /\ UNCHANGED <<covered, local, peer, sent, pending>>

(* reapply_snapshot_after_merge: the pending file, as it was made on our   *)
(* head, is ours and the merge theirs.                                     *)
Reapplied(mine, merge, e) ==
    [edits  |-> merge.edits \cup {e},
     merges |-> merge.merges,
     order  |-> InOrder(WithEdit(mine, e), merge)]

(* The second commit, which may fail like the first.                       *)
Reapply(d, p) ==
    /\ at[d][p] = "reapply"
    /\ \/ \E e \in snapshot[d] :
             head' = [head EXCEPT ![d] = Reapplied(local[d][p], head[d], e)]
       \/ UNCHANGED head
    /\ Leaves(d)
    /\ Goto(d, p, "deliver")
    /\ UNCHANGED <<covered, local, peer, sent, failed>>

(* Out of reach, a broken connection, a busy lock, no memory, an           *)
(* exception, or the death of the daemon.                                  *)
Abandon(d, p) ==
    /\ at[d][p] # "idle"
    /\ Goto(d, p, "idle")
    /\ IF at[d][p] \in Locked THEN Leaves(d) ELSE UNCHANGED snapshot
    /\ UNCHANGED <<head, covered, local, peer, sent, failed>>

Step(d, p) ==
    \/ Begin(d, p) \/ Peek(d, p) \/ Advertise(d, p) \/ Land(d, p) \/ Verify(d, p)
    \/ Fetch(d, p) \/ TakeLock(d, p) \/ Compare(d, p) \/ Forward(d, p) \/ Merge(d, p)
    \/ Reapply(d, p)

Trouble(d, p) ==
    \/ PeekFails(d, p) \/ AnswerLost(d, p) \/ VerifyFails(d, p) \/ CommitFails(d, p)
    \/ Abandon(d, p)

Next ==
    \/ \E d \in Devices : Commit(d)
    \/ \E d \in Devices : \E p \in Devices \ {d} : Step(d, p) \/ Trouble(d, p)

Spec == Init /\ [][Next]_vars

(* Pushes are asked for again and again, by arrivals, sweeps and reverse   *)
(* deliveries, and from some time on they meet no trouble.                 *)
Calm == \/ \E d \in Devices : Commit(d)
        \/ \E d \in Devices : \E p \in Devices \ {d} : Step(d, p)

FairSpec ==
    /\ Spec
    /\ \A d \in Devices : \A p \in Devices \ {d} : WF_vars(Step(d, p))
    /\ <>[][Calm]_vars

-----------------------------------------------------------------------------
(* Every parent of a merge in a history is in that history; the tables     *)
(* have an entry for each pair of devices.                                 *)
IsHistory(c) ==
    /\ c.edits \subseteq Edits
    /\ \A m \in c.merges : \A a \in m.parents : Before(a, c)

Table(f) ==
    /\ DOMAIN f = Devices
    /\ \A d \in Devices : DOMAIN f[d] = Devices /\ \A p \in Devices : IsHistory(f[d][p])

TypeOK ==
    /\ at \in [Devices -> [Devices -> Places]]
    /\ DOMAIN head = Devices /\ \A d \in Devices : IsHistory(head[d])
    /\ Table(covered) /\ Table(local) /\ Table(peer) /\ Table(sent)
    /\ snapshot \in [Devices -> SUBSET Edits] /\ failed \in 0..MaxFailed

(* A push moves the branch of a peer to a descendant only, though          *)
(* receive-pack would take anything: what takes commits off a branch is    *)
(* its own device's merge at most.                                         *)
PushesForward ==
    [][\A p \in Devices :
         Before(head[p], head'[p]) \/ \E d \in Devices : at[p][d] = "merge" /\ Merge(p, d)]_vars

(* No two devices make edits that clash.                                   *)
Apart == \A d, p \in Devices : d # p => Clashes \cap (Own[d] \X Own[p]) = {}

(* Devices that merge what the others merge come to an end, as long as     *)
(* their edits do not clash: a merge unites two heads that have gone apart *)
(* and have different edits, and none is made of two heads that differ     *)
(* only in the merges that led to them (lan_push.py's last exit). The      *)
(* exception is a merge around a commit that failed.                       *)
MergesUnite ==
    [][\A d, p \in Devices :
         Merge(d, p) /\ snapshot[d] = {} =>
             LET a == local[d][p]  b == peer[d][p]
             IN  a.edits # b.edits /\ ~ Before(a, b) /\ ~ Before(b, a)]_vars

(* What sharing promises, of the edits on the branches.                    *)
Sharing == INSTANCE EditSharing WITH view <- [d \in Devices |-> head[d].edits]
ImplementsSharing == Sharing!SharingSpec

(* In the end all branches have the same edits, whoever pushed when.       *)
Converges == <>[]Sharing!Agreed

(* repo.py:4760: "_merge_diverged already produces a deterministic merge   *)
(* tree -- same inputs, same tree, by design".  It does where no edits of  *)
(* two devices clash.  Where they do, each merge puts its device's own     *)
(* first, and the two merges of the same parents are two commits that have *)
(* to be merged.                                                           *)
SameInputsSameTree ==
    \A d, p \in Devices : \A m \in head[d].merges, n \in head[p].merges :
        m.parents = n.parents => m = n

(* What a device is recorded to have of us, it has: only confirmed         *)
(* deliveries are recorded.                                                *)
CoveredIsThere ==
    \A d \in Devices : \A p \in Devices \ {d} : Before(covered[d][p], head[p])
=============================================================================
