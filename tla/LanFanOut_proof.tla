--------------------------- MODULE LanFanOut_proof --------------------------
(***************************************************************************)
(* The safety of the pushes among any devices with any edits.  A head is   *)
(* sent, fetched and merged long after it was read, and the merge writes   *)
(* the branch without a compare.  No edit is lost by its maker because     *)
(* nobody but the maker can add to the maker's edits: whatever is under    *)
(* way has no more of them than the maker's own branch.                    *)
(***************************************************************************)
EXTENDS LanFanOut, TLAPS

(* What a history has of the edits of a device, that device has.           *)
Known(h, c) == \A d \in Devices : c.edits \cap Own[d] \subseteq h[d].edits

AllKnown ==
    /\ \A x \in Devices : Known(head, head[x])
    /\ \A x, y \in Devices :
          /\ Known(head, covered[x][y]) /\ Known(head, local[x][y])
          /\ Known(head, peer[x][y]) /\ Known(head, sent[x][y])

(* The histories that are recorded somewhere.                              *)
Recorded(c) ==
    \E x, y \in Devices : c \in {head[x], covered[x][y], local[x][y], peer[x][y], sent[x][y]}

(* At most one push of a device has its project lock.                      *)
OneLocked ==
    \A d, p, q \in Devices : at[d][p] \in Locked /\ at[d][q] \in Locked => p = q

(* Two heads that are merged: neither has the other, and they differ.      *)
GoneApart(a, b) == ~ Before(a, b) /\ ~ Before(b, a) /\ ~ SameContent(a, b)

Merging == {"merge", "reapply"}

(* What the place of a push says of the heads it has read.                 *)
SendForward ==
    \A d, p \in Devices : at[d][p] \in {"send", "land"} => Before(peer[d][p], sent[d][p])
ForwardForward ==
    \A d, p \in Devices : at[d][p] = "forward" => Before(local[d][p], peer[d][p])
OwnInLocal ==
    \A d, p \in Devices :
        at[d][p] \in Merging => head[d].edits \cap Own[d] \subseteq local[d][p].edits
MergeApart ==
    \A d, p \in Devices :
        at[d][p] = "merge" /\ snapshot[d] = {} => GoneApart(local[d][p], peer[d][p])

(* What is put back after a merge is the device's own.                     *)
SnapshotOwn == \A d \in Devices : snapshot[d] \subseteq Own[d]

IInv ==
    /\ TypeOK /\ AllKnown /\ OneLocked
    /\ SendForward /\ ForwardForward /\ OwnInLocal /\ MergeApart /\ SnapshotOwn

-----------------------------------------------------------------------------
(* Histories and tables.                                                   *)

LEMMA Order ==
    /\ \A a : Before(a, a)
    /\ \A a, b, c : Before(a, b) /\ Before(b, c) => Before(a, c)
  BY DEF Before

LEMMA MergedIsHistory ==
    ASSUME NEW a, NEW b, IsHistory(a), IsHistory(b)
    PROVE  IsHistory(Merged(a, b)) /\ Before(a, Merged(a, b)) /\ Before(b, Merged(a, b))
<1>1. Before(a, Merged(a, b)) /\ Before(b, Merged(a, b))
  BY DEF Before, Merged
<1>2. Merged(a, b).edits \subseteq Edits
  BY DEF IsHistory, Merged
<1>3. ASSUME NEW m \in Merged(a, b).merges, NEW x \in m.parents PROVE Before(x, Merged(a, b))
  <2>1. m \in a.merges \/ m \in b.merges \/ m.parents = {a, b}
    BY DEF Merged, MergeOf
  <2>2. CASE m \in a.merges
    BY <1>1, <2>2, Order DEF IsHistory
  <2>3. CASE m \in b.merges
    BY <1>1, <2>3, Order DEF IsHistory
  <2> QED
    BY <1>1, <2>1, <2>2, <2>3
<1> QED
  BY <1>1, <1>2, <1>3 DEF IsHistory

LEMMA WithEditIsHistory ==
    ASSUME NEW a, IsHistory(a), NEW e \in Edits
    PROVE  IsHistory(WithEdit(a, e)) /\ Before(a, WithEdit(a, e))
<1>1. Before(a, WithEdit(a, e))
  BY DEF Before, WithEdit
<1> QED
  BY <1>1, Order DEF IsHistory, WithEdit

LEMMA ReappliedIsHistory ==
    ASSUME NEW a, NEW b, IsHistory(b), NEW e \in Edits
    PROVE  IsHistory(Reapplied(a, b, e)) /\ Before(b, Reapplied(a, b, e))
<1>1. Before(b, Reapplied(a, b, e))
  BY DEF Before, Reapplied
<1> QED
  BY <1>1, Order DEF IsHistory, Reapplied

(* A write changes one entry of a table.                                   *)
LEMMA Entry ==
    ASSUME NEW f, DOMAIN f = Devices, \A x \in Devices : DOMAIN f[x] = Devices,
           NEW d \in Devices, NEW p \in Devices, NEW c
    PROVE  LET g == [f EXCEPT ![d][p] = c]
           IN  /\ DOMAIN g = Devices /\ \A x \in Devices : DOMAIN g[x] = Devices
               /\ g[d][p] = c
               /\ \A x, y \in Devices : x # d \/ y # p => g[x][y] = f[x][y]
  OBVIOUS

LEMMA TableEntry ==
    ASSUME NEW f, Table(f), NEW d \in Devices, NEW p \in Devices, NEW c, IsHistory(c)
    PROVE  Table([f EXCEPT ![d][p] = c])
  BY Entry DEF Table

LEMMA AtEntry ==
    ASSUME TypeOK, NEW d \in Devices, NEW p \in Devices, NEW place \in Places,
           Goto(d, p, place)
    PROVE  /\ at' \in [Devices -> [Devices -> Places]]
           /\ at'[d][p] = place
           /\ \A x, y \in Devices : x # d \/ y # p => at'[x][y] = at[x][y]
  BY DEF TypeOK, Goto

LEMMA InitInv == Init => IInv
<1> SUFFICES ASSUME Init PROVE IInv
  OBVIOUS
<1>1. Root.edits = {} /\ Root.merges = {} /\ IsHistory(Root)
  BY DEF Root, IsHistory
<1>2. TypeOK
  BY <1>1, BoundAssumption DEF Init, TypeOK, Table, Places
<1>3. AllKnown
  BY <1>1 DEF Init, AllKnown, Known
<1>4. OneLocked /\ SendForward /\ ForwardForward /\ OwnInLocal /\ MergeApart /\ SnapshotOwn
  BY DEF Init, OneLocked, SendForward, ForwardForward, OwnInLocal, MergeApart, SnapshotOwn,
     Locked, Merging
<1> QED
  BY <1>2, <1>3, <1>4 DEF IInv

-----------------------------------------------------------------------------
(* What a step does to the heads.                                          *)

(* Devices keep their own edits, and get no new ones while a push of       *)
(* theirs is merging; what they have of others, these have.                *)
HeadsGrow ==
    /\ DOMAIN head' = Devices
    /\ \A x \in Devices :
          /\ IsHistory(head'[x])
          /\ \/ Known(head, head'[x])
             \/ \E e \in Own[x] : head'[x].edits = head[x].edits \cup {e}
    /\ \A x \in Devices : head[x].edits \cap Own[x] \subseteq head'[x].edits
    /\ \A x, y \in Devices : at[x][y] \in Merging /\ at'[x][y] \in Merging
          => head'[x].edits \cap Own[x] \subseteq head[x].edits

(* A branch moves forward but for the merges of its device.                *)
HeadsForward ==
    \A x \in Devices :
        Before(head[x], head'[x]) \/ \E y \in Devices : at[x][y] = "merge" /\ Merge(x, y)

LEMMA HeadTo ==
    ASSUME IInv, NEW x \in Devices, NEW c, IsHistory(c), Known(head, c),
           head[x].edits \cap Own[x] \subseteq c.edits,
           head' = [head EXCEPT ![x] = c]
    PROVE  HeadsGrow
<1>1. DOMAIN head = Devices /\ DOMAIN head' = Devices
  BY DEF IInv, TypeOK
<1>2. head'[x] = c /\ \A y \in Devices : y # x => head'[y] = head[y]
  BY <1>1
<1>3. \A y \in Devices : IsHistory(head[y]) /\ Known(head, head[y])
  BY DEF IInv, TypeOK, AllKnown
<1>4. \A y \in Devices : IsHistory(head'[y]) /\ Known(head, head'[y])
  BY <1>2, <1>3
<1>5. \A y \in Devices : head[y].edits \cap Own[y] \subseteq head'[y].edits
  BY <1>2
<1>6. \A y \in Devices : head'[y].edits \cap Own[y] \subseteq head[y].edits
  BY <1>4 DEF Known
<1> QED
  BY <1>1, <1>4, <1>5, <1>6 DEF HeadsGrow

LEMMA HeadSame == ASSUME IInv, UNCHANGED head PROVE HeadsGrow /\ HeadsForward
<1>1. HeadsGrow
  BY DEF IInv, TypeOK, AllKnown, HeadsGrow
<1>2. HeadsForward
  BY Order DEF HeadsForward
<1> QED
  BY <1>1, <1>2

LEMMA CommitHead ==
    ASSUME IInv, NEW d \in Devices, Commit(d) PROVE HeadsGrow /\ HeadsForward
<1>1. PICK e \in Own[d] : head' = [head EXCEPT ![d] = WithEdit(head[d], e)]
  BY DEF Commit
<1>2. DOMAIN head = Devices /\ DOMAIN head' = Devices
  BY <1>1 DEF IInv, TypeOK
<1>3. head'[d] = WithEdit(head[d], e) /\ \A y \in Devices : y # d => head'[y] = head[y]
  BY <1>1, <1>2
<1>4. \A y \in Devices : IsHistory(head[y]) /\ Known(head, head[y])
  BY DEF IInv, TypeOK, AllKnown
<1>5. \A y \in Devices : Before(head[y], head'[y])
  BY <1>3, Order DEF Before, WithEdit
<1>6. \A y \in Devices : at[d][y] \notin Merging
  BY DEF Commit, LockFree, Locked, Merging
<1>7. IsHistory(head'[d]) /\ head'[d].edits = head[d].edits \cup {e}
  BY <1>3, <1>4, WithEditIsHistory DEF Edits, WithEdit
<1>8. HeadsGrow
  BY <1>2, <1>3, <1>4, <1>5, <1>6, <1>7 DEF HeadsGrow, Before
<1> QED
  BY <1>5, <1>8 DEF HeadsForward

LEMMA ReappliedHead ==
    ASSUME IInv, NEW d \in Devices, NEW p \in Devices, Reapply(d, p)
    PROVE  HeadsGrow /\ HeadsForward
<1>1. CASE UNCHANGED head
  BY <1>1, HeadSame
<1>2. ASSUME NEW e \in snapshot[d],
             head' = [head EXCEPT ![d] = Reapplied(local[d][p], head[d], e)]
      PROVE  HeadsGrow /\ HeadsForward
  <2>1. e \in Own[d] /\ e \in Edits
    BY <1>2 DEF IInv, SnapshotOwn, Edits
  <2>2. DOMAIN head = Devices /\ DOMAIN head' = Devices
    BY <1>2 DEF IInv, TypeOK
  <2>3. /\ head'[d] = Reapplied(local[d][p], head[d], e)
        /\ \A y \in Devices : y # d => head'[y] = head[y]
    BY <1>2, <2>2
  <2>4. \A y \in Devices : IsHistory(head[y]) /\ Known(head, head[y])
    BY DEF IInv, TypeOK, AllKnown
  <2>5. IsHistory(head'[d]) /\ Before(head[d], head'[d])
    BY <2>1, <2>3, <2>4, ReappliedIsHistory
  <2>6. head'[d].edits = head[d].edits \cup {e}
    BY <2>3 DEF Reapplied
  <2>7. \A y \in Devices : at[d][y] \in Merging => y = p /\ at'[d][y] \notin Merging
    <3>1. at[d][p] = "reapply" /\ at'[d][p] = "deliver"
      BY DEF Reapply, Goto, IInv, TypeOK
    <3> QED
      BY <3>1 DEF IInv, OneLocked, Locked, Merging
  <2>8. HeadsGrow
    BY <2>1, <2>2, <2>3, <2>4, <2>5, <2>6, <2>7 DEF HeadsGrow
  <2>9. HeadsForward
    BY <2>3, <2>5, Order DEF HeadsForward
  <2> QED
    BY <2>8, <2>9
<1> QED
  BY <1>1, <1>2 DEF Reapply

LEMMA ReceivesHead ==
    ASSUME IInv, NEW d \in Devices, NEW p \in Devices, at[d][p] \in {"send", "land"}, Receives(d, p)
    PROVE  HeadsGrow /\ HeadsForward
<1>1. CASE head[p] # peer[d][p]
  BY <1>1, HeadSame DEF Receives
<1>2. CASE head[p] = peer[d][p]
  <2>1. head' = [head EXCEPT ![p] = sent[d][p]]
    BY <1>2 DEF Receives
  <2>2. Before(head[p], sent[d][p])
    BY <1>2 DEF IInv, SendForward
  <2>3. IsHistory(sent[d][p]) /\ Known(head, sent[d][p])
    BY DEF IInv, TypeOK, Table, AllKnown
  <2>4. HeadsGrow
    BY <2>1, <2>2, <2>3, HeadTo DEF Before
  <2>5. HeadsForward
    BY <2>1, <2>2, Order DEF HeadsForward, IInv, TypeOK
  <2> QED
    BY <2>4, <2>5
<1> QED
  BY <1>1, <1>2

LEMMA ForwardHead ==
    ASSUME IInv, NEW d \in Devices, NEW p \in Devices, Forward(d, p)
    PROVE  HeadsGrow /\ HeadsForward
<1>1. CASE head' = head
  BY <1>1, HeadSame
<1>2. CASE head[d] = local[d][p] /\ head' = [head EXCEPT ![d] = peer[d][p]]
  <2>2. Before(head[d], peer[d][p])
    BY <1>2 DEF IInv, ForwardForward, Forward
  <2>3. IsHistory(peer[d][p]) /\ Known(head, peer[d][p])
    BY DEF IInv, TypeOK, Table, AllKnown
  <2>4. HeadsGrow
    BY <1>2, <2>2, <2>3, HeadTo DEF Before
  <2>5. HeadsForward
    BY <1>2, <2>2, Order DEF HeadsForward, IInv, TypeOK
  <2> QED
    BY <2>4, <2>5
<1> QED
  BY <1>1, <1>2 DEF Forward, Unmoved

LEMMA MergeHead ==
    ASSUME IInv, NEW d \in Devices, NEW p \in Devices, Merge(d, p)
    PROVE  HeadsGrow /\ HeadsForward
<1> DEFINE c == Merged(local[d][p], peer[d][p])
<1>1. IsHistory(local[d][p]) /\ IsHistory(peer[d][p])
  BY DEF IInv, TypeOK, Table
<1>2. Known(head, local[d][p]) /\ Known(head, peer[d][p])
  BY DEF IInv, AllKnown
<1>3. IsHistory(c)
  BY <1>1, MergedIsHistory
<1>4. c.edits = local[d][p].edits \cup peer[d][p].edits
  BY DEF Merged
<1>5. Known(head, c)
  BY <1>2, <1>4 DEF Known
<1>6. head[d].edits \cap Own[d] \subseteq c.edits
  BY <1>4 DEF IInv, OwnInLocal, Merge, Merging
<1>7. head' = [head EXCEPT ![d] = c]
  BY DEF Merge
<1>8. HeadsGrow
  <2> HIDE DEF c
  <2> QED
    BY <1>3, <1>5, <1>6, <1>7, HeadTo
<1>9. HeadsForward
  <2>1. \A y \in Devices : y # d => head'[y] = head[y]
    BY <1>7 DEF IInv, TypeOK
  <2> QED
    BY <2>1, Order DEF HeadsForward, Merge
<1> QED
  BY <1>8, <1>9

LEMMA HeadStep == ASSUME IInv, [Next]_vars PROVE HeadsGrow /\ HeadsForward
<1>1. CASE UNCHANGED vars
  BY <1>1, HeadSame DEF vars
<1>2. CASE \E d \in Devices : Commit(d)
  BY <1>2, CommitHead
<1>3. ASSUME NEW d \in Devices, NEW p \in Devices, Step(d, p) \/ Trouble(d, p)
      PROVE  HeadsGrow /\ HeadsForward
  <2>1. CASE Begin(d, p) \/ Peek(d, p) \/ PeekFails(d, p) \/ Advertise(d, p) \/ Verify(d, p)
             \/ VerifyFails(d, p) \/ Fetch(d, p) \/ TakeLock(d, p) \/ CommitFails(d, p)
             \/ Compare(d, p) \/ Abandon(d, p)
    BY <2>1, HeadSame
       DEF Begin, Peek, PeekFails, Advertise, Verify, VerifyFails, Fetch, TakeLock, CommitFails,
           Compare, Abandon
  <2>2. CASE Land(d, p) \/ AnswerLost(d, p)
    BY <2>2, ReceivesHead DEF Land, AnswerLost
  <2>3. CASE Forward(d, p)
    BY <2>3, ForwardHead
  <2>4. CASE Merge(d, p)
    BY <2>4, MergeHead
  <2>5. CASE Reapply(d, p)
    BY <2>5, ReappliedHead
  <2> QED
    BY <1>3, <2>1, <2>2, <2>3, <2>4, <2>5 DEF Step, Trouble
<1> QED
  BY <1>1, <1>2, <1>3 DEF Next

(* What was known stays known, and the new heads are known.                *)
LEMMA KnownGrows ==
    ASSUME IInv, HeadsGrow
    PROVE  /\ \A c : Known(head, c) => Known(head', c)
           /\ \A x \in Devices : IsHistory(head'[x]) /\ Known(head', head'[x])
<1>1. \A c : Known(head, c) => Known(head', c)
  BY DEF HeadsGrow, Known
<1>2. ASSUME NEW x \in Devices PROVE IsHistory(head'[x]) /\ Known(head', head'[x])
  <2>1. CASE Known(head, head'[x])
    BY <1>1, <2>1 DEF HeadsGrow
  <2>2. ASSUME NEW e \in Own[x], head'[x].edits = head[x].edits \cup {e}
        PROVE  Known(head', head'[x])
    <3>1. Known(head', head[x])
      BY <1>1 DEF IInv, AllKnown
    <3>2. \A y \in Devices : y # x => e \notin Own[y]
      BY OwnAssumption
    <3> QED
      BY <2>2, <3>1, <3>2 DEF Known
  <2> QED
    BY <2>1, <2>2 DEF HeadsGrow
<1> QED
  BY <1>1, <1>2

-----------------------------------------------------------------------------
(* What a step does to the tables of heads.                                *)

LEMMA RecordedKnown ==
    ASSUME IInv, NEW c, Recorded(c) PROVE IsHistory(c) /\ Known(head, c)
  BY DEF IInv, TypeOK, Table, AllKnown, Recorded

(* At most one entry of a table is written, with a recorded history.       *)
Written(f, g) ==
    \/ g = f
    \/ \E d, p \in Devices : \E c : Recorded(c) /\ g = [f EXCEPT ![d][p] = c]

KnownTable(h, f) == Table(f) /\ \A x, y \in Devices : Known(h, f[x][y])

LEMMA WrittenTable ==
    ASSUME IInv, HeadsGrow, NEW f, NEW g, KnownTable(head, f), Written(f, g)
    PROVE  KnownTable(head', g)
<1>1. CASE g = f
  BY <1>1, KnownGrows DEF KnownTable
<1>2. ASSUME NEW d \in Devices, NEW p \in Devices, NEW c, Recorded(c), g = [f EXCEPT ![d][p] = c]
      PROVE  KnownTable(head', g)
  <2>1. IsHistory(c) /\ Known(head, c)
    BY <1>2, RecordedKnown
  <2>2. Table(g)
    BY <1>2, <2>1, TableEntry DEF KnownTable
  <2>3. \A x, y \in Devices : g[x][y] = c \/ g[x][y] = f[x][y]
    BY <1>2, Entry DEF KnownTable, Table
  <2> QED
    BY <2>1, <2>2, <2>3, KnownGrows DEF KnownTable
<1> QED
  BY <1>1, <1>2 DEF Written

LEMMA TablesWritten ==
    ASSUME IInv, [Next]_vars
    PROVE  Written(covered, covered') /\ Written(local, local')
           /\ Written(peer, peer') /\ Written(sent, sent')
<1>1. \A x \in Devices : Recorded(head[x])
  BY DEF Recorded
<1>2. \A x, y \in Devices : Recorded(local[x][y]) /\ Recorded(peer[x][y])
  BY DEF Recorded
<1>3. CASE UNCHANGED vars
  BY <1>3 DEF vars, Written
<1>4. CASE \E d \in Devices : Commit(d)
  BY <1>4 DEF Commit, Written
<1>5. ASSUME NEW d \in Devices, NEW p \in Devices, Step(d, p) \/ Trouble(d, p)
      PROVE  Written(covered, covered') /\ Written(local, local')
             /\ Written(peer, peer') /\ Written(sent, sent')
  <2>1. Written(covered, covered')
    BY <1>2, <1>5 DEF Written, Covers, Step, Trouble, Begin, Peek, PeekFails, Advertise, Land, AnswerLost,
       Verify, VerifyFails, Fetch, TakeLock, CommitFails,
       Compare, Forward, Merge, Reapply, Abandon
  <2>2. Written(local, local')
    BY <1>1, <1>5 DEF Written, Step, Trouble, Begin, Peek, PeekFails, Advertise, Land, AnswerLost,
       Verify, VerifyFails, Fetch, TakeLock, CommitFails,
       Compare, Forward, Merge, Reapply, Abandon
  <2>3. Written(peer, peer')
    BY <1>1, <1>5 DEF Written, Step, Trouble, Begin, Peek, PeekFails, Advertise, Land, AnswerLost,
       Verify, VerifyFails, Fetch, TakeLock, CommitFails,
       Compare, Forward, Merge, Reapply, Abandon
  <2>4. Written(sent, sent')
    BY <1>1, <1>5 DEF Written, Step, Trouble, Begin, Peek, PeekFails, Advertise, Land, AnswerLost,
       Verify, VerifyFails, Fetch, TakeLock, CommitFails,
       Compare, Forward, Merge, Reapply, Abandon
  <2> QED
    BY <2>1, <2>2, <2>3, <2>4
<1> QED
  BY <1>3, <1>4, <1>5 DEF Next

-----------------------------------------------------------------------------
(* What a step does to the places.                                         *)

(* Only the push that has the lock, or takes it, writes the snapshot.      *)
SnapshotMoves(d, p) ==
    /\ snapshot' \in [Devices -> SUBSET Edits]
    /\ snapshot'[d] \subseteq Own[d]
    /\ \A x \in Devices : x # d => snapshot'[x] = snapshot[x]
    /\ snapshot'[d] # snapshot[d] => at[d][p] \in Locked \/ LockFree(d)

(* A push moves to a place at which it knows what is known there.          *)
MovesTo(d, p, place) ==
    /\ Goto(d, p, place)
    /\ place \in Locked => at[d][p] \in Locked \/ LockFree(d)
    /\ place \in {"send", "land"} => Before(peer'[d][p], sent'[d][p])
    /\ place = "forward" => Before(local'[d][p], peer'[d][p])
    /\ place \in Merging => head'[d].edits \cap Own[d] \subseteq local'[d][p].edits
    /\ place = "merge" /\ snapshot'[d] = {} => GoneApart(local'[d][p], peer'[d][p])
    /\ \A x, y \in Devices : x # d \/ y # p =>
          local'[x][y] = local[x][y] /\ peer'[x][y] = peer[x][y] /\ sent'[x][y] = sent[x][y]
    /\ SnapshotMoves(d, p)

PlacesKept ==
    /\ at' \in [Devices -> [Devices -> Places]]
    /\ OneLocked' /\ SendForward' /\ ForwardForward' /\ OwnInLocal' /\ MergeApart'
    /\ snapshot' \in [Devices -> SUBSET Edits] /\ SnapshotOwn'

LEMMA MovesKeep ==
    ASSUME IInv, HeadsGrow, NEW d \in Devices, NEW p \in Devices, NEW place \in Places,
           MovesTo(d, p, place)
    PROVE  PlacesKept
<1>1. /\ at' \in [Devices -> [Devices -> Places]]
      /\ at'[d][p] = place
      /\ \A x, y \in Devices : x # d \/ y # p => at'[x][y] = at[x][y]
  BY AtEntry DEF MovesTo, IInv
<1>2. OneLocked'
  BY <1>1 DEF IInv, OneLocked, MovesTo, LockFree
<1>3. SendForward'
  BY <1>1 DEF IInv, SendForward, MovesTo
<1>4. ForwardForward'
  BY <1>1 DEF IInv, ForwardForward, MovesTo
<1>5. OwnInLocal'
  <2> SUFFICES ASSUME NEW x \in Devices, NEW y \in Devices, at'[x][y] \in Merging
               PROVE  head'[x].edits \cap Own[x] \subseteq local'[x][y].edits
    BY DEF OwnInLocal
  <2>1. CASE x = d /\ y = p
    BY <1>1, <2>1 DEF MovesTo
  <2>2. CASE x # d \/ y # p
    <3>1. at[x][y] \in Merging /\ local'[x][y] = local[x][y]
      BY <1>1, <2>2 DEF MovesTo
    <3>2. head'[x].edits \cap Own[x] \subseteq head[x].edits
      BY <3>1 DEF HeadsGrow
    <3> QED
      BY <3>1, <3>2 DEF IInv, OwnInLocal
  <2> QED
    BY <2>1, <2>2
<1>6. MergeApart'
  <2> SUFFICES ASSUME NEW x \in Devices, NEW y \in Devices,
                      at'[x][y] = "merge", snapshot'[x] = {}
               PROVE  GoneApart(local'[x][y], peer'[x][y])
    BY DEF MergeApart
  <2>1. CASE x = d /\ y = p
    BY <1>1, <2>1 DEF MovesTo
  <2>2. CASE x # d \/ y # p
    <3>1. at[x][y] = "merge" /\ local'[x][y] = local[x][y] /\ peer'[x][y] = peer[x][y]
      BY <1>1, <2>2 DEF MovesTo
    <3>2. snapshot'[x] = snapshot[x]
      BY <2>2, <3>1 DEF MovesTo, SnapshotMoves, IInv, OneLocked, LockFree, Locked
    <3> QED
      BY <3>1, <3>2 DEF IInv, MergeApart
  <2> QED
    BY <2>1, <2>2
<1>7. snapshot' \in [Devices -> SUBSET Edits] /\ SnapshotOwn'
  BY DEF MovesTo, SnapshotMoves, SnapshotOwn, IInv
<1> QED
  BY <1>1, <1>2, <1>3, <1>4, <1>5, <1>6, <1>7 DEF PlacesKept

(* Writing an entry of a table leaves the others.                          *)
LEMMA TablesShaped ==
    ASSUME IInv
    PROVE  /\ DOMAIN local = Devices /\ \A x \in Devices : DOMAIN local[x] = Devices
           /\ DOMAIN peer = Devices /\ \A x \in Devices : DOMAIN peer[x] = Devices
           /\ DOMAIN sent = Devices /\ \A x \in Devices : DOMAIN sent[x] = Devices
  BY DEF IInv, TypeOK, Table

LEMMA OutcomeIs ==
    ASSUME NEW a, NEW b, NEW kept
    PROVE  LET place == Outcome(a, b, kept)
           IN  /\ place \in {"idle", "deliver", "forward", "merge"}
               /\ place = "forward" => Before(a, b)
               /\ place = "merge" /\ kept = {} => GoneApart(a, b)
<1>1. CASE a = b
  BY <1>1 DEF Outcome, Before
<1>2. CASE a # b /\ kept # {}
  BY <1>2 DEF Outcome
<1>3. CASE a # b /\ kept = {} /\ Before(b, a) /\ Before(a, b)
  BY <1>3, Zenon DEF Outcome
<1>4. CASE a # b /\ kept = {} /\ Before(b, a) /\ ~ Before(a, b)
  BY <1>4 DEF Outcome
<1>5. CASE a # b /\ kept = {} /\ ~ Before(b, a) /\ Before(a, b)
  BY <1>5 DEF Outcome
<1>6. CASE a # b /\ kept = {} /\ ~ Before(b, a) /\ ~ Before(a, b)
  BY <1>6, Zenon DEF Outcome, GoneApart
<1> QED
  BY <1>1, <1>2, <1>3, <1>4, <1>5, <1>6

LEMMA SnapshotStep ==
    ASSUME IInv, NEW d \in Devices, NEW p \in Devices, Step(d, p) \/ Trouble(d, p)
    PROVE  SnapshotMoves(d, p) /\ failed' \in 0..MaxFailed
<1>1. snapshot \in [Devices -> SUBSET Edits] /\ snapshot[d] \subseteq Own[d] /\ failed \in 0..MaxFailed
  BY DEF IInv, TypeOK, SnapshotOwn
<1>2. CASE UNCHANGED pending
  BY <1>1, <1>2 DEF pending, SnapshotMoves
<1>3. CASE Leaves(d) /\ UNCHANGED failed /\ at[d][p] \in Locked
  BY <1>1, <1>3 DEF Leaves, SnapshotMoves
<1>4. CASE CommitFails(d, p)
  <2>1. PICK e \in Own[d] : snapshot' = [snapshot EXCEPT ![d] = {e}]
    BY <1>4 DEF CommitFails
  <2>2. e \in Edits
    BY DEF Edits
  <2>3. failed' = failed + 1 /\ failed < MaxFailed /\ LockFree(d)
    BY <1>4 DEF CommitFails
  <2>4. failed' \in 0..MaxFailed
    BY <1>1, <2>3, BoundAssumption
  <2> QED
    BY <1>1, <2>1, <2>2, <2>3, <2>4 DEF SnapshotMoves
<1>5. CASE Compare(d, p)
  BY <1>2, <1>3, <1>5 DEF Compare, pending, Locked
<1>6. CASE Abandon(d, p)
  BY <1>2, <1>3, <1>6 DEF Abandon, pending
<1>7. CASE Reapply(d, p)
  BY <1>3, <1>7 DEF Reapply, Locked
<1> QED
  BY <1>2, <1>4, <1>5, <1>6, <1>7 DEF Step, Trouble, Begin, Peek, PeekFails, Advertise, Land, AnswerLost,
     Verify, VerifyFails, Fetch, TakeLock, Forward, Merge

LEMMA PushMoves ==
    ASSUME IInv, HeadsGrow, NEW d \in Devices, NEW p \in Devices, Step(d, p) \/ Trouble(d, p)
    PROVE  \E place \in Places : MovesTo(d, p, place)
<1> USE SnapshotStep DEF MovesTo, Places, Locked, Merging
<1>1. CASE Begin(d, p)
  BY <1>1, TablesShaped DEF Begin
<1>2. CASE Peek(d, p) \/ PeekFails(d, p) \/ Verify(d, p) \/ VerifyFails(d, p) \/ Abandon(d, p)
  BY <1>2 DEF Peek, PeekFails, Verify, VerifyFails, Abandon
<1>3. CASE Advertise(d, p)
  <2>1. CASE MayPush(head[p], head[d])
    <3>1. peer' = [peer EXCEPT ![d][p] = head[p]] /\ sent' = [sent EXCEPT ![d][p] = head[d]]
      BY <1>3, <2>1 DEF Advertise
    <3>2. Before(peer'[d][p], sent'[d][p])
      BY <2>1, <3>1, TablesShaped DEF MayPush
    <3>3. \A x, y \in Devices : x # d \/ y # p =>
             peer'[x][y] = peer[x][y] /\ sent'[x][y] = sent[x][y]
      BY <3>1, TablesShaped
    <3>4. CASE at[d][p] = "push"
      BY <1>3, <2>1, <3>2, <3>3, <3>4 DEF Advertise
    <3>5. CASE at[d][p] = "deliver"
      BY <1>3, <2>1, <3>2, <3>3, <3>5 DEF Advertise
    <3> QED
      BY <1>3, <3>4, <3>5 DEF Advertise
  <2>2. CASE ~ MayPush(head[p], head[d])
    BY <1>3, <2>2 DEF Advertise
  <2> QED
    BY <2>1, <2>2
<1>4. CASE Land(d, p) \/ AnswerLost(d, p)
  BY <1>4 DEF Land, AnswerLost
<1>5. CASE Fetch(d, p)
  BY <1>5, TablesShaped DEF Fetch
<1>6. CASE TakeLock(d, p) \/ CommitFails(d, p)
  BY <1>6 DEF TakeLock, CommitFails
<1>7. CASE Compare(d, p)
  <2> DEFINE place == Outcome(head[d], peer[d][p], snapshot[d])
  <2>1. local' = [local EXCEPT ![d][p] = head[d]] /\ UNCHANGED <<head, peer, sent>>
    BY <1>7 DEF Compare
  <2>2. local'[d][p] = head[d]
        /\ \A x, y \in Devices : x # d \/ y # p => local'[x][y] = local[x][y]
    BY <2>1, TablesShaped
  <2>3. place \in {"idle", "deliver", "forward", "merge"}
        /\ (place = "forward" => Before(head[d], peer[d][p]))
        /\ (place = "merge" /\ snapshot[d] = {} => GoneApart(head[d], peer[d][p]))
    BY OutcomeIs
  <2>4. Goto(d, p, place) /\ at[d][p] = "compare"
    BY <1>7 DEF Compare
  <2>5. place = "merge" => snapshot' = snapshot
    BY <1>7 DEF Compare
  <2> HIDE DEF place
  <2> QED
    BY <2>1, <2>2, <2>3, <2>4, <2>5
<1>8. CASE Forward(d, p)
  BY <1>8 DEF Forward
<1>9. CASE Merge(d, p)
  <2>1. PICK place \in {"deliver", "reapply"} : Goto(d, p, place)
    BY <1>9 DEF Merge
  <2>2. at[d][p] = "merge" /\ UNCHANGED <<local, peer, sent>>
    BY <1>9 DEF Merge
  <2>3. at'[d][p] = place
    BY <2>1, AtEntry DEF IInv
  <2>4. place = "reapply" => head'[d].edits \cap Own[d] \subseteq local'[d][p].edits
    BY <2>2, <2>3 DEF HeadsGrow, IInv, OwnInLocal
  <2> QED
    BY <2>1, <2>2, <2>4
<1>10. CASE Reapply(d, p)
  BY <1>10 DEF Reapply
<1> QED
  BY <1>1, <1>2, <1>3, <1>4, <1>5, <1>6, <1>7, <1>8, <1>9, <1>10 DEF Step, Trouble

LEMMA PlacesStep == ASSUME IInv, [Next]_vars PROVE PlacesKept
<1>1. HeadsGrow
  BY HeadStep
<1>2. CASE UNCHANGED <<at, local, peer, sent, snapshot>>
  <2>1. OwnInLocal'
    BY <1>1, <1>2 DEF IInv, OwnInLocal, HeadsGrow
  <2> QED
    BY <1>2, <2>1 DEF IInv, TypeOK, PlacesKept, OneLocked, SendForward, ForwardForward, MergeApart,
       SnapshotOwn
<1>3. ASSUME NEW d \in Devices, NEW p \in Devices, Step(d, p) \/ Trouble(d, p)
      PROVE  PlacesKept
  BY <1>1, <1>3, PushMoves, MovesKeep
<1> QED
  BY <1>2, <1>3 DEF Next, Commit, vars, pending

LEMMA StepInv == IInv /\ [Next]_vars => IInv'
<1> SUFFICES ASSUME IInv, [Next]_vars PROVE IInv'
  OBVIOUS
<1>1. HeadsGrow
  BY HeadStep
<1>2. PlacesKept
  BY PlacesStep
<1>3. /\ KnownTable(head, covered) /\ KnownTable(head, local)
      /\ KnownTable(head, peer) /\ KnownTable(head, sent)
  BY DEF IInv, TypeOK, AllKnown, KnownTable
<1>4. /\ KnownTable(head', covered') /\ KnownTable(head', local')
      /\ KnownTable(head', peer') /\ KnownTable(head', sent')
  BY <1>1, <1>3, TablesWritten, WrittenTable
<1>5. DOMAIN head' = Devices /\ \A x \in Devices : IsHistory(head'[x]) /\ Known(head', head'[x])
  BY <1>1, KnownGrows DEF HeadsGrow
<1>6. failed' \in 0..MaxFailed
  BY SnapshotStep DEF Next, Commit, vars, pending, IInv, TypeOK
<1> QED
  BY <1>2, <1>4, <1>5, <1>6 DEF PlacesKept, KnownTable, IInv, TypeOK, AllKnown

THEOREM Invariance == Spec => []IInv
  BY InitInv, StepInv, PTL DEF Spec

(* The types, and that a history holds the histories of its merges'        *)
(* parents: what _deterministic_merge_commit writes is never squashed.     *)
THEOREM TypeCorrect == Spec => []TypeOK
<1>1. IInv => TypeOK
  BY DEF IInv
<1> QED
  BY <1>1, Invariance, PTL

(* A push moves a peer's branch forward only, although receive-pack        *)
(* (lan_listener) does not look: the ancestry was seen by the pusher, and  *)
(* the ref is moved only from where it was seen.  The steps excepted are   *)
(* those in which a device writes a merge to its own branch: they may take *)
(* commits off it that came in after the merge read it.                    *)
THEOREM PushesMoveForward == Spec => PushesForward
<1>1. IInv /\ [Next]_vars => HeadsForward
  BY HeadStep
<1>2. HeadsForward
      => [\A p \in Devices :
            Before(head[p], head'[p]) \/ \E d \in Devices : at[p][d] = "merge" /\ Merge(p, d)]_vars
  BY DEF HeadsForward
<1> QED
  BY <1>1, <1>2, Invariance, PTL DEF Spec, PushesForward

-----------------------------------------------------------------------------
(* The pushes implement the sharing.                                       *)

LEMMA KnownIsMade ==
    ASSUME IInv, NEW c, c.edits \subseteq Edits, Known(head, c)
    PROVE  c.edits \in SUBSET Sharing!Made
  BY DEF Edits, Known, Sharing!Made

LEMMA HeadWrite ==
    ASSUME [Next]_vars
    PROVE  head' = head \/ \E x \in Devices : \E c : head' = [head EXCEPT ![x] = c]
<1>1. CASE UNCHANGED vars
  BY <1>1 DEF vars
<1>2. CASE \E d \in Devices : Commit(d)
  BY <1>2 DEF Commit
<1>3. ASSUME NEW d \in Devices, NEW p \in Devices, Step(d, p) \/ Trouble(d, p)
      PROVE  head' = head \/ \E x \in Devices : \E c : head' = [head EXCEPT ![x] = c]
  BY <1>3 DEF Step, Trouble, Begin, Peek, PeekFails, Advertise, Land, AnswerLost, Receives,
     Verify, VerifyFails, Fetch, TakeLock, CommitFails,
       Compare, Forward, Merge, Reapply, Abandon
<1> QED
  BY <1>1, <1>2, <1>3 DEF Next

LEMMA StepShares == IInv /\ [Next]_vars => [Sharing!SharingNext]_([d \in Devices |-> head[d].edits])
<1> DEFINE view == [d \in Devices |-> head[d].edits]
<1> SUFFICES ASSUME IInv, [Next]_vars PROVE Sharing!SharingNext \/ view' = view
  OBVIOUS
<1>0. HeadsGrow
  BY HeadStep
<1>1. CASE head' = head
  BY <1>1
<1>2. ASSUME NEW x \in Devices, NEW c, head' = [head EXCEPT ![x] = c]
      PROVE  Sharing!SharingNext
  <2>1. DOMAIN head = Devices
    BY DEF IInv, TypeOK
  <2>2. view' = [view EXCEPT ![x] = c.edits] /\ head'[x] = c
    BY <1>2, <2>1
  <2>3. view[x] \cap Own[x] \subseteq c.edits
    BY <1>0, <2>2 DEF HeadsGrow
  <2>4. c.edits \in SUBSET (Sharing!Made \cup Own[x])
    <3>1. CASE Known(head, c)
      BY <1>0, <2>2, <3>1, KnownIsMade DEF HeadsGrow, IsHistory
    <3>2. CASE \E e \in Own[x] : c.edits = head[x].edits \cup {e}
      BY <3>2 DEF Sharing!Made
    <3> QED
      BY <1>0, <2>2, <3>1, <3>2 DEF HeadsGrow
  <2> QED
    BY <2>2, <2>3, <2>4 DEF Sharing!SharingNext, Sharing!Change
<1> QED
  BY <1>1, <1>2, HeadWrite

(* The sharing that is promised holds of the pushes as they are: whatever  *)
(* fails and whatever interleaves, a device never loses an edit of its own *)
(* and never gets one that nobody made.                                    *)
THEOREM Implements == Spec => ImplementsSharing
<1>1. Init => Sharing!SharingInit
  BY DEF Init, Root, Sharing!SharingInit, Sharing!Owned
<1> QED
  BY <1>1, StepShares, Invariance, PTL DEF Spec, ImplementsSharing, Sharing!SharingSpec

(* Whatever edit a device shows, the device it was made on has it: no edit *)
(* lives on with others alone, however merges and pushes have crossed.     *)
THEOREM EditsAreWithOwners == Spec => []Sharing!Owned
<1>1. IInv => Sharing!Owned
  BY DEF IInv, AllKnown, Known, Sharing!Owned
<1> QED
  BY <1>1, Invariance, PTL

-----------------------------------------------------------------------------
(* What a step records that was not recorded before: a commit, a merge,    *)
(* and what is put back after a merge.                                     *)

NewCommit(c) ==
    \E y \in Devices : \E e \in Own[y] \ head[y].edits :
        c = WithEdit(head[y], e) /\ head' = [head EXCEPT ![y] = c]

NewMerge(c) ==
    \E d, p \in Devices : Merge(d, p) /\ c = Merged(local[d][p], peer[d][p])

NewReapply(c) ==
    \E d, p \in Devices :
        /\ at[d][p] = "reapply"
        /\ \E e \in snapshot[d] : /\ c = Reapplied(local[d][p], head[d], e)
                                  /\ head' = [head EXCEPT ![d] = c]

LEMMA HeadIsNew ==
    ASSUME IInv, [Next]_vars, NEW y \in Devices
    PROVE  Recorded(head'[y]) \/ NewCommit(head'[y]) \/ NewMerge(head'[y]) \/ NewReapply(head'[y])
<1>0. DOMAIN head = Devices /\ \A z \in Devices : Recorded(head[z])
  BY DEF IInv, TypeOK, Recorded
<1>1. CASE head' = head
  BY <1>0, <1>1
<1>2. ASSUME NEW d \in Devices, Commit(d)
      PROVE  Recorded(head'[y]) \/ NewCommit(head'[y])
  <2>1. PICK e \in Own[d] \ head[d].edits : head' = [head EXCEPT ![d] = WithEdit(head[d], e)]
    BY <1>2 DEF Commit
  <2>2. CASE y = d
    BY <1>0, <2>1, <2>2 DEF NewCommit
  <2>3. CASE y # d
    BY <1>0, <2>1, <2>3
  <2> QED
    BY <2>2, <2>3
<1>3. ASSUME NEW d \in Devices, NEW p \in Devices, Receives(d, p) \/ Forward(d, p)
      PROVE  Recorded(head'[y])
  <2>1. Recorded(sent[d][p]) /\ Recorded(peer[d][p])
    BY DEF Recorded
  <2> QED
    BY <1>0, <1>3, <2>1 DEF Receives, Forward
<1>4. ASSUME NEW d \in Devices, NEW p \in Devices, Merge(d, p)
      PROVE  Recorded(head'[y]) \/ NewMerge(head'[y])
  <2>1. head' = [head EXCEPT ![d] = Merged(local[d][p], peer[d][p])]
    BY <1>4 DEF Merge
  <2>2. CASE y = d
    BY <1>0, <1>4, <2>1, <2>2 DEF NewMerge
  <2>3. CASE y # d
    BY <1>0, <2>1, <2>3
  <2> QED
    BY <2>2, <2>3
<1>5. ASSUME NEW d \in Devices, NEW p \in Devices, Reapply(d, p), head' # head
      PROVE  Recorded(head'[y]) \/ NewReapply(head'[y])
  <2>1. PICK e \in snapshot[d] : head' = [head EXCEPT ![d] = Reapplied(local[d][p], head[d], e)]
    BY <1>5 DEF Reapply
  <2>2. CASE y = d
    BY <1>0, <1>5, <2>1, <2>2 DEF NewReapply, Reapply
  <2>3. CASE y # d
    BY <1>0, <2>1, <2>3
  <2> QED
    BY <2>2, <2>3
<1>6. ASSUME NEW d \in Devices, NEW p \in Devices, Step(d, p) \/ Trouble(d, p)
      PROVE  Recorded(head'[y]) \/ NewMerge(head'[y]) \/ NewReapply(head'[y])
  <2>1. CASE Land(d, p) \/ AnswerLost(d, p) \/ Forward(d, p)
    BY <1>3, <2>1 DEF Land, AnswerLost
  <2>2. CASE Merge(d, p)
    BY <1>4, <2>2
  <2>3. CASE Reapply(d, p) /\ head' # head
    BY <1>5, <2>3
  <2>4. CASE UNCHANGED head
    BY <1>1, <2>4, <1>0
  <2> QED
    BY <1>6, <2>1, <2>2, <2>3, <2>4 DEF Step, Trouble, Begin, Peek, PeekFails, Advertise, Verify,
       VerifyFails, Fetch, TakeLock, CommitFails, Compare, Abandon
<1> QED
  BY <1>1, <1>2, <1>6 DEF Next, vars

LEMMA RecordedIsNew ==
    ASSUME IInv, [Next]_vars, NEW c, Recorded(c)'
    PROVE  Recorded(c) \/ NewCommit(c) \/ NewMerge(c) \/ NewReapply(c)
<1>1. PICK x, y \in Devices :
          c \in {head'[x], covered'[x][y], local'[x][y], peer'[x][y], sent'[x][y]}
  BY DEF Recorded
<1>2. ASSUME NEW f, NEW g, Table(f), Written(f, g), g[x][y] = c, f[x][y] = c => Recorded(c)
      PROVE  Recorded(c)
  <2>1. CASE g = f
    BY <1>2, <2>1
  <2>2. ASSUME NEW d \in Devices, NEW p \in Devices, NEW b, Recorded(b), g = [f EXCEPT ![d][p] = b]
        PROVE  Recorded(c)
    <3>1. g[x][y] = b \/ g[x][y] = f[x][y]
      BY <1>2, <2>2, Entry DEF Table
    <3> QED
      BY <1>2, <2>2, <3>1
  <2> QED
    BY <1>2, <2>1, <2>2 DEF Written
<1>3. /\ covered[x][y] = c => Recorded(c)
      /\ local[x][y] = c => Recorded(c)
      /\ peer[x][y] = c => Recorded(c)
      /\ sent[x][y] = c => Recorded(c)
  BY DEF Recorded
<1>4. Table(covered) /\ Table(local) /\ Table(peer) /\ Table(sent)
  BY DEF IInv, TypeOK
<1>5. CASE c = head'[x]
  BY <1>5, HeadIsNew
<1>6. CASE c = covered'[x][y]
  BY <1>2, <1>3, <1>4, <1>6, TablesWritten
<1>7. CASE c = local'[x][y]
  BY <1>2, <1>3, <1>4, <1>7, TablesWritten
<1>8. CASE c = peer'[x][y]
  BY <1>2, <1>3, <1>4, <1>8, TablesWritten
<1>9. CASE c = sent'[x][y]
  BY <1>2, <1>3, <1>4, <1>9, TablesWritten
<1> QED
  BY <1>1, <1>5, <1>6, <1>7, <1>8, <1>9

-----------------------------------------------------------------------------
(* The edits of different devices do not clash.                            *)

(* A device's own edits in a history, and their order there.               *)
OwnOf(x, c) == c.edits \cap Own[x]
OwnOrder(x, c) == c.order \cap (Own[x] \X Own[x])
OrderIn(x, h, S) == OwnOrder(x, h) \cap (S \X S)
OwnAtMerge(x, m) == UNION {OwnOf(x, a) : a \in m.parents}

(* On the device's own branch, of two that clash one comes first.          *)
Chain(x, h) ==
    /\ OwnOrder(x, h) \subseteq (OwnOf(x, h) \X OwnOf(x, h)) \cap Clashes
    /\ \A a, b \in OwnOf(x, h) :
          <<a, b>> \in Clashes => (<<a, b>> \in h.order <=> <<b, a>> \notin h.order)

(* Any other history has the first of them, in that order, and so had the  *)
(* parents of each of its merges; nothing else is in order.                *)
Follows(x, h, c) ==
    /\ OwnOf(x, c) \subseteq OwnOf(x, h)
    /\ OwnOrder(x, c) = OrderIn(x, h, OwnOf(x, c))
    /\ \A a \in OwnOf(x, h) : \A b \in OwnOf(x, c) : <<a, b>> \in h.order => a \in c.edits

MergesFollow(x, h, c) ==
    \A m \in c.merges : OwnOrder(x, m) = OrderIn(x, h, OwnAtMerge(x, m))

OwnPairs == UNION {Own[x] \X Own[x] : x \in Devices}

Ordered(c) ==
    /\ c.order \subseteq OwnPairs
    /\ \A m \in c.merges :
          m.order \subseteq OwnPairs /\ m = [parents |-> m.parents, order |-> m.order]

OrderOf(x) ==
    /\ Chain(x, head[x])
    /\ \A c : Recorded(c) => Follows(x, head[x], c) /\ MergesFollow(x, head[x], c)

OrderInv ==
    /\ \A x \in Devices : OrderOf(x)
    /\ \A c : Recorded(c) => Ordered(c)

(* An order is known by its parts, of one device each.                     *)
LEMMA SameParts ==
    ASSUME NEW a, NEW b, a.order \subseteq OwnPairs, b.order \subseteq OwnPairs,
           \A x \in Devices : OwnOrder(x, a) = OwnOrder(x, b)
    PROVE  a.order = b.order
<1>1. ASSUME NEW z \in OwnPairs PROVE z \in a.order <=> z \in b.order
  <2>1. PICK x \in Devices : z \in Own[x] \X Own[x]
    BY <1>1 DEF OwnPairs
  <2>2. OwnOrder(x, a) = OwnOrder(x, b)
    OBVIOUS
  <2> QED
    BY <2>1, <2>2 DEF OwnOrder
<1> QED
  BY <1>1

(* Two histories with the same edits have the same order.                  *)
LEMMA SameEditsSameOrder ==
    ASSUME OrderInv, NEW a, NEW b, Recorded(a), Recorded(b), a.edits = b.edits
    PROVE  SameContent(a, b)
<1>1. ASSUME NEW x \in Devices PROVE OwnOrder(x, a) = OwnOrder(x, b)
  BY DEF OrderInv, OrderOf, Follows, OwnOf
<1>2. a.order \subseteq OwnPairs /\ b.order \subseteq OwnPairs
  BY DEF OrderInv, Ordered
<1> QED
  BY <1>1, <1>2, SameParts DEF SameContent

(* A merge of two of them has their edits in the order of the device.      *)
LEMMA OrderOfMerge ==
    ASSUME NEW x, NEW h, NEW a, NEW b, NEW c,
           Chain(x, h), Follows(x, h, a), Follows(x, h, b), c.order = InOrder(a, b)
    PROVE  OwnOrder(x, c) = OrderIn(x, h, OwnOf(x, a) \cup OwnOf(x, b))
<1> DEFINE A == OwnOf(x, a)
           N == OwnOf(x, b) \ A
<1>1. OwnOrder(x, c) = OwnOrder(x, a) \cup (A \X N \cap Clashes) \cup (OwnOrder(x, b) \cap (N \X N))
  <2>1. c.order = a.order \cup ((a.edits \X (b.edits \ a.edits)) \cap Clashes)
                  \cup (b.order \cap (b.edits \ a.edits) \X (b.edits \ a.edits))
    BY DEF InOrder
  <2> QED
    BY <2>1 DEF OwnOrder, OwnOf
<1>2. OwnOrder(x, a) = OwnOrder(x, h) \cap (A \X A)
      /\ OwnOrder(x, b) = OwnOrder(x, h) \cap (OwnOf(x, b) \X OwnOf(x, b))
  BY DEF Follows, OrderIn
<1>3. A \subseteq OwnOf(x, h) /\ N \subseteq OwnOf(x, h)
  BY DEF Follows
<1>4. \A s \in A, t \in N : /\ <<s, t>> \in OwnOrder(x, h) <=> <<s, t>> \in Clashes
                            /\ <<t, s>> \notin OwnOrder(x, h)
  <2> SUFFICES ASSUME NEW s \in A, NEW t \in N
               PROVE  /\ <<s, t>> \in OwnOrder(x, h) <=> <<s, t>> \in Clashes
                      /\ <<t, s>> \notin OwnOrder(x, h)
    OBVIOUS
  <2>1. s \in Own[x] /\ t \in Own[x]
    BY DEF OwnOf
  <2>2. <<t, s>> \notin h.order
    BY <1>3, <2>1 DEF Follows, OwnOf
  <2>3. <<t, s>> \notin OwnOrder(x, h)
    BY <2>2 DEF OwnOrder
  <2>4. <<s, t>> \in OwnOrder(x, h) => <<s, t>> \in Clashes
    BY DEF Chain
  <2>5. <<s, t>> \in Clashes => <<s, t>> \in h.order
    BY <1>3, <2>2 DEF Chain
  <2> QED
    BY <2>1, <2>3, <2>4, <2>5 DEF OwnOrder
<1>5. A \cup N = OwnOf(x, a) \cup OwnOf(x, b) /\ N \subseteq OwnOf(x, b) /\ A \cap N = {}
  OBVIOUS
<1> DEFINE H == OwnOrder(x, h)
<1>6. (H \cap (A \X A)) \cup (A \X N \cap Clashes) \cup ((H \cap (OwnOf(x, b) \X OwnOf(x, b))) \cap (N \X N))
      = H \cap ((A \cup N) \X (A \cup N))
  <2> HIDE DEF A, N, H
  <2>1. \A s \in A, t \in N : (<<s, t>> \in H <=> <<s, t>> \in Clashes) /\ <<t, s>> \notin H
    BY <1>4 DEF H
  <2>2. ASSUME NEW s \in A \cup N, NEW t \in A \cup N
        PROVE  <<s, t>> \in (H \cap (A \X A)) \cup (A \X N \cap Clashes)
                            \cup ((H \cap (OwnOf(x, b) \X OwnOf(x, b))) \cap (N \X N))
               <=> <<s, t>> \in H
    BY <1>5, <2>1
  <2> QED
    BY <1>5, <2>2
<1> QED
  <2>1. OwnOrder(x, c) = H \cap ((A \cup N) \X (A \cup N))
    BY <1>1, <1>2, <1>6
  <2> QED
    BY <1>5, <2>1 DEF OrderIn

(* Whatever is made of two of them by a merge follows too.                 *)
LEMMA UnionFollows ==
    ASSUME NEW x, NEW h, NEW a, NEW b, NEW c,
           Chain(x, h), Follows(x, h, a), Follows(x, h, b),
           OwnOf(x, c) = OwnOf(x, a) \cup OwnOf(x, b), c.order = InOrder(a, b)
    PROVE  Follows(x, h, c)
<1>1. OwnOrder(x, c) = OrderIn(x, h, OwnOf(x, c))
  BY OrderOfMerge
<1>2. OwnOf(x, c) \subseteq OwnOf(x, h)
  BY DEF Follows
<1>3. ASSUME NEW s \in OwnOf(x, h), NEW t \in OwnOf(x, c), <<s, t>> \in h.order
      PROVE  s \in c.edits
  <2>1. s \in a.edits \/ s \in b.edits
    BY <1>3 DEF Follows
  <2> QED
    BY <2>1 DEF OwnOf
<1> QED
  BY <1>1, <1>2, <1>3 DEF Follows

LEMMA MergedFollows ==
    ASSUME NEW x, NEW h, NEW a, NEW b, Chain(x, h),
           Follows(x, h, a), MergesFollow(x, h, a), Follows(x, h, b), MergesFollow(x, h, b)
    PROVE  Follows(x, h, Merged(a, b)) /\ MergesFollow(x, h, Merged(a, b))
<1> DEFINE c == Merged(a, b)
           m == MergeOf(a, b)
<1>1. /\ OwnOf(x, c) = OwnOf(x, a) \cup OwnOf(x, b)
      /\ c.order = InOrder(a, b)
      /\ c.merges = a.merges \cup b.merges \cup {m}
  BY DEF Merged, OwnOf
<1>2. OwnOrder(x, m) = OrderIn(x, h, OwnAtMerge(x, m))
  <2>1. m.order = InOrder(a, b) /\ OwnAtMerge(x, m) = OwnOf(x, a) \cup OwnOf(x, b)
    BY DEF MergeOf, OwnAtMerge
  <2> HIDE DEF m
  <2> QED
    BY <2>1, OrderOfMerge
<1> HIDE DEF c, m
<1>3. Follows(x, h, c)
  BY <1>1, UnionFollows
<1>4. MergesFollow(x, h, c)
  BY <1>1, <1>2 DEF MergesFollow
<1> QED
  BY <1>3, <1>4 DEF c

LEMMA MergedOrdered ==
    ASSUME Apart, NEW a, NEW b, Ordered(a), Ordered(b), a.edits \subseteq Edits, b.edits \subseteq Edits
    PROVE  InOrder(a, b) \subseteq OwnPairs /\ Ordered(Merged(a, b))
<1>1. ASSUME NEW s \in Edits, NEW t \in Edits, <<s, t>> \in Clashes PROVE <<s, t>> \in OwnPairs
  <2>1. PICK d, p \in Devices : s \in Own[d] /\ t \in Own[p]
    BY DEF Edits
  <2>2. d = p
    BY <1>1, <2>1 DEF Apart
  <2> QED
    BY <2>1, <2>2 DEF OwnPairs
<1>2. InOrder(a, b) \subseteq OwnPairs
  <2>1. (a.edits \X (b.edits \ a.edits)) \cap Clashes \subseteq OwnPairs
    BY <1>1
  <2> QED
    BY <2>1 DEF InOrder, Ordered
<1>3. /\ Merged(a, b).order = InOrder(a, b)
      /\ Merged(a, b).merges = a.merges \cup b.merges \cup {MergeOf(a, b)}
      /\ MergeOf(a, b).order = InOrder(a, b)
      /\ MergeOf(a, b) = [parents |-> MergeOf(a, b).parents, order |-> MergeOf(a, b).order]
  BY DEF Merged, MergeOf
<1> QED
  BY <1>2, <1>3 DEF Ordered

(* The device's branch keeps its edits as they are, or gets one on top;    *)
(* what followed it still does.                                            *)
Adds(x, h, g) ==
    \/ OwnOf(x, g) = OwnOf(x, h) /\ OwnOrder(x, g) = OwnOrder(x, h)
    \/ \E e \in Own[x] \ h.edits :
          /\ OwnOf(x, g) = OwnOf(x, h) \cup {e}
          /\ OwnOrder(x, g) = OwnOrder(x, h) \cup (OwnOf(x, h) \X {e} \cap Clashes)

LEMMA OrderInKept ==
    ASSUME NEW x, NEW h, NEW g, Adds(x, h, g), NEW S, S \subseteq OwnOf(x, h)
    PROVE  OrderIn(x, g, S) = OrderIn(x, h, S)
<1>1. CASE OwnOrder(x, g) = OwnOrder(x, h)
  BY <1>1 DEF OrderIn
<1>2. ASSUME NEW e \in Own[x] \ h.edits,
             OwnOrder(x, g) = OwnOrder(x, h) \cup (OwnOf(x, h) \X {e} \cap Clashes)
      PROVE  OrderIn(x, g, S) = OrderIn(x, h, S)
  <2>1. e \notin S
    BY DEF OwnOf
  <2>2. (OwnOf(x, h) \X {e}) \cap (S \X S) = {}
    BY <2>1
  <2> QED
    BY <1>2, <2>2 DEF OrderIn
<1> QED
  BY <1>1, <1>2 DEF Adds

LEMMA FollowsGrow ==
    ASSUME NEW x, NEW h, NEW g, Chain(x, h), Adds(x, h, g),
           NEW c, IsHistory(c), Follows(x, h, c), MergesFollow(x, h, c)
    PROVE  Follows(x, g, c) /\ MergesFollow(x, g, c)
<1>1. OwnOf(x, c) \subseteq OwnOf(x, h) /\ OwnOf(x, h) \subseteq OwnOf(x, g)
  BY DEF Follows, Adds
<1>2. ASSUME NEW s \in OwnOf(x, g), NEW t \in OwnOf(x, c), <<s, t>> \in g.order
      PROVE  s \in c.edits
  <2>1. <<s, t>> \in OwnOrder(x, g) /\ t \in OwnOf(x, h)
    BY <1>1, <1>2 DEF OwnOrder, OwnOf
  <2>2. <<s, t>> \in OwnOrder(x, h)
    <3>1. CASE OwnOrder(x, g) = OwnOrder(x, h)
      BY <2>1, <3>1
    <3>2. ASSUME NEW e \in Own[x] \ h.edits,
                 OwnOrder(x, g) = OwnOrder(x, h) \cup (OwnOf(x, h) \X {e} \cap Clashes)
          PROVE  <<s, t>> \in OwnOrder(x, h)
      BY <2>1, <3>2 DEF OwnOf
    <3> QED
      BY <3>1, <3>2 DEF Adds
  <2>3. s \in OwnOf(x, h) /\ <<s, t>> \in h.order
    BY <2>2 DEF Chain, OwnOrder
  <2> QED
    BY <1>2, <2>3 DEF Follows
<1>3. Follows(x, g, c)
  BY <1>1, <1>2, OrderInKept DEF Follows
<1>4. ASSUME NEW m \in c.merges PROVE OwnAtMerge(x, m) \subseteq OwnOf(x, h)
  BY <1>1 DEF IsHistory, Before, OwnAtMerge, OwnOf
<1>5. MergesFollow(x, g, c)
  BY <1>4, OrderInKept DEF MergesFollow
<1> QED
  BY <1>3, <1>5

LEMMA ChainGrows ==
    ASSUME NEW x \in Devices, NEW h, NEW g, Chain(x, h), Adds(x, h, g)
    PROVE  Chain(x, g) /\ Follows(x, g, g)
<1>1. \A y, z \in Own[x] : <<y, z>> \in Clashes => <<z, y>> \in Clashes /\ y # z
  BY ClashAssumption DEF Edits
<1>2. OwnOf(x, g) \subseteq Own[x] /\ OwnOf(x, h) \subseteq Own[x]
  BY DEF OwnOf
<1>3. \A y, z \in Own[x] : /\ <<y, z>> \in g.order <=> <<y, z>> \in OwnOrder(x, g)
                           /\ <<y, z>> \in h.order <=> <<y, z>> \in OwnOrder(x, h)
  BY DEF OwnOrder
<1>4. OwnOrder(x, h) \subseteq (OwnOf(x, h) \X OwnOf(x, h)) \cap Clashes
  BY DEF Chain
<1>5. \A y, z \in OwnOf(x, h) :
          <<y, z>> \in Clashes => (<<y, z>> \in OwnOrder(x, h) <=> <<z, y>> \notin OwnOrder(x, h))
  BY <1>2, <1>3 DEF Chain
<1> DEFINE Orders(f) ==
        /\ OwnOrder(x, f) \subseteq (OwnOf(x, f) \X OwnOf(x, f)) \cap Clashes
        /\ \A y, z \in OwnOf(x, f) :
              <<y, z>> \in Clashes => (<<y, z>> \in OwnOrder(x, f) <=> <<z, y>> \notin OwnOrder(x, f))
<1>6. Orders(g)
  <2>1. CASE OwnOf(x, g) = OwnOf(x, h) /\ OwnOrder(x, g) = OwnOrder(x, h)
    BY <1>4, <1>5, <2>1
  <2>2. ASSUME NEW e \in Own[x] \ h.edits, OwnOf(x, g) = OwnOf(x, h) \cup {e},
               OwnOrder(x, g) = OwnOrder(x, h) \cup (OwnOf(x, h) \X {e} \cap Clashes)
        PROVE  Orders(g)
    <3>1. OwnOrder(x, g) \subseteq (OwnOf(x, g) \X OwnOf(x, g)) \cap Clashes
      BY <1>4, <2>2
    <3>2. e \notin OwnOf(x, h)
      BY DEF OwnOf
    <3>3. \A z : <<e, z>> \notin OwnOrder(x, g)
      BY <1>4, <2>2, <3>2
    <3>4. \A y \in OwnOf(x, h) : <<y, e>> \in OwnOrder(x, g) <=> <<y, e>> \in Clashes
      BY <1>4, <2>2, <3>2
    <3>5. \A y, z \in OwnOf(x, h) : <<y, z>> \in OwnOrder(x, g) <=> <<y, z>> \in OwnOrder(x, h)
      BY <2>2, <3>2
    <3> HIDE DEF Adds
    <3>6. ASSUME NEW y \in OwnOf(x, g), NEW z \in OwnOf(x, g), <<y, z>> \in Clashes
          PROVE  <<y, z>> \in OwnOrder(x, g) <=> <<z, y>> \notin OwnOrder(x, g)
      <4>1. y # z /\ <<z, y>> \in Clashes
        BY <1>1, <1>2, <3>6
      <4>2. CASE y \in OwnOf(x, h) /\ z \in OwnOf(x, h)
        BY <1>5, <3>5, <3>6, <4>2
      <4>3. CASE y = e
        BY <2>2, <3>3, <3>4, <4>1, <4>3
      <4>4. CASE z = e
        BY <2>2, <3>3, <3>4, <3>6, <4>1, <4>4
      <4> QED
        BY <2>2, <4>2, <4>3, <4>4
    <3> QED
      BY <3>1, <3>6
  <2> HIDE DEF Orders
  <2> QED
    BY <2>1, <2>2 DEF Adds
<1>7. Chain(x, g)
  BY <1>2, <1>3, <1>6 DEF Chain
<1>8. OwnOrder(x, g) = OrderIn(x, g, OwnOf(x, g))
  BY <1>6 DEF OrderIn
<1>9. \A s \in OwnOf(x, g) : s \in g.edits
  BY DEF OwnOf
<1> QED
  BY <1>7, <1>8, <1>9 DEF Follows

-----------------------------------------------------------------------------
(* What a merge puts back: its device alone has it, on disk only, until    *)
(* the merge puts it on top; the branch has all of the merge by then.      *)
Holding == {"compare", "merge", "reapply"}

PendingInv ==
    /\ \A d \in Devices : snapshot[d] # {} => \E p \in Devices : at[d][p] \in Holding
    /\ \A d \in Devices : snapshot[d] \cap head[d].edits = {}
    /\ \A d, p \in Devices : at[d][p] = "reapply" => local[d][p].edits \subseteq head[d].edits

LEMMA HeldStep ==
    ASSUME IInv, PendingInv, [Next]_vars, NEW d \in Devices, NEW p \in Devices,
           Step(d, p) \/ Trouble(d, p)
    PROVE  \A x \in Devices : snapshot'[x] # {} => \E q \in Devices : at'[x][q] \in Holding
<1>1. PICK place \in Places : MovesTo(d, p, place)
  BY HeadStep, PushMoves
<1>2. /\ at'[d][p] = place
      /\ \A x, y \in Devices : x # d \/ y # p => at'[x][y] = at[x][y]
      /\ \A x \in Devices : x # d => snapshot'[x] = snapshot[x]
  BY <1>1, AtEntry DEF MovesTo, SnapshotMoves, IInv, TypeOK
<1>3. ASSUME snapshot'[d] # {} PROVE \E q \in Devices : at'[d][q] \in Holding
  <2>1. CASE CommitFails(d, p)
    BY <2>1 DEF CommitFails, Goto, Holding, IInv, TypeOK
  <2>2. CASE Compare(d, p) \/ Merge(d, p)
    <3>1. at[d][p] \in Holding /\ snapshot' = snapshot
      BY <1>3, <2>2 DEF Compare, Merge, Leaves, Holding, pending, IInv, TypeOK
    <3>2. CASE Merge(d, p)
      BY <1>3, <3>1, <3>2 DEF Merge, Goto, Holding, IInv, TypeOK
    <3>3. CASE Compare(d, p)
      <4>1. Outcome(head[d], peer[d][p], snapshot[d]) = "merge"
        BY <1>3, <3>3 DEF Compare, Leaves, IInv, TypeOK
      <4> QED
        BY <3>3, <4>1 DEF Compare, Goto, Holding, IInv, TypeOK
    <3> QED
      BY <2>2, <3>2, <3>3
  <2>3. CASE UNCHANGED snapshot /\ at[d][p] \notin Holding
    <3>1. PICK q \in Devices : at[d][q] \in Holding
      BY <1>3, <2>3 DEF PendingInv
    <3>2. q # p
      BY <2>3, <3>1
    <3> QED
      BY <1>2, <3>1, <3>2
  <2>4. ~ Leaves(d)
    BY <1>3 DEF Leaves, IInv, TypeOK
  <2> QED
    BY <1>3, <2>1, <2>2, <2>3, <2>4 DEF Step, Trouble, Begin, Peek, PeekFails, Advertise, Land,
       AnswerLost, Verify, VerifyFails, Fetch, TakeLock, Forward, Reapply, Abandon, pending,
       Holding, Locked
<1> QED
  BY <1>2, <1>3 DEF PendingInv

LEMMA UnmadeStep ==
    ASSUME IInv, PendingInv, [Next]_vars, NEW d \in Devices, NEW p \in Devices,
           Step(d, p) \/ Trouble(d, p)
    PROVE  \A x \in Devices : snapshot'[x] \cap head'[x].edits = {}
<1>1. DOMAIN head = Devices /\ snapshot \in [Devices -> SUBSET Edits] /\ SnapshotOwn
  BY DEF IInv, TypeOK
<1>2. \A x \in Devices : snapshot[x] \subseteq Own[x] /\ snapshot[x] \cap head[x].edits = {}
  BY <1>1 DEF SnapshotOwn, PendingInv
<1>3. CASE CommitFails(d, p)
  <2>1. PICK e \in Own[d] \ head[d].edits : snapshot' = [snapshot EXCEPT ![d] = {e}]
    BY <1>3 DEF CommitFails
  <2> QED
    BY <1>1, <1>2, <1>3, <2>1 DEF CommitFails
<1>4. CASE Reapply(d, p)
  <2>1. snapshot'[d] = {} /\ \A x \in Devices : x # d => snapshot'[x] = snapshot[x] /\ head'[x] = head[x]
    BY <1>1, <1>4 DEF Reapply, Leaves
  <2> QED
    BY <1>2, <2>1
<1>5. ASSUME \A x \in Devices : Known(head, head'[x]),
             \A x \in Devices : snapshot'[x] \subseteq snapshot[x]
      PROVE  \A x \in Devices : snapshot'[x] \cap head'[x].edits = {}
  <2>1. \A x \in Devices : head'[x].edits \cap Own[x] \subseteq head[x].edits
    BY <1>5 DEF Known
  <2> QED
    BY <1>2, <1>5, <2>1
<1>6. CASE Land(d, p) \/ AnswerLost(d, p) \/ Forward(d, p) \/ Merge(d, p)
  <2>1. Known(head, sent[d][p]) /\ Known(head, peer[d][p]) /\ Known(head, local[d][p])
        /\ \A x \in Devices : Known(head, head[x])
    BY DEF IInv, AllKnown
  <2>2. Known(head, Merged(local[d][p], peer[d][p]))
    BY <2>1 DEF Known, Merged
  <2>3. \A x \in Devices : Known(head, head'[x])
    BY <1>1, <1>6, <2>1, <2>2 DEF Land, AnswerLost, Receives, Forward, Merge
  <2> QED
    BY <1>5, <1>6, <2>3 DEF Land, AnswerLost, Forward, Merge, pending
<1>7. CASE UNCHANGED head /\ (UNCHANGED snapshot \/ Leaves(d))
  BY <1>1, <1>2, <1>7 DEF Leaves
<1> QED
  BY <1>3, <1>4, <1>6, <1>7 DEF Step, Trouble, Begin, Peek, PeekFails, Advertise, Verify,
     VerifyFails, Fetch, TakeLock, Compare, Abandon, pending

LEMMA LocalStep ==
    ASSUME IInv, PendingInv, [Next]_vars, NEW d \in Devices, NEW p \in Devices,
           Step(d, p) \/ Trouble(d, p)
    PROVE  \A x, y \in Devices : at'[x][y] = "reapply" => local'[x][y].edits \subseteq head'[x].edits
<1>0. HeadsForward /\ HeadsGrow
  BY HeadStep
<1>1. PICK place \in Places : MovesTo(d, p, place)
  BY <1>0, PushMoves
<1>2. /\ at'[d][p] = place
      /\ \A x, y \in Devices : x # d \/ y # p => at'[x][y] = at[x][y] /\ (at[x][y] = "reapply" => local'[x][y] = local[x][y])
  BY <1>1, AtEntry DEF MovesTo, IInv, Merging
<1>3. ASSUME NEW x \in Devices, NEW y \in Devices, x # d \/ y # p, at'[x][y] = "reapply"
      PROVE  local'[x][y].edits \subseteq head'[x].edits
  <2>1. at[x][y] = "reapply" /\ local'[x][y] = local[x][y]
    BY <1>2, <1>3
  <2>2. Before(head[x], head'[x])
    BY <1>0, <2>1 DEF HeadsForward, IInv, OneLocked, Locked
  <2> QED
    BY <2>1, <2>2 DEF PendingInv, Before
<1>4. ASSUME place = "reapply" PROVE local'[d][p].edits \subseteq head'[d].edits
  <2>1. CASE Merge(d, p)
    <3>1. head'[d] = Merged(local[d][p], peer[d][p]) /\ local' = local
      BY <2>1 DEF Merge, IInv, TypeOK
    <3> QED
      BY <3>1 DEF Merged
  <2>2. CASE ~ Merge(d, p)
    <3>1. at'[d][p] # "reapply"
      BY <2>2, AtEntry, OutcomeIs DEF IInv, Step, Trouble, Begin, Peek, PeekFails, Advertise, Land,
         AnswerLost, Verify, VerifyFails, Fetch, TakeLock, CommitFails, Compare, Forward, Reapply,
         Abandon, Goto
    <3> QED
      BY <1>2, <1>4, <3>1
  <2> QED
    BY <2>1, <2>2
<1> QED
  BY <1>2, <1>3, <1>4

LEMMA PendingStep == ASSUME IInv, PendingInv, [Next]_vars PROVE PendingInv'
<1>1. CASE UNCHANGED vars
  BY <1>1 DEF PendingInv, vars
<1>2. ASSUME NEW d \in Devices, Commit(d) PROVE PendingInv'
  <2>1. UNCHANGED <<at, local, snapshot>> /\ LockFree(d)
    BY <1>2 DEF Commit, pending
  <2>2. PICK e \in Own[d] \ head[d].edits : head' = [head EXCEPT ![d] = WithEdit(head[d], e)]
    BY <1>2 DEF Commit
  <2>3. snapshot[d] = {}
    BY <2>1 DEF PendingInv, LockFree, Holding, Locked
  <2>4. \A x \in Devices : head[x].edits \subseteq head'[x].edits /\ (x # d => head'[x] = head[x])
    BY <2>2 DEF WithEdit, IInv, TypeOK
  <2> QED
    BY <2>1, <2>3, <2>4 DEF PendingInv
<1>3. ASSUME NEW d \in Devices, NEW p \in Devices, Step(d, p) \/ Trouble(d, p) PROVE PendingInv'
  BY <1>3, HeldStep, UnmadeStep, LocalStep DEF PendingInv
<1> QED
  BY <1>1, <1>2, <1>3 DEF Next

LEMMA PendingInit == Init => PendingInv
  BY DEF Init, PendingInv

-----------------------------------------------------------------------------
(* How the order grows.                                                    *)

LEMMA ClashesApart ==
    ASSUME Apart, NEW s \in Edits, NEW t \in Edits, <<s, t>> \in Clashes
    PROVE  <<s, t>> \in OwnPairs
<1>1. PICK d, p \in Devices : s \in Own[d] /\ t \in Own[p]
  BY DEF Edits
<1>2. d = p
  BY <1>1 DEF Apart
<1> QED
  BY <1>1, <1>2 DEF OwnPairs

LEMMA WithEditOrdered ==
    ASSUME Apart, NEW c, Ordered(c), c.edits \subseteq Edits, NEW e \in Edits
    PROVE  Ordered(WithEdit(c, e))
<1>1. (c.edits \X {e}) \cap Clashes \subseteq OwnPairs
  BY ClashesApart
<1>2. /\ WithEdit(c, e).order = c.order \cup ((c.edits \X {e}) \cap Clashes)
      /\ WithEdit(c, e).merges = c.merges
  BY DEF WithEdit
<1> QED
  BY <1>1, <1>2 DEF Ordered

(* A device's edit on top of what there is of its own ...                  *)
LEMMA WithOwn ==
    ASSUME NEW x \in Devices, NEW c, NEW e \in Own[x]
    PROVE  LET g == WithEdit(c, e)
           IN  /\ OwnOf(x, g) = OwnOf(x, c) \cup {e}
               /\ OwnOrder(x, g) = OwnOrder(x, c) \cup (OwnOf(x, c) \X {e} \cap Clashes)
<1>1. /\ WithEdit(c, e).edits = c.edits \cup {e}
      /\ WithEdit(c, e).order = c.order \cup ((c.edits \X {e}) \cap Clashes)
  BY DEF WithEdit
<1> QED
  BY <1>1 DEF OwnOf, OwnOrder

(* ... is not among those of another.                                      *)
LEMMA WithOthers ==
    ASSUME NEW x \in Devices, NEW c, NEW e, e \notin Own[x]
    PROVE  LET g == WithEdit(c, e)
           IN  OwnOf(x, g) = OwnOf(x, c) /\ OwnOrder(x, g) = OwnOrder(x, c) /\ g.merges = c.merges
<1>1. /\ WithEdit(c, e).edits = c.edits \cup {e}
      /\ WithEdit(c, e).order = c.order \cup ((c.edits \X {e}) \cap Clashes)
      /\ WithEdit(c, e).merges = c.merges
  BY DEF WithEdit
<1> QED
  BY <1>1 DEF OwnOf, OwnOrder

LEMMA OthersFollow ==
    ASSUME NEW x \in Devices, NEW h, NEW c, Follows(x, h, c), NEW e, e \notin Own[x]
    PROVE  Follows(x, h, WithEdit(c, e))
<1> DEFINE g == WithEdit(c, e)
<1>1. OwnOf(x, g) = OwnOf(x, c) /\ OwnOrder(x, g) = OwnOrder(x, c) /\ c.edits \subseteq g.edits
  BY WithOthers DEF WithEdit
<1> HIDE DEF g
<1>2. OwnOf(x, g) \subseteq OwnOf(x, h) /\ OwnOrder(x, g) = OrderIn(x, h, OwnOf(x, g))
  BY <1>1 DEF Follows
<1>3. ASSUME NEW s \in OwnOf(x, h), NEW t \in OwnOf(x, g), <<s, t>> \in h.order
      PROVE  s \in g.edits
  BY <1>1, <1>3 DEF Follows
<1>4. Follows(x, h, g)
  BY <1>2, <1>3 DEF Follows
<1> QED
  BY <1>4 DEF g

(* What is put back comes on top of what the device has of its own.        *)
LEMMA ReappliedAdds ==
    ASSUME IInv, PendingInv, NEW x \in Devices, NEW p \in Devices, at[x][p] = "reapply",
           Chain(x, head[x]), Follows(x, head[x], local[x][p]), NEW e \in snapshot[x]
    PROVE  Adds(x, head[x], Reapplied(local[x][p], head[x], e))
<1> DEFINE h == head[x]
           a == local[x][p]
           w == WithEdit(a, e)
           g == Reapplied(a, h, e)
<1>1. e \in Own[x] \ h.edits
  BY DEF IInv, SnapshotOwn, PendingInv
<1>2. OwnOf(x, a) = OwnOf(x, h)
  BY DEF IInv, OwnInLocal, Merging, Follows, OwnOf
<1>3. OwnOrder(x, a) = OwnOrder(x, h)
  BY <1>2 DEF Follows, Chain, OrderIn
<1>4. /\ OwnOf(x, w) = OwnOf(x, h) \cup {e}
      /\ OwnOrder(x, w) = OwnOrder(x, h) \cup (OwnOf(x, h) \X {e} \cap Clashes)
  BY <1>1, <1>2, <1>3, WithOwn
<1>5. g.edits = h.edits \cup {e} /\ g.order = InOrder(w, h)
  BY DEF Reapplied
<1> HIDE DEF h, a, w, g
<1>6. OwnOf(x, g) = OwnOf(x, h) \cup {e}
  BY <1>1, <1>5 DEF OwnOf
<1>7. (h.edits \ w.edits) \cap Own[x] = {}
  BY <1>4 DEF OwnOf
<1>8. OwnOrder(x, g) = OwnOrder(x, w)
  <2>1. g.order = w.order \cup ((w.edits \X (h.edits \ w.edits)) \cap Clashes)
                  \cup (h.order \cap (h.edits \ w.edits) \X (h.edits \ w.edits))
    BY <1>5 DEF InOrder
  <2> QED
    BY <1>7, <2>1 DEF OwnOrder
<1> QED
  BY <1>1, <1>4, <1>6, <1>8 DEF Adds, g, h, a

(* The head of a device, of its own edits.                                 *)
LEMMA HeadAdds ==
    ASSUME IInv, PendingInv, OrderInv, [Next]_vars, NEW x \in Devices
    PROVE  Adds(x, head[x], head'[x])
<1>0. Chain(x, head[x]) /\ DOMAIN head = Devices
  BY DEF OrderInv, OrderOf, IInv, TypeOK
<1>1. OwnOf(x, head[x]) \subseteq OwnOf(x, head'[x])
  BY HeadStep DEF HeadsGrow, OwnOf
<1>2. ASSUME Follows(x, head[x], head'[x]) PROVE Adds(x, head[x], head'[x])
  <2>1. OwnOf(x, head'[x]) = OwnOf(x, head[x])
    BY <1>1, <1>2 DEF Follows
  <2>2. OwnOrder(x, head'[x]) = OwnOrder(x, head[x])
    BY <1>0, <1>2, <2>1 DEF Follows, OrderIn, Chain
  <2> QED
    BY <2>1, <2>2 DEF Adds
<1>3. CASE Recorded(head'[x])
  BY <1>2, <1>3 DEF OrderInv, OrderOf
<1>4. CASE NewCommit(head'[x])
  <2>1. PICK y \in Devices : \E e \in Own[y] \ head[y].edits :
            head'[x] = WithEdit(head[y], e) /\ head' = [head EXCEPT ![y] = head'[x]]
    BY <1>4 DEF NewCommit
  <2>2. PICK e \in Own[y] \ head[y].edits :
            head'[x] = WithEdit(head[y], e) /\ head' = [head EXCEPT ![y] = head'[x]]
    BY <2>1
  <2>3. CASE y # x
    BY <1>0, <2>2, <2>3 DEF Adds
  <2>4. CASE y = x
    BY <2>2, <2>4, WithOwn DEF Adds
  <2> QED
    BY <2>3, <2>4
<1>5. CASE NewMerge(head'[x])
  <2>1. PICK d \in Devices, p \in Devices :
            Merge(d, p) /\ head'[x] = Merged(local[d][p], peer[d][p])
    BY <1>5 DEF NewMerge
  <2>2. Recorded(local[d][p]) /\ Recorded(peer[d][p])
    BY DEF Recorded
  <2> QED
    BY <1>0, <1>2, <2>1, <2>2, MergedFollows DEF OrderInv, OrderOf
<1>6. CASE NewReapply(head'[x])
  <2>1. PICK d \in Devices, p \in Devices :
            /\ at[d][p] = "reapply"
            /\ \E e \in snapshot[d] : /\ head'[x] = Reapplied(local[d][p], head[d], e)
                                      /\ head' = [head EXCEPT ![d] = head'[x]]
    BY <1>6 DEF NewReapply
  <2>2. CASE d # x
    BY <1>0, <2>1, <2>2 DEF Adds
  <2>3. CASE d = x
    <3>1. Recorded(local[x][p])
      BY DEF Recorded
    <3>2. Follows(x, head[x], local[x][p])
      BY <3>1 DEF OrderInv, OrderOf
    <3> QED
      BY <1>0, <2>1, <2>3, <3>2, ReappliedAdds
  <2> QED
    BY <2>2, <2>3
<1> QED
  BY <1>3, <1>4, <1>5, <1>6, HeadIsNew

LEMMA NewFollows ==
    ASSUME IInv, PendingInv, OrderInv, [Next]_vars, NEW x \in Devices, NEW c,
           NewCommit(c) \/ NewMerge(c) \/ NewReapply(c)
    PROVE  Follows(x, head'[x], c) /\ MergesFollow(x, head'[x], c)
<1> DEFINE g == head'[x]
<1>0. DOMAIN head = Devices /\ Chain(x, head[x]) /\ Adds(x, head[x], g)
  BY HeadAdds DEF OrderInv, OrderOf, IInv, TypeOK
<1>1. Chain(x, g) /\ Follows(x, g, g)
  BY <1>0, ChainGrows
<1>2. ASSUME NEW b, Recorded(b) PROVE Follows(x, g, b) /\ MergesFollow(x, g, b)
  <2>1. IsHistory(b) /\ Follows(x, head[x], b) /\ MergesFollow(x, head[x], b)
    BY <1>2, RecordedKnown DEF OrderInv, OrderOf
  <2> QED
    BY <1>0, <2>1, FollowsGrow
<1>3. CASE NewCommit(c)
  <2>0. PICK y \in Devices : \E e \in Own[y] \ head[y].edits :
            c = WithEdit(head[y], e) /\ head' = [head EXCEPT ![y] = c]
    BY <1>3 DEF NewCommit
  <2>1. PICK e \in Own[y] \ head[y].edits :
            c = WithEdit(head[y], e) /\ head' = [head EXCEPT ![y] = c]
    BY <2>0
  <2>2. Recorded(head[y]) /\ c.merges = head[y].merges
    BY <2>1 DEF Recorded, WithEdit
  <2>3. MergesFollow(x, g, c)
    BY <1>2, <2>2 DEF MergesFollow
  <2>4. CASE y = x
    BY <1>0, <1>1, <2>1, <2>3, <2>4
  <2>5. CASE y # x
    <3>1. e \notin Own[x]
      BY <2>5, OwnAssumption
    <3> QED
      BY <1>2, <2>1, <2>2, <2>3, <3>1, OthersFollow
  <2> QED
    BY <2>4, <2>5
<1>4. CASE NewMerge(c)
  <2>1. PICK d \in Devices, p \in Devices : Merge(d, p) /\ c = Merged(local[d][p], peer[d][p])
    BY <1>4 DEF NewMerge
  <2>2. Recorded(local[d][p]) /\ Recorded(peer[d][p])
    BY DEF Recorded
  <2> QED
    BY <1>1, <1>2, <2>1, <2>2, MergedFollows
<1>5. CASE NewReapply(c)
  <2>0. PICK d \in Devices, p \in Devices :
            /\ at[d][p] = "reapply"
            /\ \E e \in snapshot[d] : /\ c = Reapplied(local[d][p], head[d], e)
                                      /\ head' = [head EXCEPT ![d] = c]
    BY <1>5 DEF NewReapply
  <2>1. PICK e \in snapshot[d] : /\ c = Reapplied(local[d][p], head[d], e)
                                 /\ head' = [head EXCEPT ![d] = c]
    BY <2>0
  <2> DEFINE w == WithEdit(local[d][p], e)
  <2>2. Recorded(head[d]) /\ Recorded(local[d][p])
    BY DEF Recorded
  <2>3. c.merges = head[d].merges /\ c.edits = head[d].edits \cup {e} /\ c.order = InOrder(w, head[d])
    BY <2>1 DEF Reapplied
  <2>4. MergesFollow(x, g, c)
    BY <1>2, <2>2, <2>3 DEF MergesFollow
  <2>5. CASE d = x
    BY <1>0, <1>1, <2>1, <2>4, <2>5
  <2>6. CASE d # x
    <3>1. e \notin Own[x]
      BY <2>6, OwnAssumption DEF IInv, SnapshotOwn
    <3>2. Follows(x, g, w)
      BY <1>2, <2>2, <3>1, OthersFollow
    <3>3. OwnOf(x, w) = OwnOf(x, local[d][p])
      BY <3>1, WithOthers
    <3>4. local[d][p].edits \subseteq head[d].edits
      BY <2>0 DEF PendingInv
    <3> HIDE DEF w, g
    <3>5. OwnOf(x, c) = OwnOf(x, w) \cup OwnOf(x, head[d])
      BY <2>3, <3>1, <3>3, <3>4 DEF OwnOf
    <3>6. Follows(x, g, c)
      BY <1>1, <1>2, <2>2, <2>3, <3>2, <3>5, UnionFollows
    <3> QED
      BY <2>4, <3>6 DEF g
  <2> QED
    BY <2>5, <2>6
<1> QED
  BY <1>3, <1>4, <1>5

LEMMA NewOrdered ==
    ASSUME Apart, IInv, OrderInv, NEW c, NewCommit(c) \/ NewMerge(c) \/ NewReapply(c)
    PROVE  Ordered(c)
<1>1. \A b : Recorded(b) => Ordered(b) /\ b.edits \subseteq Edits
  BY RecordedKnown DEF OrderInv, IsHistory
<1>2. CASE NewCommit(c)
  <2>1. PICK y \in Devices : \E e \in Own[y] : c = WithEdit(head[y], e)
    BY <1>2 DEF NewCommit
  <2>2. PICK e \in Own[y] : c = WithEdit(head[y], e)
    BY <2>1
  <2>3. Recorded(head[y]) /\ e \in Edits
    BY DEF Recorded, Edits
  <2> QED
    BY <1>1, <2>2, <2>3, WithEditOrdered
<1>3. CASE NewMerge(c)
  <2>1. PICK d \in Devices, p \in Devices : c = Merged(local[d][p], peer[d][p])
    BY <1>3 DEF NewMerge
  <2>2. Recorded(local[d][p]) /\ Recorded(peer[d][p])
    BY DEF Recorded
  <2> QED
    BY <1>1, <2>1, <2>2, MergedOrdered
<1>4. CASE NewReapply(c)
  <2>1. PICK d \in Devices, p \in Devices :
            \E e \in snapshot[d] : c = Reapplied(local[d][p], head[d], e)
    BY <1>4 DEF NewReapply
  <2>2. PICK e \in snapshot[d] : c = Reapplied(local[d][p], head[d], e)
    BY <2>1
  <2>3. Recorded(local[d][p]) /\ Recorded(head[d]) /\ e \in Edits
    BY DEF Recorded, Edits, IInv, SnapshotOwn
  <2> DEFINE w == WithEdit(local[d][p], e)
  <2>4. Ordered(w)
    BY <1>1, <2>3, WithEditOrdered
  <2>5. w.edits \subseteq Edits
    BY <1>1, <2>3 DEF WithEdit
  <2>6. c.order = InOrder(w, head[d]) /\ c.merges = head[d].merges
    BY <2>2 DEF Reapplied
  <2> HIDE DEF w
  <2>7. InOrder(w, head[d]) \subseteq OwnPairs
    BY <1>1, <2>3, <2>4, <2>5, MergedOrdered
  <2> QED
    BY <1>1, <2>3, <2>6, <2>7 DEF Ordered
<1> QED
  BY <1>2, <1>3, <1>4

LEMMA OrderStep ==
    ASSUME Apart, IInv, PendingInv, OrderInv, [Next]_vars PROVE OrderInv'
<1>1. ASSUME NEW x \in Devices PROVE OrderOf(x)'
  <2>1. Chain(x, head[x]) /\ Adds(x, head[x], head'[x])
    BY HeadAdds DEF OrderInv, OrderOf
  <2>2. Chain(x, head'[x])
    BY <2>1, ChainGrows
  <2>3. ASSUME NEW c, Recorded(c) PROVE Follows(x, head'[x], c) /\ MergesFollow(x, head'[x], c)
    <3>1. IsHistory(c) /\ Follows(x, head[x], c) /\ MergesFollow(x, head[x], c)
      BY <2>3, RecordedKnown DEF OrderInv, OrderOf
    <3> QED
      BY <2>1, <3>1, FollowsGrow
  <2>4. ASSUME NEW c, Recorded(c)' PROVE Follows(x, head'[x], c) /\ MergesFollow(x, head'[x], c)
    BY <2>3, <2>4, RecordedIsNew, NewFollows
  <2> QED
    BY <2>2, <2>4 DEF OrderOf, Chain, Follows, MergesFollow, OwnOf, OwnOrder, OrderIn, OwnAtMerge
<1>2. ASSUME NEW c, Recorded(c)' PROVE Ordered(c)
  BY <1>2, RecordedIsNew, NewOrdered DEF OrderInv
<1> QED
  BY <1>1, <1>2 DEF OrderInv, Ordered, OwnPairs

LEMMA OrderInit == Init => OrderInv
<1> SUFFICES ASSUME Init PROVE OrderInv
  OBVIOUS
<1>1. /\ Root.edits = {} /\ Root.order = {} /\ Root.merges = {}
      /\ \A x \in Devices : head[x] = Root
      /\ \A c : Recorded(c) => c = Root
  BY DEF Init, Root, Recorded
<1>2. ASSUME NEW x \in Devices
      PROVE  Chain(x, Root) /\ Follows(x, Root, Root) /\ MergesFollow(x, Root, Root)
  BY <1>1 DEF Chain, Follows, OrderIn, MergesFollow, OwnOf, OwnOrder
<1>3. Ordered(Root)
  BY <1>1 DEF Ordered
<1> QED
  BY <1>1, <1>2, <1>3 DEF OrderInv, OrderOf

THEOREM OrderInvariance == ASSUME Apart PROVE Spec => [](IInv /\ PendingInv /\ OrderInv)
<1>1. IInv /\ PendingInv /\ [Next]_vars => PendingInv'
  BY PendingStep
<1>2. IInv /\ PendingInv /\ OrderInv /\ [Next]_vars => OrderInv'
  BY OrderStep
<1> QED
  BY <1>1, <1>2, InitInv, PendingInit, OrderInit, StepInv, PTL DEF Spec

(* As long as no edits of two devices clash, a merge unites two heads with *)
(* different edits, whatever the devices and their edits: devices that     *)
(* have the same edits have nothing to merge any more.  A merge around a   *)
(* commit that failed may unite nothing: lan_push.py takes its exits only  *)
(* if there are no files to put back.                                      *)
THEOREM MergesUniteEdits == ASSUME Apart PROVE Spec => MergesUnite
<1>1. IInv /\ OrderInv =>
          \A d, p \in Devices :
              Merge(d, p) /\ snapshot[d] = {} =>
                  LET a == local[d][p]  b == peer[d][p]
                  IN  a.edits # b.edits /\ ~ Before(a, b) /\ ~ Before(b, a)
  <2> SUFFICES ASSUME IInv, OrderInv, NEW d \in Devices, NEW p \in Devices,
                      Merge(d, p), snapshot[d] = {}
               PROVE  LET a == local[d][p]  b == peer[d][p]
                      IN  a.edits # b.edits /\ ~ Before(a, b) /\ ~ Before(b, a)
    OBVIOUS
  <2>1. GoneApart(local[d][p], peer[d][p])
    BY DEF IInv, MergeApart, Merge
  <2>2. Recorded(local[d][p]) /\ Recorded(peer[d][p])
    BY DEF Recorded
  <2> QED
    BY <2>1, <2>2, SameEditsSameOrder DEF GoneApart
<1> QED
  BY <1>1, OrderInvariance, PTL DEF MergesUnite

(* And the merges of two heads are one commit, whoever makes it: what      *)
(* repo.py:4760 says, under the condition it needs.                        *)
THEOREM SameInputsSameMerge == ASSUME Apart PROVE Spec => []SameInputsSameTree
<1>1. OrderInv => SameInputsSameTree
  <2> SUFFICES ASSUME OrderInv, NEW d \in Devices, NEW p \in Devices,
                      NEW m \in head[d].merges, NEW n \in head[p].merges, m.parents = n.parents
               PROVE  m = n
    BY DEF SameInputsSameTree
  <2>1. Recorded(head[d]) /\ Recorded(head[p])
    BY DEF Recorded
  <2>2. /\ m.order \subseteq OwnPairs /\ m = [parents |-> m.parents, order |-> m.order]
        /\ n.order \subseteq OwnPairs /\ n = [parents |-> n.parents, order |-> n.order]
    BY <2>1 DEF OrderInv, Ordered
  <2>3. ASSUME NEW x \in Devices PROVE OwnOrder(x, m) = OwnOrder(x, n)
    <3>1. MergesFollow(x, head[x], head[d]) /\ MergesFollow(x, head[x], head[p])
      BY <2>1 DEF OrderInv, OrderOf
    <3>2. OwnAtMerge(x, m) = OwnAtMerge(x, n)
      BY DEF OwnAtMerge
    <3> QED
      BY <3>1, <3>2 DEF MergesFollow
  <2>4. m.order = n.order
    BY <2>2, <2>3, SameParts
  <2> QED
    BY <2>2, <2>4
<1> QED
  BY <1>1, OrderInvariance, PTL
=============================================================================
