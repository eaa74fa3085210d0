------------------------- MODULE PeerSharing_proof --------------------------
(***************************************************************************)
(* A device is in the table of another only by the consent of both users,  *)
(* and has a grant of the project only by the choice of one; a pairing is  *)
(* marked as confirmed only where the other side holds it: for every set   *)
(* of devices and any number of gestures, whatever calls are lost, late or *)
(* sent again.                                                             *)
(***************************************************************************)
EXTENDS PeerSharing, TLAPS

Both(d, p) == p \in agreed[d] /\ d \in agreed[p]
One(d, p) == p \in chosen[d] \/ d \in chosen[p]

(* An open request, and one under way, was sent by a user.                 *)
Asked ==
    /\ \A d \in Devices : \A p \in invites[d] : d \in agreed[p]
    /\ \A m \in net : m.kind = "request" => m.to \in agreed[m.from]

(* A hello is sent only by a device whose user has agreed to a pairing the *)
(* other had agreed to.                                                    *)
Met == \A m \in net : m.kind \in {"hello", "vetted"} => Both(m.from, m.to)

(* A clone is one the user asked for, and so is one that waits.            *)
Wanted == \A d \in Devices : \A p \in cloning[d] \cup affirmed[d] : p \in chosen[d]

(* A call that names the project goes between two devices one of whose     *)
(* users has chosen to share it with the other.                            *)
Claimed == \A m \in net : m.claim \/ m.code => One(m.from, m.to)

(* All that is kept, and is kept by every step.                            *)
IInv ==
    /\ TypeOK
    /\ PairsNeedConsent /\ Asked /\ Met
    /\ SharesNeedAChoice /\ Wanted /\ Claimed

EntryOK ==
    /\ entry \in [Devices -> [Devices -> Entry]]
    /\ \A d, p \in Devices : p \notin peers[d] => entry[d][p] = Blank

-----------------------------------------------------------------------------
(* Every variable keeps its type.                                          *)

(* What the operators return has its type.                                 *)
LEMMA SimpleIsCall ==
    ASSUME NEW k \in Kinds, NEW d \in Devices, NEW p \in Devices
    PROVE  Simple(k, d, p) \in Call
  BY DEF Simple, Call

LEMMA HelloIsCall ==
    ASSUME NEW d \in Devices, NEW p \in Devices, NEW claim \in BOOLEAN,
           NEW heal \in BOOLEAN, NEW code \in BOOLEAN
    PROVE  Hello(d, p, claim, heal, code) \in Call
  BY DEF Hello, Call, Kinds

LEMMA BlankIsEntry == Blank \in Entry
  BY DEF Blank, Entry, Theirs

LEMMA SettledIsEntry == Settled \in Entry
  BY DEF Settled, Entry, Theirs

LEMMA RecordedIsEntry ==
    ASSUME NEW e \in Entry PROVE Recorded(e) \in Entry
  BY DEF Recorded, Blank, Entry, Theirs

LEMMA ToldIsEntry ==
    ASSUME NEW e \in Entry, NEW claim PROVE Told(e, claim) \in Entry
  BY DEF Told, Entry, Theirs

LEMMA ReciprocatedIsEntry ==
    ASSUME NEW e \in Entry, NEW d, NEW claim \in BOOLEAN
    PROVE  Reciprocated(d, e, claim) \in Entry
  BY DEF Reciprocated, Entry

LEMMA ChangedIsEntry ==
    ASSUME NEW e \in Entry
    PROVE  /\ [e EXCEPT !.shared = TRUE] \in Entry
           /\ [e EXCEPT !.shared = FALSE] \in Entry
           /\ [e EXCEPT !.shared = TRUE, !.declined = FALSE] \in Entry
           /\ [e EXCEPT !.declined = FALSE] \in Entry
           /\ [e EXCEPT !.declined = TRUE] \in Entry
           /\ [e EXCEPT !.proven = TRUE] \in Entry
           /\ [e EXCEPT !.proven = TRUE, !.theirs = "yes"] \in Entry
  BY DEF Entry, Theirs

LEMMA EntryTyped ==
    ASSUME TypeOK, NEW d \in Devices, NEW p \in Devices
    PROVE  entry[d][p] \in Entry /\ entry[d][p].shared \in BOOLEAN
<1>1. entry[d][p] \in Entry
  BY DEF TypeOK
<1> QED
  BY <1>1 DEF Entry

(* A call goes from a device to a device.                                  *)
LEMMA CallTyped ==
    ASSUME TypeOK, NEW m \in net
    PROVE  m \in Call /\ m.to \in Devices /\ m.from \in Devices
<1>1. m \in Call
  BY DEF TypeOK
<1> QED
  BY <1>1 DEF Call

(* The effect of adding to a set of devices, and of taking out of it.      *)
LEMMA SetsTyped ==
    ASSUME NEW f \in [Devices -> SUBSET Devices], NEW d \in Devices, NEW p \in Devices
    PROVE  /\ With(f, d, p) \in [Devices -> SUBSET Devices]
           /\ Without(f, d, p) \in [Devices -> SUBSET Devices]
  BY DEF With, Without

(* What is added is there, and what was there stays.                       *)
LEMMA SetsGrow ==
    ASSUME NEW f \in [Devices -> SUBSET Devices], NEW d \in Devices, NEW p \in Devices
    PROVE  /\ With(f, d, p) \in [Devices -> SUBSET Devices]
           /\ p \in With(f, d, p)[d]
           /\ \A x \in Devices : f[x] \subseteq With(f, d, p)[x]
  BY DEF With

(* Taking out of both, or out of the smaller, keeps one inside the other.  *)
LEMMA WithoutBoth ==
    ASSUME NEW f \in [Devices -> SUBSET Devices], NEW g \in [Devices -> SUBSET Devices],
           \A x \in Devices : f[x] \subseteq g[x],
           NEW d \in Devices, NEW p \in Devices
    PROVE  /\ \A x \in Devices : Without(f, d, p)[x] \subseteq Without(g, d, p)[x]
           /\ \A x \in Devices : Without(f, d, p)[x] \subseteq With(g, d, p)[x]
           /\ p \in g[d] => \A x \in Devices : With(f, d, p)[x] \subseteq g[x]
  BY DEF With, Without

(* The count of gestures stays within its bound.                           *)
LEMMA GestureTyped ==
    ASSUME TypeOK, Gesture PROVE gestures' \in 0 .. MaxGestures
  BY SharingAssumption DEF TypeOK, Gesture

(* What the handler of a hello, and of its answer, writes is an entry.     *)
LEMMA GreetedIsEntry ==
    ASSUME NEW m \in Call, entry[m.to][m.from] \in Entry
    PROVE  Greeted(m) \in Entry
<1> DEFINE r == Recorded(entry[m.to][m.from])
           e == [r EXCEPT !.confirmed = TRUE,
                          !.shared = @ \/ (m.code /\ m.to \in showing)]
<1>1. r \in Entry
  BY RecordedIsEntry
<1>2. m.claim \in BOOLEAN /\ m.code \in BOOLEAN
  BY DEF Call
<1>3. e \in Entry
  BY <1>1, <1>2 DEF Entry
<1>4. Told(e, m.claim) \in Entry
  BY <1>3, ToldIsEntry
<1> QED
  BY <1>2, <1>4, ReciprocatedIsEntry DEF Greeted

LEMMA AnsweredIsEntry ==
    ASSUME NEW m \in Call, entry[m.to][m.from] \in Entry
    PROVE  LET e == [entry[m.to][m.from] EXCEPT !.confirmed = @ \/ m.heal]
           IN  e \in Entry /\ Reciprocated(m.to, Told(e, m.claim), m.claim) \in Entry
<1> DEFINE e == [entry[m.to][m.from] EXCEPT !.confirmed = @ \/ m.heal]
<1>1. m.heal \in BOOLEAN /\ m.claim \in BOOLEAN
  BY DEF Call
<1>2. e \in Entry
  BY <1>1 DEF Entry
<1>3. Told(e, m.claim) \in Entry
  BY <1>2, ToldIsEntry
<1> QED
  BY <1>1, <1>2, <1>3, ReciprocatedIsEntry

(* Each of the ways to change a table keeps it well formed.                *)
LEMMA SetTyped ==
    ASSUME TypeOK, NEW d \in Devices, NEW p \in Devices, NEW e \in Entry,
           Set(d, p, e), peers' = peers
    PROVE  EntryOK'
  BY DEF TypeOK, Set, EntryOK

LEMMA UnpairTyped ==
    ASSUME TypeOK, NEW d \in Devices, NEW p \in Devices,
           peers' = Without(peers, d, p), entry' = [entry EXCEPT ![d][p] = Blank]
    PROVE  EntryOK' /\ peers' \in [Devices -> SUBSET Devices]
  BY BlankIsEntry, SetsTyped DEF TypeOK, EntryOK, Without

LEMMA RecordTyped ==
    ASSUME TypeOK, NEW d \in Devices, NEW p \in Devices, NEW e \in Entry,
           Record(d, p, e)
    PROVE  /\ EntryOK' /\ peers' \in [Devices -> SUBSET Devices]
           /\ tombs' \in [Devices -> SUBSET Devices]
           /\ unpaired' \in [Devices -> SUBSET Devices]
<1>1. /\ peers' \in [Devices -> SUBSET Devices] /\ tombs' \in [Devices -> SUBSET Devices]
      /\ unpaired' \in [Devices -> SUBSET Devices]
  BY DEF TypeOK, Record, With, Without
<1>2. entry' \in [Devices -> [Devices -> Entry]]
  BY DEF TypeOK, Record
<1>3. \A x, y \in Devices : y \notin peers'[x] => entry'[x][y] = Blank
  BY DEF TypeOK, Record, With
<1> QED
  BY <1>1, <1>2, <1>3 DEF EntryOK

(* Every action, taken in a state of the types, ends in one.               *)
LEMMA TypeStep ==
    ASSUME TypeOK, [Next]_vars PROVE TypeOK'
<1> USE SharingAssumption
<1>1. ASSUME NEW d \in Devices, NEW p \in Devices, Invite(d, p) PROVE TypeOK'
  <2>1. Simple("request", d, p) \in Call
    BY SimpleIsCall DEF Kinds
  <2> QED
    BY <1>1, <2>1, SetsTyped, GestureTyped DEF Invite, tables,
    decisions, history, TypeOK, EntryOK
<1>2. ASSUME NEW d \in Devices, NEW p \in Devices, AcceptInvite(d, p) PROVE TypeOK'
  <2>1. Recorded(entry[d][p]) \in Entry
    BY EntryTyped, RecordedIsEntry
  <2>2. /\ EntryOK'
        /\ peers' \in [Devices -> SUBSET Devices]
        /\ tombs' \in [Devices -> SUBSET Devices]
        /\ unpaired' \in [Devices -> SUBSET Devices]
    BY <1>2, <2>1, RecordTyped DEF AcceptInvite
  <2>3. Hello(d, p, entry[d][p].shared, TRUE, FALSE) \in Call
    BY EntryTyped, HelloIsCall
  <2> QED
    BY <1>2, <2>2, <2>3, SetsTyped, GestureTyped DEF AcceptInvite,
    tables, decisions, history, TypeOK, EntryOK
<1>3. ASSUME NEW d \in Devices, NEW p \in Devices, DeclineInvite(d, p) PROVE TypeOK'
  BY <1>3, SetsTyped, GestureTyped DEF DeclineInvite, tables, decisions,
    history, TypeOK, EntryOK
<1>4. ASSUME NEW d \in Devices, NEW p \in Devices, NEW code \in BOOLEAN, Scan(d, p, code) PROVE TypeOK'
  <2>1. Recorded(entry[d][p]) \in Entry
    BY EntryTyped, RecordedIsEntry
  <2>2. /\ EntryOK'
        /\ peers' \in [Devices -> SUBSET Devices]
        /\ tombs' \in [Devices -> SUBSET Devices]
        /\ unpaired' \in [Devices -> SUBSET Devices]
    BY <1>4, <2>1, RecordTyped DEF Scan
  <2>3. Hello(d, p, entry[d][p].shared, FALSE, code) \in Call
    BY EntryTyped, HelloIsCall
  <2> QED
    BY <1>4, <2>2, <2>3, SetsTyped, GestureTyped DEF Scan, tables,
    decisions, history, TypeOK, EntryOK
<1>5. ASSUME NEW d \in Devices, NEW p \in Devices, Share(d, p) PROVE TypeOK'
  <2>1. [entry[d][p] EXCEPT !.shared = TRUE, !.declined = FALSE] \in Entry
    BY EntryTyped, ChangedIsEntry
  <2>2. EntryOK'
    BY <1>5, <2>1, SetTyped DEF Share
  <2>3. Simple("offer", d, p) \in Call
    BY SimpleIsCall DEF Kinds
  <2> QED
    BY <1>5, <2>2, <2>3, SetsTyped, GestureTyped DEF Share, tables, decisions, history, TypeOK, EntryOK
<1>6. ASSUME NEW d \in Devices, NEW p \in Devices, AcceptOffer(d, p) PROVE TypeOK'
  <2>1. [entry[d][p] EXCEPT !.declined = FALSE] \in Entry
    BY EntryTyped, ChangedIsEntry
  <2>2. EntryOK'
    BY <1>6, <2>1, SetTyped DEF AcceptOffer
  <2> QED
    BY <1>6, <2>2, SetsTyped, GestureTyped DEF AcceptOffer, tables, decisions, history, TypeOK, EntryOK
<1>7. ASSUME NEW d \in Devices, NEW p \in Devices, DeclineOffer(d, p) PROVE TypeOK'
  <2>1. [entry[d][p] EXCEPT !.declined = TRUE] \in Entry
    BY EntryTyped, ChangedIsEntry
  <2>2. EntryOK'
    BY <1>7, <2>1, SetTyped DEF DeclineOffer
  <2>3. Simple("nack", d, p) \in Call
    BY SimpleIsCall DEF Kinds
  <2>4. \A x \in Devices : affirmed'[x] \subseteq offers'[x]
    BY <1>7, WithoutBoth DEF DeclineOffer, TypeOK
  <2> QED
    BY <1>7, <2>2, <2>3, SetsTyped, GestureTyped,
    <2>4 DEF DeclineOffer, tables, decisions, history, TypeOK,
    EntryOK
<1>8. ASSUME NEW d \in Devices, NEW p \in Devices, Unshare(d, p) PROVE TypeOK'
  <2>1. [entry[d][p] EXCEPT !.shared = FALSE] \in Entry
    BY EntryTyped, ChangedIsEntry
  <2>2. EntryOK'
    BY <1>8, <2>1, SetTyped DEF Unshare
  <2>3. Simple("unshare", d, p) \in Call
    BY SimpleIsCall DEF Kinds
  <2> QED
    BY <1>8, <2>2, <2>3, SetsTyped, GestureTyped DEF Unshare,
    tables, decisions, history, TypeOK, EntryOK
<1>9. ASSUME NEW d \in Devices, NEW p \in Devices, Unpair(d, p) PROVE TypeOK'
  <2>1. EntryOK' /\ peers' \in [Devices -> SUBSET Devices]
    BY <1>9, UnpairTyped DEF Unpair
  <2> QED
    BY <1>9, SetsTyped, GestureTyped, <2>1 DEF Unpair, tables, decisions, history, TypeOK, EntryOK
<1>10. ASSUME NEW d \in Devices, NEW p \in Devices, EntersTomb(d, p) PROVE TypeOK'
  BY <1>10, SetsTyped DEF EntersTomb, tables, decisions, history, TypeOK,
    EntryOK
<1>11. ASSUME NEW d \in Devices, NEW p \in Devices, CloneDone(d, p) PROVE TypeOK'
  <2>1. [entry[d][p] EXCEPT !.shared = TRUE] \in Entry
    BY EntryTyped, ChangedIsEntry
  <2>2. EntryOK'
    BY <1>11, <2>1, SetTyped DEF CloneDone
  <2>3. \A x \in Devices : affirmed'[x] \subseteq offers'[x]
    BY <1>11, WithoutBoth DEF CloneDone, TypeOK
  <2>4. holds' \in SUBSET Devices /\ showing' \in SUBSET holds'
    BY <1>11 DEF CloneDone, TypeOK
  <2>5. UNCHANGED <<peers, tombs, invites, leaving, net, history>>
    BY <1>11 DEF CloneDone
  <2>6. /\ offers' \in [Devices -> SUBSET Devices]
        /\ affirmed' \in [Devices -> SUBSET Devices]
        /\ cloning' \in [Devices -> SUBSET Devices]
    BY <1>11, SetsTyped DEF CloneDone, TypeOK
  <2> QED
    BY <2>2, <2>3, <2>4, <2>5, <2>6 DEF TypeOK, EntryOK, history
<1>12. ASSUME NEW d \in Devices, NEW p \in Devices, CloneFails(d, p) PROVE TypeOK'
  <2>1. \A x \in Devices : affirmed'[x] \subseteq offers'[x]
    <3>1. CASE p \in offers[d]
      BY <1>12, <3>1 DEF CloneFails, TypeOK, With, decisions
    <3>2. CASE p \notin offers[d]
      BY <1>12,
      <3>2 DEF CloneFails, TypeOK
    <3> QED
      BY <3>1, <3>2
  <2> QED
    BY <1>12, SetsTyped, <2>1 DEF CloneFails, tables, decisions,
    history, TypeOK, EntryOK
<1>13. ASSUME NEW d \in Devices, NEW p \in Devices, RetryAffirmed(d, p) PROVE TypeOK'
  BY <1>13, SetsTyped DEF RetryAffirmed, tables, decisions, history, TypeOK,
    EntryOK
<1>14. ASSUME NEW d \in Devices, NEW p \in Devices, Heal(d, p) PROVE TypeOK'
  <2>1. Hello(d, p, entry[d][p].shared, TRUE, FALSE) \in Call
    BY EntryTyped, HelloIsCall
  <2> QED
    BY <1>14, <2>1, SetsTyped DEF Heal, tables, decisions, history,
    TypeOK, EntryOK
<1>15. ASSUME NEW d \in Devices, NEW p \in Devices, Reoffer(d, p) PROVE TypeOK'
  <2>1. Simple("offer", d, p) \in Call
    BY SimpleIsCall DEF Kinds
  <2> QED
    BY <1>15, <2>1, SetsTyped DEF Reoffer, tables, decisions,
    history, TypeOK, EntryOK
<1>16. ASSUME NEW d \in Devices, NEW p \in Devices, Refresh(d, p) PROVE TypeOK'
  <2>1. Hello(d, p, entry[d][p].shared, FALSE, FALSE) \in Call
    BY EntryTyped, HelloIsCall
  <2> QED
    BY <1>16, <2>1, SetsTyped DEF Refresh, tables, decisions,
    history, TypeOK, EntryOK
<1>17. ASSUME NEW d \in Devices, NEW p \in Devices, Push(d, p) PROVE TypeOK'
  <2>1. [entry[d][p] EXCEPT !.proven = TRUE] \in Entry
    BY EntryTyped, ChangedIsEntry
  <2>2. EntryOK'
    BY <1>17, <2>1, SetTyped DEF Push
  <2> QED
    BY <1>17, <2>2, SetsTyped DEF Push, tables, decisions, history,
    TypeOK, EntryOK
<1>18. ASSUME NEW d \in Devices, ShowCode(d) PROVE TypeOK'
  BY <1>18, SetsTyped, GestureTyped DEF ShowCode, tables, decisions, history,
    TypeOK, EntryOK
<1>19. ASSUME NEW d \in Devices, HideCode(d) PROVE TypeOK'
  BY <1>19, SetsTyped DEF HideCode, tables, decisions, history, TypeOK, EntryOK
<1>20. ASSUME NEW d \in Devices, Obtain(d) PROVE TypeOK'
  BY <1>20, SetsTyped DEF Obtain, tables, decisions, history, TypeOK, EntryOK
<1>21. ASSUME NEW m \in net, RequestArrives(m) PROVE TypeOK'
  <2>1. m \in Call
    BY DEF TypeOK
  <2> QED
    BY <1>21, <2>1, SetsTyped DEF RequestArrives, tables, decisions,
    history, TypeOK, EntryOK, Call
<1>22. ASSUME NEW m \in net, HelloArrives(m) PROVE TypeOK'
  <2>1. m \in Call
    BY DEF TypeOK
  <2>2. /\ [Simple("refusal", m.to, m.from) EXCEPT !.heal = m.heal] \in Call
        /\ [m EXCEPT !.kind = "vetted"] \in Call
    BY <2>1 DEF Simple, Call, Kinds
  <2> QED
    BY <1>22, <2>1, <2>2, SetsTyped DEF HelloArrives, tables,
    decisions, history, TypeOK, EntryOK
<1>23. ASSUME NEW m \in net, HelloRecorded(m) PROVE TypeOK'
  <2>1. m \in Call
    BY DEF TypeOK
  <2>2. /\ m.to \in Devices
        /\ m.from \in Devices
        /\ m.claim \in BOOLEAN
        /\ entry[m.to][m.from] \in Entry
    BY <2>1 DEF TypeOK, Call
  <2>3. Greeted(m) \in Entry
    BY <2>1, <2>2, GreetedIsEntry
  <2>4. /\ EntryOK'
        /\ peers' \in [Devices -> SUBSET Devices]
        /\ tombs' \in [Devices -> SUBSET Devices]
        /\ unpaired' \in [Devices -> SUBSET Devices]
    BY <1>23, <2>2, <2>3, RecordTyped DEF HelloRecorded
  <2>5. [Simple("answer", m.to, m.from) EXCEPT !.heal = m.heal,
                                                 !.claim = Greeted(m).shared] \in Call
    BY <2>1, <2>3 DEF Simple, Call, Kinds, Entry
  <2> QED
    BY <1>23, <2>1, <2>4, <2>5, SetsTyped DEF HelloRecorded, tables,
    decisions, history, TypeOK, EntryOK, Call
<1>24. ASSUME NEW m \in net, AnswerArrives(m) PROVE TypeOK'
  <2>1. m \in Call
    BY DEF TypeOK
  <2>2. /\ m.to \in Devices
        /\ m.from \in Devices
        /\ m.claim \in BOOLEAN
        /\ m.heal \in BOOLEAN
        /\ entry[m.to][m.from] \in Entry
    BY <2>1 DEF TypeOK, Call
  <2>3. \E e \in Entry : Set(m.to, m.from, e)
    BY <1>24, <2>1, <2>2, AnsweredIsEntry DEF AnswerArrives
  <2>4. EntryOK'
    BY <1>24, <2>2, <2>3, SetTyped DEF AnswerArrives
  <2> QED
    BY <1>24, <2>1, <2>4, <2>2, SetsTyped DEF AnswerArrives, tables,
    decisions, history, TypeOK, EntryOK, Call
<1>25. ASSUME NEW m \in net, OfferDropped(m) PROVE TypeOK'
  <2>1. m \in Call
    BY DEF TypeOK
  <2>2. Simple("nack", m.to, m.from) \in Call
    BY <2>1, SimpleIsCall DEF Call, Kinds
  <2> QED
    BY <1>25, <2>1, <2>2, SetsTyped DEF OfferDropped, tables,
    decisions, history, TypeOK, EntryOK
<1>26. ASSUME NEW m \in net, OfferArrives(m) PROVE TypeOK'
  <2>1. m \in Call
    BY DEF TypeOK
  <2>2. /\ m.to \in Devices
        /\ m.from \in Devices
        /\ m.claim \in BOOLEAN
        /\ m.heal \in BOOLEAN
        /\ entry[m.to][m.from] \in Entry
    BY <2>1 DEF TypeOK, Call
  <2>3. \E e \in Entry : Set(m.to, m.from, e)
    BY <1>26, <2>2, ChangedIsEntry DEF OfferArrives
  <2>4. EntryOK'
    BY <1>26, <2>2, <2>3, SetTyped DEF OfferArrives
  <2>5. /\ offers' \in [Devices -> SUBSET Devices]
        /\ affirmed' \in [Devices -> SUBSET Devices]
        /\ \A x \in Devices : affirmed'[x] \subseteq offers'[x]
    <3>1. CASE m.to \in holds
      BY <1>26, <3>1 DEF OfferArrives, TypeOK
    <3>2. CASE m.to \notin holds
      <4>1. /\ affirmed' = Without(affirmed, m.to, m.from)
            /\ offers' = With(offers, m.to, m.from)
        BY <1>26, <3>2 DEF OfferArrives
      <4>2. \A x \in Devices : affirmed'[x] \subseteq offers'[x]
        BY <2>2, <4>1 DEF TypeOK, With, Without
      <4> QED
        BY <2>2, <4>1, <4>2, SetsTyped DEF TypeOK
    <3> QED
      BY <3>1, <3>2
  <2>7. /\ net' = net \ {m}
        /\ UNCHANGED <<peers, tombs, invites, holds, cloning, showing, leaving, history>>
    BY <1>26 DEF OfferArrives
  <2> QED
    BY <2>4, <2>5, <2>7 DEF TypeOK, EntryOK, history
<1>27. ASSUME NEW m \in net, ShareTakenBack(m) PROVE TypeOK'
  <2>1. m \in Call
    BY DEF TypeOK
  <2>2. /\ m.to \in Devices
        /\ m.from \in Devices
        /\ m.claim \in BOOLEAN
        /\ m.heal \in BOOLEAN
        /\ entry[m.to][m.from] \in Entry
    BY <2>1 DEF TypeOK, Call
  <2>3. \E e \in Entry : Set(m.to, m.from, e)
    BY <1>27, <2>2, ChangedIsEntry DEF ShareTakenBack
  <2>4. EntryOK'
    BY <1>27, <2>2, <2>3, SetTyped DEF ShareTakenBack
  <2> QED
    BY <1>27, <2>1, <2>4, <2>2, SetsTyped DEF ShareTakenBack,
    tables, decisions, history, TypeOK, EntryOK, Call
<1>28. ASSUME NEW m \in net, Lost(m) PROVE TypeOK'
  <2>1. m \in Call
    BY DEF TypeOK
  <2> QED
    BY <1>28, <2>1, SetsTyped DEF Lost, tables, decisions, history,
    TypeOK, EntryOK, Call
<1>30. ASSUME NEW d \in Devices, NEW p \in Devices, TombFails(d, p) PROVE TypeOK'
  BY <1>30, SetsTyped DEF TombFails, tables, decisions, history, TypeOK, EntryOK
<1>31. ASSUME NEW d \in Devices, Restart(d) PROVE TypeOK'
  BY <1>31 DEF Restart, tables, decisions, history, TypeOK, EntryOK
<1>29. CASE UNCHANGED vars
  BY <1>29 DEF vars, tables, decisions, history, TypeOK
<1> QED
  BY <1>1, <1>2, <1>3, <1>4, <1>5, <1>6, <1>7, <1>8, <1>9, <1>10,
  <1>11, <1>12, <1>13, <1>14, <1>15, <1>16, <1>17, <1>18, <1>19, <1>20, <1>21,
  <1>22, <1>23, <1>24, <1>25, <1>26, <1>27, <1>28, <1>29, <1>30, <1>31 DEF Next, Well,
  UserDoes, DaemonDoes, Arrives

-----------------------------------------------------------------------------
(* No pairing without the consent of both.                                 *)

(* Consent is not taken back, and a step that records a pair has it.       *)
LEMMA PairRecorded ==
    ASSUME TypeOK, PairsNeedConsent, NEW d \in Devices, NEW p \in Devices,
           peers' = With(peers, d, p),
           \A x \in Devices : agreed[x] \subseteq agreed'[x], Both(d, p)'
    PROVE  PairsNeedConsent'
  BY DEF TypeOK, PairsNeedConsent, With, Both

(* Every action keeps consent: only a request and an acceptance add to it. *)
LEMMA ConsentStep ==
    ASSUME TypeOK, PairsNeedConsent, Asked, Met, [Next]_vars
    PROVE  PairsNeedConsent' /\ Asked' /\ Met'
<1>1. ASSUME NEW d \in Devices, NEW p \in Devices, Invite(d, p)
      PROVE  PairsNeedConsent' /\ Asked' /\ Met'
  BY <1>1 DEF Invite, Gesture, Simple, With, Without, tables, decisions,
    history, TypeOK, Call, PairsNeedConsent, Asked, Met, Both
<1>2. ASSUME NEW d \in Devices, NEW p \in Devices, AcceptInvite(d, p)
      PROVE  PairsNeedConsent' /\ Asked' /\ Met'
  BY <1>2 DEF AcceptInvite, Gesture, Record, Recorded, Blank, Hello, With,
    Without, tables, decisions, history, TypeOK, Call, PairsNeedConsent,
    Asked, Met, Both
<1>3. ASSUME NEW d \in Devices, NEW p \in Devices, DeclineInvite(d, p)
      PROVE  PairsNeedConsent' /\ Asked' /\ Met'
  BY <1>3 DEF DeclineInvite, Gesture, With, Without, tables, decisions,
    history, TypeOK, Call, PairsNeedConsent, Asked, Met, Both
<1>4. ASSUME NEW d \in Devices, NEW p \in Devices, NEW code \in BOOLEAN, Scan(d, p, code)
      PROVE  PairsNeedConsent' /\ Asked' /\ Met'
  <2>1. agreed' = With(With(agreed, d, p), p, d)
    BY <1>4 DEF Scan
  <2>2. Both(d, p)' /\ \A x \in Devices : agreed[x] \subseteq agreed'[x]
    <3> DEFINE f == With(agreed, d, p)
    <3>1. f \in [Devices -> SUBSET Devices] /\ p \in f[d]
          /\ \A x \in Devices : agreed[x] \subseteq f[x]
      BY SetsGrow DEF TypeOK
    <3>2. d \in agreed'[p] /\ \A x \in Devices : f[x] \subseteq agreed'[x]
      BY <2>1, <3>1, SetsGrow
    <3> QED
      BY <3>1, <3>2 DEF Both
  <2>3. PairsNeedConsent'
    BY <1>4, <2>2, PairRecorded DEF Scan, Record
  <2>4. Asked'
    BY <1>4, <2>2, CallTyped DEF Scan, Asked, TypeOK, Hello, decisions
  <2>5. Met'
    <3>1. net' = net \cup {Hello(d, p, entry[d][p].shared, FALSE, code)}
      BY <1>4 DEF Scan
    <3> QED
      BY <2>2, <3>1, CallTyped DEF Met, Both, Hello
  <2> QED
    BY <2>3, <2>4, <2>5
<1>5. ASSUME NEW d \in Devices, NEW p \in Devices, Share(d, p)
      PROVE  PairsNeedConsent' /\ Asked' /\ Met'
  BY <1>5 DEF Share, Gesture, Set, Simple, With, Without, tables,
    decisions, history, TypeOK, Call, PairsNeedConsent, Asked, Met, Both
<1>6. ASSUME NEW d \in Devices, NEW p \in Devices, AcceptOffer(d, p)
      PROVE  PairsNeedConsent' /\ Asked' /\ Met'
  BY <1>6 DEF AcceptOffer, Gesture, Set, With, Without, tables,
    decisions, history, TypeOK, Call, PairsNeedConsent, Asked, Met, Both
<1>7. ASSUME NEW d \in Devices, NEW p \in Devices, DeclineOffer(d, p)
      PROVE  PairsNeedConsent' /\ Asked' /\ Met'
  BY <1>7 DEF DeclineOffer, Gesture, Set, Simple, With, Without,
    tables, decisions, history, TypeOK, Call, PairsNeedConsent, Asked, Met,
    Both
<1>8. ASSUME NEW d \in Devices, NEW p \in Devices, Unshare(d, p)
      PROVE  PairsNeedConsent' /\ Asked' /\ Met'
  BY <1>8 DEF Unshare, Gesture, Set, Simple, With, Without, tables,
    decisions, history, TypeOK, Call, PairsNeedConsent, Asked, Met, Both
<1>9. ASSUME NEW d \in Devices, NEW p \in Devices, Unpair(d, p)
      PROVE  PairsNeedConsent' /\ Asked' /\ Met'
  BY <1>9 DEF Unpair, Gesture, Blank, With, Without, tables,
    decisions, history, TypeOK, Call, PairsNeedConsent, Asked, Met, Both
<1>10. ASSUME NEW d \in Devices, NEW p \in Devices, EntersTomb(d, p)
      PROVE  PairsNeedConsent' /\ Asked' /\ Met'
  BY <1>10 DEF EntersTomb, With, Without, tables, decisions, history, TypeOK,
    Call, PairsNeedConsent, Asked, Met, Both
<1>11. ASSUME NEW d \in Devices, NEW p \in Devices, CloneDone(d, p)
      PROVE  PairsNeedConsent' /\ Asked' /\ Met'
  BY <1>11 DEF CloneDone, Set, Serves, With, Without, tables, decisions,
    history, TypeOK, Call, PairsNeedConsent, Asked, Met, Both
<1>12. ASSUME NEW d \in Devices, NEW p \in Devices, CloneFails(d, p)
      PROVE  PairsNeedConsent' /\ Asked' /\ Met'
  BY <1>12 DEF CloneFails, With, Without, tables, decisions, history, TypeOK,
    Call, PairsNeedConsent, Asked, Met, Both
<1>13. ASSUME NEW d \in Devices, NEW p \in Devices, RetryAffirmed(d, p)
      PROVE  PairsNeedConsent' /\ Asked' /\ Met'
  BY <1>13 DEF RetryAffirmed, With, Without, tables, decisions, history,
    TypeOK, Call, PairsNeedConsent, Asked, Met, Both
<1>14. ASSUME NEW d \in Devices, NEW p \in Devices, Heal(d, p)
      PROVE  PairsNeedConsent' /\ Asked' /\ Met'
  BY <1>14 DEF Heal, Hello, With, Without, tables, decisions, history, TypeOK,
    Call, PairsNeedConsent, Asked, Met, Both
<1>15. ASSUME NEW d \in Devices, NEW p \in Devices, Reoffer(d, p)
      PROVE  PairsNeedConsent' /\ Asked' /\ Met'
  BY <1>15 DEF Reoffer, Simple, With, Without, tables, decisions, history,
    TypeOK, Call, PairsNeedConsent, Asked, Met, Both
<1>16. ASSUME NEW d \in Devices, NEW p \in Devices, Refresh(d, p)
      PROVE  PairsNeedConsent' /\ Asked' /\ Met'
  BY <1>16 DEF Refresh, Hello, With, Without, tables, decisions, history,
    TypeOK, Call, PairsNeedConsent, Asked, Met, Both
<1>17. ASSUME NEW d \in Devices, NEW p \in Devices, Push(d, p)
      PROVE  PairsNeedConsent' /\ Asked' /\ Met'
  BY <1>17 DEF Push, Set, With, Without, tables, decisions, history, TypeOK,
    Call, PairsNeedConsent, Asked, Met, Both
<1>18. ASSUME NEW d \in Devices, ShowCode(d)
      PROVE  PairsNeedConsent' /\ Asked' /\ Met'
  BY <1>18 DEF ShowCode, Gesture, With, Without, tables, decisions, history,
    TypeOK, Call, PairsNeedConsent, Asked, Met, Both
<1>19. ASSUME NEW d \in Devices, HideCode(d)
      PROVE  PairsNeedConsent' /\ Asked' /\ Met'
  BY <1>19 DEF HideCode, With, Without, tables, decisions, history, TypeOK,
    Call, PairsNeedConsent, Asked, Met, Both
<1>20. ASSUME NEW d \in Devices, Obtain(d)
      PROVE  PairsNeedConsent' /\ Asked' /\ Met'
  BY <1>20 DEF Obtain, With, Without, tables, decisions, history, TypeOK,
    Call, PairsNeedConsent, Asked, Met, Both
<1>21. ASSUME NEW m \in net, RequestArrives(m)
      PROVE  PairsNeedConsent' /\ Asked' /\ Met'
  BY <1>21 DEF RequestArrives, With, Without, tables, decisions, history,
    TypeOK, Call, PairsNeedConsent, Asked, Met, Both
<1>22. ASSUME NEW m \in net, HelloArrives(m) PROVE PairsNeedConsent' /\ Asked' /\ Met'
  <2>1. \E c : /\ net' = (net \ {m}) \cup {c}
               /\ \/ c.kind = "refusal"
                  \/ c.kind = "vetted" /\ c.from = m.from /\ c.to = m.to
    <3>1. m \in Call
      BY CallTyped
    <3>2. /\ [m EXCEPT !.kind = "vetted"].kind = "vetted"
          /\ [m EXCEPT !.kind = "vetted"].from = m.from
          /\ [m EXCEPT !.kind = "vetted"].to = m.to
      BY <3>1 DEF Call
    <3>3. [Simple("refusal", m.to, m.from) EXCEPT !.heal = m.heal].kind = "refusal"
      BY DEF Simple
    <3> QED
      BY <1>22, <3>2, <3>3 DEF HelloArrives
  <2>2. UNCHANGED <<peers, invites, agreed>>
    BY <1>22 DEF HelloArrives, tables, decisions, history
  <2>3. m.kind = "hello"
    BY <1>22 DEF HelloArrives
  <2>4. Both(m.from, m.to)
    BY <2>3 DEF Met
  <2> QED
    BY <2>1, <2>2, <2>4 DEF PairsNeedConsent, Asked, Met, Both
<1>23. ASSUME NEW m \in net, HelloRecorded(m) PROVE PairsNeedConsent' /\ Asked' /\ Met'
  <2> DEFINE c == [Simple("answer", m.to, m.from) EXCEPT !.heal = m.heal,
                                                  !.claim = Greeted(m).shared]
  <2>1. net' = (net \ {m}) \cup {c} /\ c.kind = "answer"
    BY <1>23 DEF HelloRecorded, Simple
  <2>2. UNCHANGED <<invites, agreed>>
    BY <1>23 DEF HelloRecorded, decisions, history
  <2>3. Both(m.from, m.to) /\ m.to \in Devices /\ m.from \in Devices
    BY <1>23, CallTyped DEF HelloRecorded, Met
  <2>4. peers' = With(peers, m.to, m.from)
    BY <1>23 DEF HelloRecorded, Record
  <2>5. PairsNeedConsent'
    BY <2>2, <2>3, <2>4, PairRecorded DEF Both
  <2> HIDE DEF c
  <2> QED
    BY <2>1, <2>2, <2>5 DEF Asked, Met, Both
<1>24. ASSUME NEW m \in net, AnswerArrives(m)
      PROVE  PairsNeedConsent' /\ Asked' /\ Met'
  BY <1>24 DEF AnswerArrives, Set, With, Without, tables, decisions, history,
    TypeOK, Call, PairsNeedConsent, Asked, Met, Both
<1>25. ASSUME NEW m \in net, OfferDropped(m)
      PROVE  PairsNeedConsent' /\ Asked' /\ Met'
  BY <1>25 DEF OfferDropped, Simple, With, Without, tables, decisions,
    history, TypeOK, Call, PairsNeedConsent, Asked, Met, Both
<1>26. ASSUME NEW m \in net, OfferArrives(m)
      PROVE  PairsNeedConsent' /\ Asked' /\ Met'
  BY <1>26 DEF OfferArrives, Set, With, Without, tables, decisions, history,
    TypeOK, Call, PairsNeedConsent, Asked, Met, Both
<1>27. ASSUME NEW m \in net, ShareTakenBack(m)
      PROVE  PairsNeedConsent' /\ Asked' /\ Met'
  BY <1>27 DEF ShareTakenBack, Set, With, Without, tables, decisions, history,
    TypeOK, Call, PairsNeedConsent, Asked, Met, Both
<1>28. ASSUME NEW m \in net, Lost(m)
      PROVE  PairsNeedConsent' /\ Asked' /\ Met'
  BY <1>28 DEF Lost, With, Without, tables, decisions, history, TypeOK, Call,
    PairsNeedConsent, Asked, Met, Both
<1>30. ASSUME NEW d \in Devices, NEW p \in Devices, TombFails(d, p)
      PROVE  PairsNeedConsent' /\ Asked' /\ Met'
  BY <1>30 DEF TombFails, Without, tables, decisions, history, TypeOK,
    Call, PairsNeedConsent, Asked, Met, Both
<1>31. ASSUME NEW d \in Devices, Restart(d)
      PROVE  PairsNeedConsent' /\ Asked' /\ Met'
  BY <1>31 DEF Restart, tables, decisions, history, TypeOK, Call,
    PairsNeedConsent, Asked, Met, Both
<1>29. CASE UNCHANGED vars
  BY <1>29 DEF vars, tables, decisions, history, PairsNeedConsent, Asked, Met, Both
<1> QED
  BY <1>1, <1>2, <1>3, <1>4, <1>5, <1>6, <1>7, <1>8, <1>9, <1>10,
  <1>11, <1>12, <1>13, <1>14, <1>15, <1>16, <1>17, <1>18, <1>19, <1>20, <1>21,
  <1>22, <1>23, <1>24, <1>25, <1>26, <1>27, <1>28, <1>29, <1>30, <1>31 DEF Next, Well,
  UserDoes, DaemonDoes, Arrives

-----------------------------------------------------------------------------
(* No grant without a choice.                                              *)

(* What a device has, and what a user has chosen, only grows.              *)
Grown ==
    /\ holds \subseteq holds'
    /\ chosen' \in [Devices -> SUBSET Devices]
    /\ \A x \in Devices : chosen[x] \subseteq chosen'[x]

(* No step takes a choice or the project away.                             *)
LEMMA Grows ==
    ASSUME TypeOK, [Next]_vars PROVE Grown
<1>1. /\ holds \subseteq holds'
      /\ \/ chosen' = chosen
         \/ \E d, p \in Devices : chosen' = With(chosen, d, p)
  <2>1. ASSUME NEW d \in Devices, NEW p \in Devices, UserDoes(d, p)
        PROVE  /\ holds' = holds
               /\ \/ chosen' = chosen
                  \/ chosen' = With(chosen, d, p)
    BY <2>1 DEF UserDoes, Invite, AcceptInvite, DeclineInvite, Scan, Share, AcceptOffer,
      DeclineOffer, Unshare, Unpair
  <2>2. ASSUME NEW d \in Devices, NEW p \in Devices, DaemonDoes(d, p)
        PROVE  holds \subseteq holds' /\ chosen' = chosen
    BY <2>2 DEF DaemonDoes, EntersTomb, TombFails, CloneDone, CloneFails, RetryAffirmed, Heal,
      Reoffer, Refresh, Push, history
  <2>3. ASSUME NEW d \in Devices, ShowCode(d) \/ HideCode(d) \/ Obtain(d) \/ Restart(d)
        PROVE  holds \subseteq holds' /\ chosen' = chosen
    BY <2>3 DEF ShowCode, HideCode, Obtain, Restart, history
  <2>4. ASSUME NEW m \in net, Arrives(m) \/ Lost(m)
        PROVE  holds' = holds /\ chosen' = chosen
    BY <2>4 DEF Arrives, RequestArrives, HelloArrives, HelloRecorded, AnswerArrives,
      OfferDropped, OfferArrives, ShareTakenBack, Lost, history
  <2> QED
    BY <2>1, <2>2, <2>3, <2>4 DEF Next, Well, vars, history
<1>2. CASE chosen' = chosen
  BY <1>1, <1>2 DEF Grown, TypeOK
<1>3. ASSUME NEW d \in Devices, NEW p \in Devices, chosen' = With(chosen, d, p)
      PROVE  Grown
  BY <1>1, <1>3, SetsGrow DEF Grown, TypeOK
<1> QED
  BY <1>1, <1>2, <1>3

(* A step that changes one entry, or sends one call, has to see to it only. *)
LEMMA EntryShared ==
    ASSUME TypeOK, SharesNeedAChoice, Grown, NEW d \in Devices, NEW p \in Devices, NEW e,
           \/ entry' = entry
           \/ entry' = [entry EXCEPT ![d][p] = e],
           e.shared => d \in holds' /\ One(d, p)'
    PROVE  SharesNeedAChoice'
<1>1. \A x, y \in Devices : entry[x][y].shared => x \in holds' /\ One(x, y)'
  BY DEF SharesNeedAChoice, One, Grown
<1>2. CASE entry' = entry
  BY <1>1, <1>2 DEF SharesNeedAChoice, One
<1>3. CASE entry' = [entry EXCEPT ![d][p] = e]
  <2>1. \A x, y \in Devices : entry'[x][y] = IF x = d /\ y = p THEN e ELSE entry[x][y]
    BY <1>3 DEF TypeOK
  <2> QED
    BY <1>1, <2>1 DEF SharesNeedAChoice, One
<1> QED
  BY <1>2, <1>3

LEMMA CallClaimed ==
    ASSUME TypeOK, Claimed, Grown, NEW c, net' \subseteq net \cup {c},
           c.claim \/ c.code => One(c.from, c.to)'
    PROVE  Claimed'
<1>1. \A m \in net : m.claim \/ m.code => One(m.from, m.to)'
  BY CallTyped DEF Claimed, One, Grown
<1> QED
  BY <1>1 DEF Claimed, One

(* The handler of a hello grants what the code or the caller's list covers. *)
LEMMA GreetedShared ==
    ASSUME TypeOK, SharesNeedAChoice, Claimed, NEW m \in net, Greeted(m).shared
    PROVE  m.to \in holds /\ One(m.to, m.from)
<1> DEFINE d == m.to
           r == Recorded(entry[d][m.from])
           e == [r EXCEPT !.confirmed = TRUE, !.shared = @ \/ (m.code /\ d \in showing)]
           t == Told(e, m.claim)
<1>1. d \in Devices /\ m.from \in Devices
  BY CallTyped
<1>2. r.shared = entry[d][m.from].shared /\ "shared" \in DOMAIN r
      /\ "theirs" \in DOMAIN r
  BY DEF Recorded, Blank
<1>3. e.shared = (r.shared \/ (m.code /\ d \in showing)) /\ DOMAIN e = DOMAIN r
  BY <1>2 DEF Recorded, Blank
<1>4. t.shared = e.shared /\ DOMAIN t = DOMAIN e
  BY <1>2, <1>3 DEF Told, Recorded, Blank
<1>5. Greeted(m).shared = (t.shared \/ (m.claim /\ d \in holds))
  BY <1>2, <1>3, <1>4 DEF Greeted, Reciprocated
<1>6. entry[d][m.from].shared \/ (m.code /\ d \in holds) \/ (m.claim /\ d \in holds)
  BY <1>2, <1>3, <1>4, <1>5 DEF TypeOK
<1> QED
  BY <1>1, <1>6 DEF SharesNeedAChoice, Claimed, One

(* Every action keeps the grants, the clones and the claims justified.     *)
LEMMA ChoiceStep ==
    ASSUME TypeOK, [Next]_vars, SharesNeedAChoice, Wanted, Claimed
    PROVE  SharesNeedAChoice' /\ Wanted' /\ Claimed'
<1> USE Grows
<1>1. ASSUME NEW d \in Devices, NEW p \in Devices, Invite(d, p)
      PROVE  SharesNeedAChoice' /\ Wanted' /\ Claimed'
  <2>1. SharesNeedAChoice'
    BY <1>1 DEF Invite, tables, SharesNeedAChoice
  <2>2. Claimed'
    <3> DEFINE c == Simple("request", d, p)
    <3>1. net' = net \cup {c}
      BY <1>1 DEF Invite
    <3>3. c.claim \/ c.code => One(c.from, c.to)'
      BY DEF Simple
    <3> HIDE DEF c
    <3> QED
      BY <3>1, <3>3, CallClaimed
  <2>4. Wanted'
    BY <1>1, SetsGrow DEF Invite, Wanted, With, Without,
      TypeOK, decisions, history, Grown
  <2> QED
    BY <2>1, <2>2, <2>4
<1>2. ASSUME NEW d \in Devices, NEW p \in Devices, AcceptInvite(d, p)
      PROVE  SharesNeedAChoice' /\ Wanted' /\ Claimed'
  <2> DEFINE e == Recorded(entry[d][p])
  <2>1. SharesNeedAChoice'
    <3>1. e.shared = entry[d][p].shared
      BY EntryTyped DEF Entry, Recorded, Blank
    <3>2. e.shared => d \in holds' /\ One(d, p)'
      BY <3>1 DEF SharesNeedAChoice, One, Grown
    <3>3. entry' = entry \/ entry' = [entry EXCEPT ![d][p] = e]
      BY <1>2 DEF AcceptInvite, Record
    <3> QED
      BY <3>2, <3>3, EntryShared
  <2>2. Claimed'
    <3>0. PICK c : c = Hello(d, p, entry[d][p].shared, TRUE, FALSE)
      OBVIOUS
    <3>1. net' = net \cup {c}
      BY <3>0, <1>2 DEF AcceptInvite
    <3>2. c.from = d /\ c.to = p /\ (c.claim => entry[d][p].shared) /\ (c.code => FALSE)
      BY <3>0 DEF Hello
    <3>3. c.claim \/ c.code => One(c.from, c.to)'
      BY <3>2 DEF SharesNeedAChoice, One, Grown
    <3> QED
      BY <3>1, <3>3, CallClaimed
  <2>4. Wanted'
    BY <1>2, SetsGrow DEF AcceptInvite, Wanted, With,
      Without, TypeOK, decisions, history, Grown
  <2> QED
    BY <2>1, <2>2, <2>4
<1>3. ASSUME NEW d \in Devices, NEW p \in Devices, DeclineInvite(d, p)
      PROVE  SharesNeedAChoice' /\ Wanted' /\ Claimed'
  BY <1>3 DEF DeclineInvite, Gesture, With, Without, tables, decisions,
    history, TypeOK, Call, Entry, SharesNeedAChoice, Wanted, Claimed, One
<1>4. ASSUME NEW d \in Devices, NEW p \in Devices, NEW code \in BOOLEAN, Scan(d, p, code)
      PROVE  SharesNeedAChoice' /\ Wanted' /\ Claimed'
  <2> DEFINE e == Recorded(entry[d][p])
  <2>1. SharesNeedAChoice'
    <3>1. e.shared = entry[d][p].shared
      BY EntryTyped DEF Entry, Recorded, Blank
    <3>2. e.shared => d \in holds' /\ One(d, p)'
      BY <3>1 DEF SharesNeedAChoice, One, Grown
    <3>3. entry' = entry \/ entry' = [entry EXCEPT ![d][p] = e]
      BY <1>4 DEF Scan, Record
    <3> QED
      BY <3>2, <3>3, EntryShared
  <2>3. code => p \in chosen'[d]
    BY <1>4, SetsGrow DEF Scan, TypeOK
  <2>2. Claimed'
    <3>0. PICK c : c = Hello(d, p, entry[d][p].shared, FALSE, code)
      OBVIOUS
    <3>1. net' = net \cup {c}
      BY <3>0, <1>4 DEF Scan
    <3>2. /\ c.from = d
          /\ c.to = p
          /\ (c.claim => entry[d][p].shared)
          /\ (c.code => code)
      BY <2>3, <3>0 DEF Hello
    <3>3. c.claim \/ c.code => One(c.from, c.to)'
      BY <2>3, <3>2 DEF SharesNeedAChoice, One, Grown
    <3> QED
      BY <3>1, <3>3, CallClaimed
  <2>4. Wanted'
    BY <1>4, SetsGrow DEF Scan, Wanted, With, Without,
      TypeOK, decisions, history, Grown
  <2> QED
    BY <2>1, <2>2, <2>4
<1>5. ASSUME NEW d \in Devices, NEW p \in Devices, Share(d, p)
      PROVE  SharesNeedAChoice' /\ Wanted' /\ Claimed'
  <2> DEFINE e == [entry[d][p] EXCEPT !.shared = TRUE, !.declined = FALSE]
  <2>1. SharesNeedAChoice'
    <3>1. e.shared = TRUE
      BY EntryTyped DEF Entry, Recorded, Blank
    <3>2. e.shared => d \in holds' /\ One(d, p)'
      BY <1>5, SetsGrow DEF Share, One, TypeOK
    <3>3. entry' = entry \/ entry' = [entry EXCEPT ![d][p] = e]
      BY <1>5 DEF Share, Set
    <3> QED
      BY <3>2, <3>3, EntryShared
  <2>2. Claimed'
    <3> DEFINE c == Simple("offer", d, p)
    <3>1. net' = net \cup {c}
      BY <1>5 DEF Share
    <3>3. c.claim \/ c.code => One(c.from, c.to)'
      BY DEF Simple
    <3> HIDE DEF c
    <3> QED
      BY <3>1, <3>3, CallClaimed
  <2>4. Wanted'
    BY <1>5, SetsGrow DEF Share, Wanted, With, Without,
      TypeOK, decisions, history, Grown
  <2> QED
    BY <2>1, <2>2, <2>4
<1>6. ASSUME NEW d \in Devices, NEW p \in Devices, AcceptOffer(d, p)
      PROVE  SharesNeedAChoice' /\ Wanted' /\ Claimed'
  <2> DEFINE e == [entry[d][p] EXCEPT !.declined = FALSE]
  <2>1. SharesNeedAChoice'
    <3>1. e.shared = entry[d][p].shared
      BY EntryTyped DEF Entry, Recorded, Blank
    <3>2. e.shared => d \in holds' /\ One(d, p)'
      BY <3>1 DEF SharesNeedAChoice, One, Grown
    <3>3. entry' = entry \/ entry' = [entry EXCEPT ![d][p] = e]
      BY <1>6 DEF AcceptOffer, Set
    <3> QED
      BY <3>2, <3>3, EntryShared
  <2>2. Claimed'
    BY <1>6, CallTyped DEF AcceptOffer, Claimed, One, Grown
  <2>4. Wanted'
    BY <1>6, SetsGrow DEF AcceptOffer, Wanted, With,
      Without, TypeOK, decisions, history, Grown
  <2> QED
    BY <2>1, <2>2, <2>4
<1>7. ASSUME NEW d \in Devices, NEW p \in Devices, DeclineOffer(d, p)
      PROVE  SharesNeedAChoice' /\ Wanted' /\ Claimed'
  <2> DEFINE e == [entry[d][p] EXCEPT !.declined = TRUE]
  <2>1. SharesNeedAChoice'
    <3>1. e.shared = entry[d][p].shared
      BY EntryTyped DEF Entry, Recorded, Blank
    <3>2. e.shared => d \in holds' /\ One(d, p)'
      BY <3>1 DEF SharesNeedAChoice, One, Grown
    <3>3. entry' = entry \/ entry' = [entry EXCEPT ![d][p] = e]
      BY <1>7 DEF DeclineOffer, Set
    <3> QED
      BY <3>2, <3>3, EntryShared
  <2>2. Claimed'
    <3> DEFINE c == Simple("nack", d, p)
    <3>1. net' = net \cup {c}
      BY <1>7 DEF DeclineOffer
    <3>3. c.claim \/ c.code => One(c.from, c.to)'
      BY DEF Simple
    <3> HIDE DEF c
    <3> QED
      BY <3>1, <3>3, CallClaimed
  <2>4. Wanted'
    BY <1>7, SetsGrow DEF DeclineOffer, Wanted, With,
      Without, TypeOK, decisions, history, Grown
  <2> QED
    BY <2>1, <2>2, <2>4
<1>8. ASSUME NEW d \in Devices, NEW p \in Devices, Unshare(d, p)
      PROVE  SharesNeedAChoice' /\ Wanted' /\ Claimed'
  <2> DEFINE e == [entry[d][p] EXCEPT !.shared = FALSE]
  <2>1. SharesNeedAChoice'
    <3>1. e.shared = FALSE
      BY EntryTyped DEF Entry, Recorded, Blank
    <3>2. e.shared => d \in holds' /\ One(d, p)'
      BY <3>1
    <3>3. entry' = entry \/ entry' = [entry EXCEPT ![d][p] = e]
      BY <1>8 DEF Unshare, Set
    <3> QED
      BY <3>2, <3>3, EntryShared
  <2>2. Claimed'
    <3> DEFINE c == Simple("unshare", d, p)
    <3>1. net' = net \cup {c}
      BY <1>8 DEF Unshare
    <3>3. c.claim \/ c.code => One(c.from, c.to)'
      BY DEF Simple
    <3> HIDE DEF c
    <3> QED
      BY <3>1, <3>3, CallClaimed
  <2>4. Wanted'
    BY <1>8, SetsGrow DEF Unshare, Wanted, With, Without,
      TypeOK, decisions, history, Grown
  <2> QED
    BY <2>1, <2>2, <2>4
<1>9. ASSUME NEW d \in Devices, NEW p \in Devices, Unpair(d, p)
      PROVE  SharesNeedAChoice' /\ Wanted' /\ Claimed'
  BY <1>9 DEF Unpair, Gesture, Blank, With, Without, tables,
    decisions, history, TypeOK, Call, Entry, SharesNeedAChoice, Wanted,
    Claimed, One
<1>10. ASSUME NEW d \in Devices, NEW p \in Devices, EntersTomb(d, p)
      PROVE  SharesNeedAChoice' /\ Wanted' /\ Claimed'
  BY <1>10 DEF EntersTomb, With, Without, tables, decisions, history, TypeOK,
    Call, Entry, SharesNeedAChoice, Wanted, Claimed, One
<1>11. ASSUME NEW d \in Devices, NEW p \in Devices, CloneDone(d, p)
      PROVE  SharesNeedAChoice' /\ Wanted' /\ Claimed'
  BY <1>11 DEF CloneDone, Set, Serves, With, Without, tables, decisions,
    history, TypeOK, Call, Entry, SharesNeedAChoice, Wanted, Claimed, One
<1>12. ASSUME NEW d \in Devices, NEW p \in Devices, CloneFails(d, p)
      PROVE  SharesNeedAChoice' /\ Wanted' /\ Claimed'
  BY <1>12 DEF CloneFails, With, Without, tables, decisions, history, TypeOK,
    Call, Entry, SharesNeedAChoice, Wanted, Claimed, One
<1>13. ASSUME NEW d \in Devices, NEW p \in Devices, RetryAffirmed(d, p)
      PROVE  SharesNeedAChoice' /\ Wanted' /\ Claimed'
  BY <1>13 DEF RetryAffirmed, With, Without, tables, decisions, history,
    TypeOK, Call, Entry, SharesNeedAChoice, Wanted, Claimed, One
<1>14. ASSUME NEW d \in Devices, NEW p \in Devices, Heal(d, p)
      PROVE  SharesNeedAChoice' /\ Wanted' /\ Claimed'
  BY <1>14 DEF Heal, Hello, With, Without, tables, decisions, history, TypeOK,
    Call, Entry, SharesNeedAChoice, Wanted, Claimed, One
<1>15. ASSUME NEW d \in Devices, NEW p \in Devices, Reoffer(d, p)
      PROVE  SharesNeedAChoice' /\ Wanted' /\ Claimed'
  BY <1>15 DEF Reoffer, Simple, With, Without, tables, decisions, history,
    TypeOK, Call, Entry, SharesNeedAChoice, Wanted, Claimed, One
<1>16. ASSUME NEW d \in Devices, NEW p \in Devices, Refresh(d, p)
      PROVE  SharesNeedAChoice' /\ Wanted' /\ Claimed'
  BY <1>16 DEF Refresh, Hello, With, Without, tables, decisions, history,
    TypeOK, Call, Entry, SharesNeedAChoice, Wanted, Claimed, One
<1>17. ASSUME NEW d \in Devices, NEW p \in Devices, Push(d, p)
      PROVE  SharesNeedAChoice' /\ Wanted' /\ Claimed'
  BY <1>17 DEF Push, Set, With, Without, tables, decisions, history, TypeOK,
    Call, Entry, SharesNeedAChoice, Wanted, Claimed, One
<1>18. ASSUME NEW d \in Devices, ShowCode(d)
      PROVE  SharesNeedAChoice' /\ Wanted' /\ Claimed'
  BY <1>18 DEF ShowCode, Gesture, With, Without, tables, decisions, history,
    TypeOK, Call, Entry, SharesNeedAChoice, Wanted, Claimed, One
<1>19. ASSUME NEW d \in Devices, HideCode(d)
      PROVE  SharesNeedAChoice' /\ Wanted' /\ Claimed'
  BY <1>19 DEF HideCode, With, Without, tables, decisions, history, TypeOK,
    Call, Entry, SharesNeedAChoice, Wanted, Claimed, One
<1>20. ASSUME NEW d \in Devices, Obtain(d)
      PROVE  SharesNeedAChoice' /\ Wanted' /\ Claimed'
  BY <1>20 DEF Obtain, With, Without, tables, decisions, history, TypeOK,
    Call, Entry, SharesNeedAChoice, Wanted, Claimed, One
<1>21. ASSUME NEW m \in net, RequestArrives(m)
      PROVE  SharesNeedAChoice' /\ Wanted' /\ Claimed'
  BY <1>21 DEF RequestArrives, With, Without, tables, decisions, history,
    TypeOK, Call, Entry, SharesNeedAChoice, Wanted, Claimed, One
<1>22. ASSUME NEW m \in net, HelloArrives(m)
      PROVE  SharesNeedAChoice' /\ Wanted' /\ Claimed'
  <2>0. m.to \in Devices /\ m.from \in Devices
    BY CallTyped
  <2>1. SharesNeedAChoice' /\ Wanted'
    BY <1>22 DEF HelloArrives, tables, decisions, history, SharesNeedAChoice, Wanted
  <2>2. \E c : /\ net' \subseteq net \cup {c}
               /\ c.claim \/ c.code => m.claim \/ m.code
               /\ c.claim \/ c.code => c.from = m.from /\ c.to = m.to
    <3>1. m \in Call
      BY CallTyped
    <3> DEFINE v == [m EXCEPT !.kind = "vetted"]
               r == [Simple("refusal", m.to, m.from) EXCEPT !.heal = m.heal]
    <3>2. v.from = m.from /\ v.to = m.to /\ v.claim = m.claim /\ v.code = m.code
      BY <3>1 DEF Call
    <3>3. ~r.claim /\ ~r.code
      BY DEF Simple
    <3>4. net' = (net \ {m}) \cup {r} \/ net' = (net \ {m}) \cup {v}
      BY <1>22 DEF HelloArrives
    <3> HIDE DEF v, r
    <3> QED
      BY <3>2, <3>3, <3>4
  <2>3. m.claim \/ m.code => One(m.from, m.to)'
    BY <2>0 DEF Claimed, One, Grown
  <2>4. Claimed'
    BY <2>2, <2>3, CallClaimed
  <2> QED
    BY <2>1, <2>4
<1>23. ASSUME NEW m \in net, HelloRecorded(m)
      PROVE  SharesNeedAChoice' /\ Wanted' /\ Claimed'
  <2>0. m.to \in Devices /\ m.from \in Devices
    BY CallTyped
  <2>1. Greeted(m).shared => m.to \in holds' /\ One(m.to, m.from)'
    BY <2>0, GreetedShared DEF One, Grown
  <2>2. SharesNeedAChoice'
    BY <1>23, <2>0, <2>1, EntryShared DEF HelloRecorded, Record
  <2>3. Wanted'
    BY <1>23 DEF HelloRecorded, decisions, history, Wanted
  <2>4. Claimed'
    <3> DEFINE c == [Simple("answer", m.to, m.from) EXCEPT !.heal = m.heal,
                                                   !.claim = Greeted(m).shared]
    <3>1. net' = (net \ {m}) \cup {c}
      BY <1>23 DEF HelloRecorded
    <3>2. c.from = m.to /\ c.to = m.from /\ c.claim = Greeted(m).shared /\ ~c.code
      BY DEF Simple
    <3> HIDE DEF c
    <3> QED
      BY <2>1, <3>1, <3>2, CallClaimed
  <2> QED
    BY <2>2, <2>3, <2>4
<1>24. ASSUME NEW m \in net, AnswerArrives(m)
      PROVE  SharesNeedAChoice' /\ Wanted' /\ Claimed'
  <2>0. m.to \in Devices /\ m.from \in Devices
    BY CallTyped
  <2> DEFINE e == [entry[m.to][m.from] EXCEPT !.confirmed = @ \/ m.heal]
             g == Reciprocated(m.to, Told(e, m.claim), m.claim)
  <2>1. e.shared = entry[m.to][m.from].shared /\ e \in Entry
    BY <2>0, EntryTyped, CallTyped DEF Entry, Call
  <2>2. g.shared = (e.shared \/ (m.claim /\ m.to \in holds))
    <3>1. Told(e, m.claim) \in Entry /\ Told(e, m.claim).shared = e.shared
      BY <2>1, ToldIsEntry DEF Told, Entry
    <3> QED
      BY <3>1 DEF Reciprocated, Entry
  <2>3. (e.shared => m.to \in holds' /\ One(m.to, m.from)')
        /\ (g.shared => m.to \in holds' /\ One(m.to, m.from)')
    BY <2>0, <2>1, <2>2 DEF SharesNeedAChoice, Claimed, One, Grown
  <2>4. \/ entry' = entry
        \/ entry' = [entry EXCEPT ![m.to][m.from] = e]
        \/ entry' = [entry EXCEPT ![m.to][m.from] = g]
    BY <1>24 DEF AnswerArrives, Set
  <2> HIDE DEF e, g
  <2>5. SharesNeedAChoice'
    BY <2>0, <2>3, <2>4, EntryShared
  <2>6. Wanted'
    BY <1>24 DEF AnswerArrives, decisions, history, Wanted
  <2>7. Claimed'
    BY <1>24, CallTyped DEF AnswerArrives, Claimed, One, Grown
  <2> QED
    BY <2>5, <2>6, <2>7
<1>25. ASSUME NEW m \in net, OfferDropped(m)
      PROVE  SharesNeedAChoice' /\ Wanted' /\ Claimed'
  BY <1>25 DEF OfferDropped, Simple, With, Without, tables, decisions,
    history, TypeOK, Call, Entry, SharesNeedAChoice, Wanted, Claimed, One
<1>26. ASSUME NEW m \in net, OfferArrives(m)
      PROVE  SharesNeedAChoice' /\ Wanted' /\ Claimed'
  <2>0. m.to \in Devices /\ m.from \in Devices
    BY CallTyped
  <2> DEFINE e == [entry[m.to][m.from] EXCEPT !.proven = TRUE, !.theirs = "yes"]
  <2>1. e.shared => m.to \in holds' /\ One(m.to, m.from)'
    <3>1. e.shared = entry[m.to][m.from].shared
      BY <2>0, EntryTyped DEF Entry
    <3> QED
      BY <2>0, <3>1 DEF SharesNeedAChoice, One, Grown
  <2>2. SharesNeedAChoice'
    BY <1>26, <2>0, <2>1, EntryShared DEF OfferArrives, Set
  <2>3. Wanted'
    BY <1>26, <2>0 DEF OfferArrives, Wanted, Without, history, TypeOK
  <2>4. Claimed'
    BY <1>26, CallTyped DEF OfferArrives, Claimed, One, Grown
  <2> QED
    BY <2>2, <2>3, <2>4
<1>27. ASSUME NEW m \in net, ShareTakenBack(m)
      PROVE  SharesNeedAChoice' /\ Wanted' /\ Claimed'
  BY <1>27 DEF ShareTakenBack, Set, With, Without, tables, decisions, history,
    TypeOK, Call, Entry, SharesNeedAChoice, Wanted, Claimed, One
<1>28. ASSUME NEW m \in net, Lost(m)
      PROVE  SharesNeedAChoice' /\ Wanted' /\ Claimed'
  BY <1>28 DEF Lost, With, Without, tables, decisions, history, TypeOK, Call,
    Entry, SharesNeedAChoice, Wanted, Claimed, One
<1>30. ASSUME NEW d \in Devices, NEW p \in Devices, TombFails(d, p)
      PROVE  SharesNeedAChoice' /\ Wanted' /\ Claimed'
  BY <1>30 DEF TombFails, Without, tables, decisions, history, TypeOK,
    Call, Entry, SharesNeedAChoice, Wanted, Claimed, One
<1>31. ASSUME NEW d \in Devices, Restart(d)
      PROVE  SharesNeedAChoice' /\ Wanted' /\ Claimed'
  BY <1>31 DEF Restart, tables, decisions, history, TypeOK, Call, Entry,
    SharesNeedAChoice, Wanted, Claimed, One
<1>29. CASE UNCHANGED vars
  BY <1>29 DEF vars, tables, decisions, history, SharesNeedAChoice, Wanted,
    Claimed, One
<1> QED
  BY <1>1, <1>2, <1>3, <1>4, <1>5, <1>6, <1>7, <1>8, <1>9, <1>10,
  <1>11, <1>12, <1>13, <1>14, <1>15, <1>16, <1>17, <1>18, <1>19, <1>20, <1>21,
  <1>22, <1>23, <1>24, <1>25, <1>26, <1>27, <1>28, <1>29, <1>30, <1>31 DEF Next, Well,
  UserDoes, DaemonDoes, Arrives

-----------------------------------------------------------------------------
(* The invariant holds in every state: each action keeps every part.       *)
THEOREM Invariance == Spec => []IInv
<1>1. Init => IInv
  <2> SUFFICES ASSUME Init PROVE IInv
    OBVIOUS
  <2>1. PICK old \in SUBSET Devices :
          /\ peers = [d \in Devices |-> Old(old, d)]
          /\ entry = [d \in Devices |-> [p \in Devices |->
                        IF p \in Old(old, d) THEN Settled ELSE Blank]]
          /\ holds = Holders \cup old
          /\ agreed = [d \in Devices |-> Old(old, d)]
          /\ chosen = [d \in Devices |-> Old(old, d)]
    BY DEF Init
  <2>2. \A d \in Devices : Old(old, d) \in SUBSET Devices
    BY DEF Old
  <2>3. \A d, p \in Devices : p \in Old(old, d) => d \in old /\ d \in Old(old, p)
    BY DEF Old
  <2>4. TypeOK
    BY <2>1, <2>2, SharingAssumption, BlankIsEntry, SettledIsEntry DEF Init, TypeOK
  <2>5. PairsNeedConsent
    BY <2>1, <2>2, <2>3 DEF PairsNeedConsent
  <2>6. SharesNeedAChoice
    BY <2>1, <2>3 DEF SharesNeedAChoice, Blank
  <2>7. Asked /\ Met /\ Wanted /\ Claimed
    BY DEF Init, Asked, Met, Wanted, Claimed
  <2> QED
    BY <2>4, <2>5, <2>6, <2>7 DEF IInv
<1>2. IInv /\ [Next]_vars => IInv'
  <2> SUFFICES ASSUME IInv, [Next]_vars PROVE IInv'
    OBVIOUS
  <2>1. TypeOK'
    BY TypeStep DEF IInv
  <2>2. PairsNeedConsent' /\ Asked' /\ Met'
    BY ConsentStep DEF IInv
  <2>3. SharesNeedAChoice' /\ Wanted' /\ Claimed'
    BY ChoiceStep DEF IInv
  <2> QED
    BY <2>1, <2>2, <2>3 DEF IInv
<1> QED
  BY <1>1, <1>2, PTL DEF Spec

(* The tables and the calls have their types; nothing is kept of a device  *)
(* that is not a peer.                                                     *)
THEOREM TypeCorrect == Spec => []TypeOK
<1>1. IInv => TypeOK
  BY DEF IInv
<1> QED
  BY <1>1, Invariance, PTL

(* Both users have agreed to every pairing that a device records.          *)
THEOREM PairsNeedConsentHolds == Spec => []PairsNeedConsent
<1>1. IInv => PairsNeedConsent
  BY DEF IInv
<1> QED
  BY <1>1, Invariance, PTL

(* A device grants a project only if it has it and one of the two users    *)
(* has chosen to share it with the other.                                  *)
THEOREM SharesNeedAChoiceHolds == Spec => []SharesNeedAChoice
<1>1. IInv => SharesNeedAChoice
  BY DEF IInv
<1> QED
  BY <1>1, Invariance, PTL

-----------------------------------------------------------------------------
(* Once the tombstone is set and no hello of the peer has passed the look  *)
(* for it, only a user of this device lets the peer in again.              *)

(* A gesture is counted.                                                   *)
LEMMA GestureCounts ==
    ASSUME TypeOK, Gesture PROVE gestures' # gestures
  BY SharingAssumption DEF TypeOK, Gesture

(* Nothing new passes the look for a tombstone of this pair.               *)
LEMMA StaysQuiet ==
    ASSUME NEW d, NEW p, Quiet(p, d, {"vetted"}), NEW c, net' \subseteq net \cup {c},
           c.from = p /\ c.to = d => c.kind # "vetted"
    PROVE  Quiet(p, d, {"vetted"})'
  BY DEF Quiet

LEMMA RevokedStep ==
    ASSUME TypeOK, Next, gestures' = gestures,
           NEW d \in Devices, NEW p \in Devices, p \in tombs[d], Out(d, p)
    PROVE  (p \in tombs[d] /\ Out(d, p))'
<1>1. p \in tombs[d] /\ p \notin peers[d] /\ Quiet(p, d, {"vetted"})
  BY DEF Out
<1>2. ASSUME UNCHANGED <<peers, tombs>>, NEW c, net' \subseteq net \cup {c},
             c.from = p /\ c.to = d => c.kind # "vetted"
      PROVE  (p \in tombs[d] /\ Out(d, p))'
  BY <1>1, <1>2, StaysQuiet DEF Out
<1>3. ASSUME UNCHANGED <<peers, tombs>>, net' \subseteq net
      PROVE  (p \in tombs[d] /\ Out(d, p))'
  BY <1>1, <1>3 DEF Out, Quiet
<1>4. ~Gesture
  BY GestureCounts
<1>5. ASSUME NEW x \in Devices, NEW y \in Devices, UserDoes(x, y) PROVE FALSE
  BY <1>4, <1>5 DEF UserDoes, Invite, AcceptInvite, DeclineInvite, Scan, Share,
     AcceptOffer, DeclineOffer, Unshare, Unpair
<1>6. ASSUME NEW x \in Devices, NEW y \in Devices, DaemonDoes(x, y)
      PROVE  (p \in tombs[d] /\ Out(d, p))'
  <2>1. CASE EntersTomb(x, y)
    <3>1. p \in tombs'[d]
      BY <1>1, <2>1 DEF EntersTomb, With, TypeOK
    <3>2. UNCHANGED <<peers, net>>
      BY <2>1 DEF EntersTomb
    <3> QED
      BY <1>1, <3>1, <3>2 DEF Out, Quiet
  <2>2. CASE \/ TombFails(x, y) \/ CloneDone(x, y) \/ CloneFails(x, y)
            \/ RetryAffirmed(x, y) \/ Push(x, y)
    BY <1>3, <2>2 DEF TombFails, CloneDone, CloneFails, RetryAffirmed, Push, tables
  <2>3. CASE Heal(x, y)
    BY <1>2, <2>3 DEF Heal, Hello, tables
  <2>4. CASE Refresh(x, y)
    BY <1>2, <2>4 DEF Refresh, Hello, tables
  <2>5. CASE Reoffer(x, y)
    BY <1>2, <2>5 DEF Reoffer, Simple, tables
  <2> QED
    BY <1>6, <2>1, <2>2, <2>3, <2>4, <2>5 DEF DaemonDoes
<1>7. ASSUME NEW x \in Devices, ShowCode(x) \/ HideCode(x) \/ Obtain(x) \/ Restart(x)
      PROVE  (p \in tombs[d] /\ Out(d, p))'
  BY <1>3, <1>4, <1>7 DEF ShowCode, HideCode, Obtain, Restart, tables
<1>8. ASSUME NEW m \in net, Arrives(m) PROVE (p \in tombs[d] /\ Out(d, p))'
  <2>1. CASE RequestArrives(m) \/ AnswerArrives(m) \/ OfferArrives(m) \/ ShareTakenBack(m)
    BY <1>3, <2>1 DEF RequestArrives, AnswerArrives, OfferArrives, ShareTakenBack, tables
  <2>2. CASE OfferDropped(m)
    BY <1>2, <2>2 DEF OfferDropped, Simple, tables
  <2>3. CASE HelloArrives(m)
    <3>1. m \in Call /\ UNCHANGED <<peers, tombs>>
      BY <2>3, CallTyped DEF HelloArrives, tables
    <3>2. CASE Revoked(m.to, m.from)
      <4> DEFINE c == [Simple("refusal", m.to, m.from) EXCEPT !.heal = m.heal]
      <4>1. net' \subseteq net \cup {c} /\ c.kind # "vetted"
        BY <2>3, <3>2 DEF HelloArrives, Simple
      <4> HIDE DEF c
      <4> QED
        BY <1>2, <3>1, <4>1
    <3>3. CASE ~Revoked(m.to, m.from)
      <4> DEFINE c == [m EXCEPT !.kind = "vetted"]
      <4>1. net' \subseteq net \cup {c}
        BY <2>3, <3>3 DEF HelloArrives
      <4>2. ~(c.from = p /\ c.to = d)
        BY <1>1, <3>1, <3>3 DEF Revoked, Call
      <4> HIDE DEF c
      <4> QED
        BY <1>2, <3>1, <4>1, <4>2
    <3> QED
      BY <3>2, <3>3
  <2>4. CASE HelloRecorded(m)
    <3>1. ~(m.from = p /\ m.to = d)
      BY <1>1, <2>4 DEF HelloRecorded, Quiet
    <3>2. m.to \in Devices /\ m.from \in Devices
      BY CallTyped
    <3>3. peers' = With(peers, m.to, m.from) /\ tombs' = Without(tombs, m.to, m.from)
      BY <2>4 DEF HelloRecorded, Record
    <3>4. p \in tombs'[d] /\ p \notin peers'[d]
      BY <1>1, <3>1, <3>2, <3>3 DEF With, Without, TypeOK
    <3>5. Quiet(p, d, {"vetted"})'
      <4> DEFINE c == [Simple("answer", m.to, m.from) EXCEPT
                         !.heal = m.heal, !.claim = Greeted(m).shared]
      <4>1. net' \subseteq net \cup {c} /\ c.kind # "vetted"
        BY <2>4 DEF HelloRecorded, Simple
      <4> HIDE DEF c
      <4> QED
        BY <1>1, <4>1, StaysQuiet
    <3> QED
      BY <3>4, <3>5 DEF Out
  <2> QED
    BY <1>8, <2>1, <2>2, <2>3, <2>4 DEF Arrives
<1>9. ASSUME NEW m \in net, Lost(m) PROVE (p \in tombs[d] /\ Out(d, p))'
  BY <1>3, <1>9 DEF Lost, tables
<1> QED
  BY <1>5, <1>6, <1>7, <1>8, <1>9 DEF Next, Well

(* Nothing but a user here takes a tombstone away, or lets a peer in that  *)
(* has one: no call that is late, lost or sent again does.                 *)
THEOREM RevokedStaysOutHolds == Spec => RevokedStaysOut
<1>1. TypeOK /\ [Next]_vars =>
        [\A d, p \in Devices :
           p \in tombs[d] /\ Out(d, p)
               => (p \in tombs[d] /\ Out(d, p))' \/ gestures' # gestures]_vars
  BY RevokedStep
<1> QED
  BY <1>1, TypeCorrect, PTL DEF Spec, RevokedStaysOut

-----------------------------------------------------------------------------
(* A pairing counts as confirmed only when the other side holds it.        *)

(* The device a has b in its table, or its user has taken b out of it.     *)
Held(a, b) == b \in peers[a] \cup unpaired[a]

(* A hello, and a reply to one, come from a device that holds the pairing, *)
(* and only such a device sets a tombstone.                                *)
Known ==
    /\ \A m \in net : m.kind \in {"hello", "vetted", "answer", "refusal"}
                          => Held(m.from, m.to)
    /\ \A a \in Devices : \A b \in tombs[a] \cup leaving[a] : Held(a, b)

(* Where pair_confirmed is set, the other side has this device in its      *)
(* table, unless its user has taken it out: a lost hello, a lost answer or *)
(* a restart never passes for the end of a pairing (set_pair_confirmed:    *)
(* "evidence the OTHER side holds this pairing").                          *)
ConfirmedIsHeld == \A d, p \in Devices : entry[d][p].confirmed => Held(p, d)

(* A pairing that is held is recorded again or taken back, never forgotten. *)
LEMMA HeldStays ==
    ASSUME TypeOK, [Next]_vars, NEW a \in Devices, NEW b \in Devices, Held(a, b)
    PROVE  Held(a, b)'
<1>1. ASSUME NEW d \in Devices, NEW p \in Devices, NEW e, Record(d, p, e)
      PROVE  Held(a, b)'
  BY <1>1 DEF Record, With, Without, Held, TypeOK
<1>2. ASSUME UNCHANGED <<peers, unpaired>> PROVE Held(a, b)'
  BY <1>2 DEF Held
<1>3. ASSUME NEW d \in Devices, NEW p \in Devices, UserDoes(d, p) PROVE Held(a, b)'
  <2>1. CASE Unpair(d, p)
    BY <2>1 DEF Unpair, With, Without, Held, TypeOK
  <2>2. CASE AcceptInvite(d, p) \/ \E code \in BOOLEAN : Scan(d, p, code)
    BY <1>1, <2>2 DEF AcceptInvite, Scan
  <2>3. CASE \/ Invite(d, p) \/ DeclineInvite(d, p) \/ Share(d, p)
             \/ AcceptOffer(d, p) \/ DeclineOffer(d, p) \/ Unshare(d, p)
    BY <1>2, <2>3 DEF Invite, DeclineInvite, Share, AcceptOffer, DeclineOffer,
      Unshare, tables
  <2> QED
    BY <1>3, <2>1, <2>2, <2>3 DEF UserDoes
<1>4. ASSUME NEW d \in Devices, NEW p \in Devices, DaemonDoes(d, p)
      PROVE  UNCHANGED <<peers, unpaired>>
  BY <1>4 DEF DaemonDoes, EntersTomb, TombFails, CloneDone, CloneFails,
    RetryAffirmed, Heal, Reoffer, Refresh, Push, tables, history
<1>5. ASSUME NEW d \in Devices, ShowCode(d) \/ HideCode(d) \/ Obtain(d) \/ Restart(d)
      PROVE  UNCHANGED <<peers, unpaired>>
  BY <1>5 DEF ShowCode, HideCode, Obtain, Restart, tables, history
<1>6. ASSUME NEW m \in net, HelloRecorded(m) PROVE Held(a, b)'
  BY <1>1, <1>6, CallTyped DEF HelloRecorded
<1>7. ASSUME NEW m \in net, Arrives(m) \/ Lost(m), ~HelloRecorded(m)
      PROVE  UNCHANGED <<peers, unpaired>>
  BY <1>7 DEF Arrives, RequestArrives, HelloArrives, AnswerArrives, OfferDropped,
    OfferArrives, ShareTakenBack, Lost, tables, history
<1> QED
  BY <1>2, <1>3, <1>4, <1>5, <1>6, <1>7 DEF Next, Well, vars, tables, history

(* A step that sends one call, and sets no tombstone, has to see to the    *)
(* call only.                                                              *)
LEMMA CallKnown ==
    ASSUME TypeOK, [Next]_vars, Known, NEW c, net' \subseteq net \cup {c},
           c.kind \in {"hello", "vetted", "answer", "refusal"} => Held(c.from, c.to)',
           \A x \in Devices : (tombs[x] \cup leaving[x])' \subseteq tombs[x] \cup leaving[x]
    PROVE  Known'
<1>1. \A m \in net : m.kind \in {"hello", "vetted", "answer", "refusal"}
                         => Held(m.from, m.to)'
  BY CallTyped, HeldStays DEF Known
<1>2. \A x \in Devices : \A y \in tombs[x] \cup leaving[x] : y \in Devices /\ Held(x, y)'
  BY HeldStays DEF Known, TypeOK
<1> QED
  BY <1>1, <1>2 DEF Known, Held

(* A step that changes one entry has to see to that entry only.            *)
LEMMA EntryHeld ==
    ASSUME TypeOK, [Next]_vars, ConfirmedIsHeld, NEW d \in Devices, NEW p \in Devices, NEW e,
           \/ entry' = entry
           \/ entry' = [entry EXCEPT ![d][p] = e],
           e.confirmed => entry[d][p].confirmed \/ Held(p, d)'
    PROVE  ConfirmedIsHeld'
<1>1. \A x, y \in Devices : entry[x][y].confirmed => Held(y, x)'
  BY HeldStays DEF ConfirmedIsHeld
<1>2. CASE entry' = entry
  BY <1>1, <1>2 DEF ConfirmedIsHeld, Held
<1>3. CASE entry' = [entry EXCEPT ![d][p] = e]
  <2>1. \A x, y \in Devices : entry'[x][y] = IF x = d /\ y = p THEN e ELSE entry[x][y]
    BY <1>3 DEF TypeOK
  <2> QED
    BY <1>1, <2>1 DEF ConfirmedIsHeld, Held
<1> QED
  BY <1>2, <1>3

(* The setters of the shares leave the confirmation alone.                 *)
LEMMA SetHeld ==
    ASSUME TypeOK, [Next]_vars, ConfirmedIsHeld, NEW d \in Devices, NEW p \in Devices, NEW e,
           Set(d, p, e), e.confirmed = entry[d][p].confirmed
    PROVE  ConfirmedIsHeld'
  BY EntryHeld DEF Set

LEMMA ChangedConfirms ==
    ASSUME NEW e \in Entry
    PROVE  /\ [e EXCEPT !.shared = TRUE].confirmed = e.confirmed
           /\ [e EXCEPT !.shared = FALSE].confirmed = e.confirmed
           /\ [e EXCEPT !.shared = TRUE, !.declined = FALSE].confirmed = e.confirmed
           /\ [e EXCEPT !.declined = FALSE].confirmed = e.confirmed
           /\ [e EXCEPT !.declined = TRUE].confirmed = e.confirmed
           /\ [e EXCEPT !.proven = TRUE].confirmed = e.confirmed
           /\ [e EXCEPT !.proven = TRUE, !.theirs = "yes"].confirmed = e.confirmed
  BY DEF Entry

(* What the gestures keep: a hello is said of a pairing just recorded, and *)
(* an entry is taken out with its confirmation.                            *)
LEMMA HeldByUser ==
    ASSUME TypeOK, [Next]_vars, Known, ConfirmedIsHeld,
           NEW d \in Devices, NEW p \in Devices, UserDoes(d, p)
    PROVE  Known' /\ ConfirmedIsHeld'
<1>0. ASSUME NEW e, Record(d, p, e), UNCHANGED leaving
      PROVE  /\ Held(d, p)'
             /\ \A x \in Devices : (tombs[x] \cup leaving[x])' \subseteq tombs[x] \cup leaving[x]
  BY <1>0 DEF Record, With, Without, Held, TypeOK
<1>1. entry[d][p] \in Entry
  BY EntryTyped
<1>2. Recorded(entry[d][p]).confirmed = entry[d][p].confirmed
  BY DEF Recorded, Blank
<1>3. CASE AcceptInvite(d, p)
  <2> DEFINE c == Hello(d, p, entry[d][p].shared, TRUE, FALSE)
  <2>1. c.from = d /\ c.to = p /\ net' = net \cup {c}
    BY <1>3 DEF AcceptInvite, Hello
  <2> HIDE DEF c
  <2>2. Record(d, p, Recorded(entry[d][p])) /\ UNCHANGED leaving
    BY <1>3 DEF AcceptInvite
  <2>3. Known'
    BY <1>0, <2>1, <2>2, CallKnown
  <2> QED
    BY <1>2, <2>2, <2>3, EntryHeld DEF Record
<1>4. ASSUME NEW code \in BOOLEAN, Scan(d, p, code) PROVE Known' /\ ConfirmedIsHeld'
  <2> DEFINE c == Hello(d, p, entry[d][p].shared, FALSE, code)
  <2>1. c.from = d /\ c.to = p /\ net' = net \cup {c}
    BY <1>4 DEF Scan, Hello
  <2> HIDE DEF c
  <2>2. Record(d, p, Recorded(entry[d][p])) /\ UNCHANGED leaving
    BY <1>4 DEF Scan
  <2>3. Known'
    BY <1>0, <2>1, <2>2, CallKnown
  <2> QED
    BY <1>2, <2>2, <2>3, EntryHeld DEF Record
<1>5. CASE Unpair(d, p)
  <2>1. ConfirmedIsHeld'
    <3>1. entry' = [entry EXCEPT ![d][p] = Blank] /\ ~Blank.confirmed
      BY <1>5 DEF Unpair, Blank
    <3> QED
      BY <3>1, EntryHeld
  <2>2. \A m \in net' : m.kind \in {"hello", "vetted", "answer", "refusal"}
                            => Held(m.from, m.to)'
    BY <1>5, CallTyped, HeldStays DEF Unpair, Known
  <2>3. Held(d, p)'
    BY <1>5 DEF Unpair, With, Held, TypeOK
  <2>4. \A x \in Devices : \A y \in (tombs[x] \cup leaving[x])' :
           y \in tombs[x] \cup leaving[x] \/ (x = d /\ y = p)
    BY <1>5 DEF Unpair, With, TypeOK
  <2>5. \A x \in Devices : \A y \in tombs[x] \cup leaving[x] : Held(x, y)'
    BY HeldStays DEF Known, TypeOK
  <2>6. Known'
    BY <2>2, <2>3, <2>4, <2>5 DEF Known, Held
  <2> QED
    BY <2>1, <2>6
<1>6. CASE \/ Invite(d, p) \/ DeclineInvite(d, p) \/ Share(d, p)
           \/ AcceptOffer(d, p) \/ DeclineOffer(d, p) \/ Unshare(d, p)
  <2>1. /\ UNCHANGED <<tombs, leaving>>
        /\ \E k \in {"request", "offer", "nack", "unshare"} :
              net' \subseteq net \cup {Simple(k, d, p)}
    BY <1>6 DEF Invite, DeclineInvite, Share, AcceptOffer, DeclineOffer, Unshare, tables
  <2>2. \A k \in {"request", "offer", "nack", "unshare"} :
           Simple(k, d, p).kind \notin {"hello", "vetted", "answer", "refusal"}
    BY DEF Simple
  <2>3. Known'
    BY <2>1, <2>2, CallKnown
  <2>4. entry' = entry => ConfirmedIsHeld'
    BY EntryHeld
  <2>5. ConfirmedIsHeld'
    <3>1. CASE Invite(d, p) \/ DeclineInvite(d, p)
      BY <2>4, <3>1 DEF Invite, DeclineInvite, tables
    <3>2. CASE Share(d, p)
      BY <1>1, <3>2, ChangedConfirms, SetHeld DEF Share
    <3>3. CASE AcceptOffer(d, p)
      BY <1>1, <3>3, ChangedConfirms, SetHeld DEF AcceptOffer
    <3>4. CASE DeclineOffer(d, p)
      BY <1>1, <3>4, ChangedConfirms, SetHeld DEF DeclineOffer
    <3>5. CASE Unshare(d, p)
      BY <1>1, <3>5, ChangedConfirms, SetHeld DEF Unshare
    <3> QED
      BY <1>6, <3>1, <3>2, <3>3, <3>4, <3>5
  <2> QED
    BY <2>3, <2>5
<1> QED
  BY <1>3, <1>4, <1>5, <1>6 DEF UserDoes

(* What the daemon does by itself confirms nothing.                        *)
LEMMA HeldByDaemon ==
    ASSUME TypeOK, [Next]_vars, Known, ConfirmedIsHeld,
           NEW d \in Devices, NEW p \in Devices, DaemonDoes(d, p)
    PROVE  Known' /\ ConfirmedIsHeld'
<1>1. entry[d][p] \in Entry
  BY EntryTyped
<1>2. entry' = entry => ConfirmedIsHeld'
  BY EntryHeld
<1>3. ConfirmedIsHeld'
  <2>1. CASE CloneDone(d, p)
    BY <1>1, <2>1, ChangedConfirms, SetHeld DEF CloneDone
  <2>2. CASE Push(d, p)
    BY <1>1, <2>2, ChangedConfirms, SetHeld DEF Push
  <2>3. CASE ~CloneDone(d, p) /\ ~Push(d, p)
    BY <1>2, <2>3 DEF DaemonDoes, EntersTomb, TombFails, CloneFails, RetryAffirmed,
      Heal, Reoffer, Refresh, tables
  <2> QED
    BY <2>1, <2>2, <2>3
<1>4. \A x \in Devices : (tombs[x] \cup leaving[x])' \subseteq tombs[x] \cup leaving[x]
  <2>1. CASE EntersTomb(d, p)
    <3>1. /\ tombs' = [tombs EXCEPT ![d] = @ \cup {p}] /\ p \in leaving[d]
          /\ leaving' = [leaving EXCEPT ![d] = @ \ {p}]
      BY <2>1 DEF EntersTomb, With, Without
    <3> QED
      BY <3>1 DEF TypeOK
  <2>2. CASE TombFails(d, p)
    BY <2>2 DEF TombFails, tables, Without, TypeOK
  <2>3. CASE ~EntersTomb(d, p) /\ ~TombFails(d, p)
    BY <2>3 DEF DaemonDoes, CloneDone, CloneFails, RetryAffirmed, Heal, Reoffer,
      Refresh, Push, tables
  <2> QED
    BY <2>1, <2>2, <2>3
<1>5. CASE Heal(d, p) \/ Refresh(d, p)
  <2>1. PICK heal \in BOOLEAN :
          net' = net \cup {Hello(d, p, entry[d][p].shared, heal, FALSE)}
    BY <1>5 DEF Heal, Refresh
  <2> DEFINE c == Hello(d, p, entry[d][p].shared, heal, FALSE)
  <2>2. c.from = d /\ c.to = p /\ net' = net \cup {c}
    BY <2>1 DEF Hello
  <2> HIDE DEF c
  <2>3. Held(d, p)'
    BY <1>5, HeldStays DEF Heal, Refresh, Held
  <2>4. Known'
    BY <1>4, <2>2, <2>3, CallKnown
  <2> QED
    BY <1>3, <2>4
<1>6. CASE ~(Heal(d, p) \/ Refresh(d, p))
  <2>1. net' \subseteq net \cup {Simple("offer", d, p)}
    BY <1>6 DEF DaemonDoes, EntersTomb, TombFails, CloneDone, CloneFails,
      RetryAffirmed, Reoffer, Push
  <2>2. Simple("offer", d, p).kind \notin {"hello", "vetted", "answer", "refusal"}
    BY DEF Simple
  <2>3. Known'
    BY <1>4, <2>1, <2>2, CallKnown
  <2> QED
    BY <1>3, <2>3
<1> QED
  BY <1>5, <1>6

(* What arrives confirms a pairing that its sender holds.                  *)
LEMMA HeldByCall ==
    ASSUME TypeOK, [Next]_vars, Known, ConfirmedIsHeld, NEW m \in net, Arrives(m) \/ Lost(m)
    PROVE  Known' /\ ConfirmedIsHeld'
<1> USE CallTyped
<1>1. m.to \in Devices /\ m.from \in Devices /\ entry[m.to][m.from] \in Entry
  BY EntryTyped
<1>2. m.kind \in {"hello", "vetted", "answer", "refusal"} => Held(m.from, m.to)'
  BY <1>1, HeldStays DEF Known
<1>3. CASE HelloArrives(m)
  <2>1. UNCHANGED <<tombs, leaving, entry>>
    BY <1>3 DEF HelloArrives, tables
  <2>2. PICK c : /\ net' = (net \ {m}) \cup {c}
                 /\ \/ c.from = m.from /\ c.to = m.to
                    \/ c.from = m.to /\ c.to = m.from /\ Revoked(m.to, m.from)
    <3>1. /\ [m EXCEPT !.kind = "vetted"].from = m.from
          /\ [m EXCEPT !.kind = "vetted"].to = m.to
      BY DEF Call
    <3>2. /\ [Simple("refusal", m.to, m.from) EXCEPT !.heal = m.heal].from = m.to
          /\ [Simple("refusal", m.to, m.from) EXCEPT !.heal = m.heal].to = m.from
      BY DEF Simple
    <3> QED
      BY <1>3, <3>1, <3>2 DEF HelloArrives
  <2>3. Held(c.from, c.to)'
    <3>1. CASE c.from = m.from /\ c.to = m.to
      BY <1>2, <1>3, <3>1 DEF HelloArrives
    <3>2. CASE c.from = m.to /\ c.to = m.from /\ Revoked(m.to, m.from)
      BY <1>1, <3>2, HeldStays DEF Revoked, Known
    <3> QED
      BY <2>2, <3>1, <3>2
  <2>4. Known'
    BY <2>1, <2>2, <2>3, CallKnown
  <2> QED
    BY <1>1, <2>1, <2>4, EntryHeld
<1>4. CASE HelloRecorded(m)
  <2> DEFINE c == [Simple("answer", m.to, m.from) EXCEPT !.heal = m.heal,
                                                  !.claim = Greeted(m).shared]
  <2>1. net' = (net \ {m}) \cup {c} /\ c.from = m.to /\ c.to = m.from
    BY <1>4 DEF HelloRecorded, Simple
  <2> HIDE DEF c
  <2>2. Record(m.to, m.from, Greeted(m)) /\ UNCHANGED leaving
    BY <1>4 DEF HelloRecorded
  <2>3. /\ Held(m.to, m.from)'
        /\ \A x \in Devices : (tombs[x] \cup leaving[x])' \subseteq tombs[x] \cup leaving[x]
    BY <1>1, <2>2 DEF Record, With, Without, Held, TypeOK
  <2>4. Known'
    BY <2>1, <2>3, CallKnown
  <2>5. Held(m.from, m.to)'
    BY <1>2, <1>4 DEF HelloRecorded
  <2> QED
    BY <1>1, <2>2, <2>4, <2>5, EntryHeld DEF Record
<1>5. CASE AnswerArrives(m)
  <2>1. UNCHANGED <<tombs, leaving>> /\ net' \subseteq net \cup {m}
    BY <1>5 DEF AnswerArrives
  <2>2. Known'
    BY <1>2, <2>1, CallKnown
  <2>3. Held(m.from, m.to)'
    BY <1>2, <1>5 DEF AnswerArrives
  <2>4. entry' = entry \/ \E e : entry' = [entry EXCEPT ![m.to][m.from] = e]
    BY <1>5 DEF AnswerArrives, Set
  <2> QED
    BY <1>1, <2>2, <2>3, <2>4, EntryHeld
<1>6. CASE RequestArrives(m) \/ OfferDropped(m) \/ OfferArrives(m) \/ ShareTakenBack(m) \/ Lost(m)
  <2>1. UNCHANGED <<tombs, leaving>> /\ net' \subseteq net \cup {Simple("nack", m.to, m.from)}
    BY <1>6 DEF RequestArrives, OfferDropped, OfferArrives, ShareTakenBack, Lost, tables
  <2>2. Simple("nack", m.to, m.from).kind \notin {"hello", "vetted", "answer", "refusal"}
    BY DEF Simple
  <2>3. Known'
    BY <2>1, <2>2, CallKnown
  <2>4. entry' = entry => ConfirmedIsHeld'
    BY <1>1, EntryHeld
  <2>5. ConfirmedIsHeld'
    <3>1. CASE RequestArrives(m) \/ OfferDropped(m) \/ Lost(m)
      BY <2>4, <3>1 DEF RequestArrives, OfferDropped, Lost, tables
    <3>2. CASE OfferArrives(m)
      BY <1>1, <3>2, ChangedConfirms, SetHeld DEF OfferArrives
    <3>3. CASE ShareTakenBack(m)
      BY <1>1, <3>3, ChangedConfirms, SetHeld DEF ShareTakenBack
    <3> QED
      BY <1>6, <3>1, <3>2, <3>3
  <2> QED
    BY <2>3, <2>5
<1> QED
  BY <1>3, <1>4, <1>5, <1>6 DEF Arrives

(* No call that was lost, late or refused makes a pairing look complete    *)
(* that the other side has never recorded.                                 *)
THEOREM ConfirmedIsHeldHolds == Spec => []ConfirmedIsHeld
<1> DEFINE J == Known /\ ConfirmedIsHeld
<1>1. Init => J
  <2> SUFFICES ASSUME Init PROVE J
    OBVIOUS
  <2>1. \A d, p \in Devices : entry[d][p].confirmed => d \in peers[p]
    BY DEF Init, Old, Settled, Blank
  <2> QED
    BY <2>1 DEF Init, Known, ConfirmedIsHeld, Held
<1>2. TypeOK /\ J /\ [Next]_vars => J'
  <2> SUFFICES ASSUME TypeOK, J, [Next]_vars PROVE J'
    OBVIOUS
  <2>1. ASSUME NEW d \in Devices, ShowCode(d) \/ HideCode(d) \/ Obtain(d) \/ Restart(d)
        PROVE  J'
    <3>1. /\ UNCHANGED <<entry, net, peers, unpaired>>
          /\ \A x \in Devices : (tombs[x] \cup leaving[x])' \subseteq tombs[x] \cup leaving[x]
      BY <2>1 DEF ShowCode, HideCode, Obtain, Restart, tables, history, TypeOK
    <3> QED
      BY <3>1 DEF Known, ConfirmedIsHeld, Held
  <2>2. CASE UNCHANGED vars
    BY <2>2 DEF vars, tables, history, Known, ConfirmedIsHeld, Held
  <2> QED
    BY <2>1, <2>2, HeldByUser, HeldByDaemon, HeldByCall DEF Next, Well
<1>3. J => ConfirmedIsHeld
  OBVIOUS
<1> QED
  BY <1>1, <1>2, <1>3, TypeCorrect, PTL DEF Spec
=============================================================================
