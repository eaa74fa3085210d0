----------------------------- MODULE PeerSharing ----------------------------
(***************************************************************************)
(* Which devices are paired, and which of them share a project             *)
(* (azt_collabd/peers.py, the handlers in lan_listener.py and server.py,   *)
(* hello_to_peer and sweep_peer in lan_push.py).  Every device keeps its   *)
(* own table of the others; the tables are agreed by single calls that     *)
(* may be lost, answered late, or overtaken by what a user does meanwhile. *)
(* A daemon may die at any moment.  One project; the addresses, the        *)
(* certificates and the reading of a project's data are left out.          *)
(***************************************************************************)
EXTENDS Naturals

CONSTANTS
    Devices,
    Holders,       \* the devices that have the project to begin with
    Elsewhere,     \* <<d, p>>: d shares another project with p
    MaxGestures    \* how often a user does something

ASSUME SharingAssumption ==
    /\ Holders \subseteq Devices /\ Elsewhere \subseteq Devices \X Devices
    /\ MaxGestures \in Nat

VARIABLES
    peers,      \* peers[d]: the devices in peers.json
    entry,      \* entry[d][p]: what it says of p and the project
    tombs,      \* tombs[d]: the devices unpaired at d
    holds,      \* the devices that have the project
    invites,    \* invites[d]: open pair requests (pending_decisions.py)
    offers,     \* offers[d]: open share offers
    affirmed,   \* affirmed[d]: those the user has said yes to
    cloning,    \* cloning[d]: the devices d is cloning the project from
    showing,    \* the devices that show the QR code of the project
    leaving,    \* leaving[d]: removed, and not yet in tombs[d]
    net,        \* the calls and answers under way
    gestures,   \* what the users have done, counted
    agreed,     \* agreed[d]: whom the user of d has ever agreed to pair with
    chosen,     \* chosen[d]: whom the user of d has chosen to share with
    unpaired    \* unpaired[d]: whom the user of d has unpaired, and d not
                \* recorded again

tables == <<peers, entry, tombs>>
decisions == <<invites, offers, affirmed>>
history == <<gestures, agreed, chosen, unpaired>>
vars == <<tables, decisions, holds, cloning, showing, leaving, net, history>>

Theirs == {"untold", "no", "yes"}

Entry == [confirmed : BOOLEAN,   \* pair_confirmed
          shared : BOOLEAN,      \* shared_projects
          theirs : Theirs,       \* their_shared_projects
          proven : BOOLEAN,      \* shares_confirmed
          declined : BOOLEAN]    \* declined_shares

Blank == [confirmed |-> FALSE, shared |-> FALSE, theirs |-> "untold",
          proven |-> FALSE, declined |-> FALSE]

(* Two devices that have worked together for a while.                      *)
Settled == [confirmed |-> TRUE, shared |-> TRUE, theirs |-> "yes",
            proven |-> TRUE, declined |-> FALSE]

(* A hello is vetted once the handler has looked for a tombstone; answer   *)
(* and refusal are the two replies to it.                                  *)
Kinds == {"request", "hello", "vetted", "answer", "refusal",
          "offer", "nack", "unshare"}

Call == [kind : Kinds, from : Devices, to : Devices,
         claim : BOOLEAN,    \* shared_with_you names the project
         heal : BOOLEAN,     \* the caller will set pair_confirmed
         code : BOOLEAN]     \* langcode: the caller has scanned the QR code

(* The devices of old share the project with one another already.          *)
Old(old, d) == IF d \in old THEN old \ {d} ELSE {}

Init == \E old \in SUBSET Devices :
    /\ peers = [d \in Devices |-> Old(old, d)]
    /\ entry = [d \in Devices |-> [p \in Devices |->
                  IF p \in Old(old, d) THEN Settled ELSE Blank]]
    /\ tombs = [d \in Devices |-> {}]
    /\ holds = Holders \cup old
    /\ invites = [d \in Devices |-> {}]
    /\ offers = [d \in Devices |-> {}]
    /\ affirmed = [d \in Devices |-> {}]
    /\ cloning = [d \in Devices |-> {}]
    /\ showing \in SUBSET Holders
    /\ leaving = [d \in Devices |-> {}]
    /\ net = {}
    /\ gestures = 0
    /\ agreed = [d \in Devices |-> Old(old, d)]
    /\ chosen = [d \in Devices |-> Old(old, d)]
    /\ unpaired = [d \in Devices |-> {}]

-----------------------------------------------------------------------------
(* Parts of the actions.                                                   *)

Simple(k, d, p) == [kind |-> k, from |-> d, to |-> p,
                    claim |-> FALSE, heal |-> FALSE, code |-> FALSE]

Hello(d, p, claim, heal, code) ==
    [kind |-> "hello", from |-> d, to |-> p,
     claim |-> claim, heal |-> heal, code |-> code]

(* No call of this kind is under way from d to p.                          *)
Quiet(d, p, kinds) ==
    \A m \in net : ~(m.from = d /\ m.to = p /\ m.kind \in kinds)

(* No hello of d to p is under way, nor the reply to one.                  *)
NoHello(d, p) ==
    Quiet(d, p, {"hello", "vetted"}) /\ Quiet(p, d, {"answer", "refusal"})

With(f, d, p) == [f EXCEPT ![d] = @ \cup {p}]
Without(f, d, p) == [f EXCEPT ![d] = @ \ {p}]

(* The setters of peers.py change nothing when the peer is not there.      *)
Set(d, p, e) ==
    entry' = IF p \in peers[d] THEN [entry EXCEPT ![d][p] = e] ELSE entry

(* A variant with a fault: a pair counts as confirmed when it is recorded. *)
RecordedAsConfirmed(e) == [Blank EXCEPT !.confirmed = TRUE, !.shared = e.shared]

(* record_pair builds the entry anew.                                      *)
Recorded(e) == [Blank EXCEPT !.confirmed = e.confirmed, !.shared = e.shared]

(* record_pair                                                             *)
Record(d, p, e) ==
    /\ peers' = With(peers, d, p)
    /\ tombs' = Without(tombs, d, p)
    /\ entry' = [entry EXCEPT ![d][p] = e]
    /\ unpaired' = Without(unpaired, d, p)

(* set_their_shared_projects: what was offered once is not taken back.     *)
Told(e, claim) ==
    [e EXCEPT !.theirs = IF claim \/ e.proven THEN "yes" ELSE "no"]

(* A variant with a fault: what is not here is granted as well.            *)
GrantsUnseen(d, e, claim) == [e EXCEPT !.shared = @ \/ claim]

(* A variant with a fault: a grant is never given back.                    *)
GrantsNothing(d, e, claim) == e

(* reciprocate_shares: grant back what they share and we hold.             *)
Reciprocated(d, e, claim) ==
    [e EXCEPT !.shared = @ \/ (claim /\ d \in holds)]

-----------------------------------------------------------------------------
(* What the users do.                                                      *)

Gesture == gestures < MaxGestures /\ gestures' = gestures + 1

(* A variant with a fault: the pair is recorded with the request.          *)
InviteRecords(d, p) ==
    /\ d # p
    /\ Gesture
    /\ Record(d, p, Blank)
    /\ net' = net \cup {Simple("request", d, p)}
    /\ agreed' = With(agreed, d, p)
    /\ UNCHANGED <<decisions, holds, cloning, showing, leaving, chosen>>

(* _h_lan_pair_request_send asks a peer that is known as well, and leaves  *)
(* a tombstone where it is.                                                *)
Invite(d, p) ==
    /\ d # p
    /\ Gesture
    /\ net' = net \cup {Simple("request", d, p)}
    /\ agreed' = With(agreed, d, p)
    /\ UNCHANGED <<tables, decisions, holds, cloning, showing, leaving,
                   chosen, unpaired>>

(* _h_lan_pair_request_resolve: record the pair, say hello.                *)
AcceptInvite(d, p) ==
    /\ p \in invites[d] /\ NoHello(d, p)
    /\ Gesture
    /\ Record(d, p, Recorded(entry[d][p]))
    /\ net' = net \cup {Hello(d, p, entry[d][p].shared, TRUE, FALSE)}
    /\ invites' = Without(invites, d, p)
    /\ agreed' = With(agreed, d, p)
    /\ UNCHANGED <<offers, affirmed, holds, cloning, showing, leaving, chosen>>

DeclineInvite(d, p) ==
    /\ p \in invites[d]
    /\ Gesture
    /\ invites' = Without(invites, d, p)
    /\ UNCHANGED <<tables, offers, affirmed, holds, cloning, showing, leaving,
                   net, agreed, chosen, unpaired>>

(* record_qr_offered and clear_qr_offer.  A code is taken as consent of    *)
(* its owner: Scan uses one seen at any time.                              *)
ShowCode(d) ==
    /\ d \in holds \ showing
    /\ Gesture
    /\ showing' = showing \cup {d}
    /\ UNCHANGED <<tables, decisions, holds, cloning, leaving, net,
                   agreed, chosen, unpaired>>

HideCode(d) ==
    /\ d \in showing
    /\ showing' = showing \ {d}
    /\ UNCHANGED <<tables, decisions, holds, cloning, leaving, net, history>>

(* _h_lan_pair_accept, and the clone that the picker starts after it.  The *)
(* code is that of the device alone, or of the project; a copy does as     *)
(* well as the code on show, until the hello asks for the project.         *)
Scan(d, p, code) ==
    /\ d # p /\ NoHello(d, p)
    /\ code => p \in holds
    /\ Gesture
    /\ Record(d, p, Recorded(entry[d][p]))
    /\ net' = net \cup {Hello(d, p, entry[d][p].shared, FALSE, code)}
    /\ cloning' = IF code THEN With(cloning, d, p) ELSE cloning
    /\ agreed' = With(With(agreed, d, p), p, d)
    /\ chosen' = IF code THEN With(chosen, d, p) ELSE chosen
    /\ UNCHANGED <<decisions, holds, showing, leaving>>

(* _h_lan_send_share_offer                                                 *)
Share(d, p) ==
    /\ p \in peers[d] /\ d \in holds
    /\ Gesture
    /\ Set(d, p, [entry[d][p] EXCEPT !.shared = TRUE, !.declined = FALSE])
    /\ net' = net \cup {Simple("offer", d, p)}
    /\ chosen' = With(chosen, d, p)
    /\ UNCHANGED <<peers, tombs, decisions, holds, cloning, showing, leaving,
                   agreed, unpaired>>

(* _h_lan_accept_offer up to the clone                                     *)
AcceptOffer(d, p) ==
    /\ p \in offers[d] /\ p \notin cloning[d]
    /\ Gesture
    /\ Set(d, p, [entry[d][p] EXCEPT !.declined = FALSE])
    /\ cloning' = IF p \in peers[d] THEN With(cloning, d, p) ELSE cloning
    /\ chosen' = With(chosen, d, p)
    /\ UNCHANGED <<peers, tombs, decisions, holds, showing, leaving, net,
                   agreed, unpaired>>

(* _h_lan_decline_offer                                                    *)
DeclineOffer(d, p) ==
    /\ p \in offers[d]
    /\ Gesture
    /\ offers' = Without(offers, d, p)
    /\ affirmed' = Without(affirmed, d, p)
    /\ Set(d, p, [entry[d][p] EXCEPT !.declined = TRUE])
    /\ net' = net \cup {Simple("nack", d, p)}
    /\ UNCHANGED <<peers, tombs, invites, holds, cloning, showing, leaving,
                   agreed, chosen, unpaired>>

(* _h_lan_unshare_project                                                  *)
Unshare(d, p) ==
    /\ p \in peers[d]
    /\ Gesture
    /\ Set(d, p, [entry[d][p] EXCEPT !.shared = FALSE])
    /\ net' = net \cup {Simple("unshare", d, p)}
    /\ UNCHANGED <<peers, tombs, decisions, holds, cloning, showing, leaving,
                   agreed, chosen, unpaired>>

(* _h_lan_unpair takes the entry out, and then sets the tombstone ...      *)
Unpair(d, p) ==
    /\ p \in peers[d]
    /\ Gesture
    /\ peers' = Without(peers, d, p)
    /\ entry' = [entry EXCEPT ![d][p] = Blank]
    /\ leaving' = With(leaving, d, p)
    /\ unpaired' = With(unpaired, d, p)
    /\ UNCHANGED <<tombs, decisions, holds, cloning, showing, net, agreed, chosen>>

EntersTomb(d, p) ==
    /\ p \in leaving[d]
    /\ tombs' = With(tombs, d, p)
    /\ leaving' = Without(leaving, d, p)
    /\ UNCHANGED <<peers, entry, decisions, holds, cloning, showing, net, history>>

(* ... or raises, and no tombstone is there.                               *)
TombFails(d, p) ==
    /\ p \in leaving[d]
    /\ leaving' = Without(leaving, d, p)
    /\ UNCHANGED <<tables, decisions, holds, cloning, showing, net, history>>

-----------------------------------------------------------------------------
(* What the daemon does by itself.                                         *)

(* A clone reads from a device that has the project and grants it to a     *)
(* peer.  It may end after the peer was unpaired, or the offer declined.   *)
Serves(p) == p \in holds /\ \E q \in peers[p] : entry[p][q].shared

CloneDone(d, p) ==
    /\ p \in cloning[d] /\ Serves(p)
    /\ cloning' = Without(cloning, d, p)
    /\ holds' = holds \cup {d}
    /\ Set(d, p, [entry[d][p] EXCEPT !.shared = TRUE])
    /\ offers' = Without(offers, d, p)
    /\ affirmed' = Without(affirmed, d, p)
    /\ UNCHANGED <<peers, tombs, invites, showing, leaving, net, history>>

(* The peer is away: the offer is kept and stamped.                        *)
CloneFails(d, p) ==
    /\ p \in cloning[d]
    /\ cloning' = Without(cloning, d, p)
    /\ affirmed' = IF p \in offers[d] THEN With(affirmed, d, p) ELSE affirmed
    /\ UNCHANGED <<tables, invites, offers, holds, showing, leaving, net, history>>

(* The project comes from elsewhere: cloned from the host, or made here.   *)
Obtain(d) ==
    /\ d \notin holds
    /\ holds' = holds \cup {d}
    /\ UNCHANGED <<tables, decisions, cloning, showing, leaving, net, history>>

(* retry_affirmed_offers, when the peer is seen again.                     *)
RetryAffirmed(d, p) ==
    /\ p \in affirmed[d] \cap peers[d] /\ p \notin cloning[d]
    /\ cloning' = With(cloning, d, p)
    /\ UNCHANGED <<tables, decisions, holds, showing, leaving, net, history>>

(* sweep_peer: the pairing is completed ...                                *)
Heal(d, p) ==
    /\ p \in peers[d] /\ ~entry[d][p].confirmed /\ NoHello(d, p)
    /\ net' = net \cup {Hello(d, p, entry[d][p].shared, TRUE, FALSE)}
    /\ UNCHANGED <<tables, decisions, holds, cloning, showing, leaving, history>>

(* ... the share is offered again (unconfirmed_shares) ...                 *)
Reoffer(d, p) ==
    /\ p \in peers[d] /\ entry[d][p].shared /\ ~entry[d][p].proven
    /\ Quiet(d, p, {"offer"})
    /\ net' = net \cup {Simple("offer", d, p)}
    /\ UNCHANGED <<tables, decisions, holds, cloning, showing, leaving, history>>

(* The list of the peer is there, and it is empty.                         *)
Nothing(d, p) == entry[d][p].theirs = "no" /\ <<p, d>> \notin Elsewhere

(* ... a list that names nothing is asked for again, where something is    *)
(* shared from here ...                                                    *)
Refresh(d, p) ==
    /\ p \in peers[d] /\ NoHello(d, p)
    /\ Nothing(d, p) /\ (entry[d][p].shared \/ <<d, p>> \in Elsewhere)
    /\ net' = net \cup {Hello(d, p, entry[d][p].shared, FALSE, FALSE)}
    /\ UNCHANGED <<tables, decisions, holds, cloning, showing, leaving, history>>

(* ... and a push that gets through proves that the peer has the project.  *)
Push(d, p) ==
    /\ p \in peers[d] /\ d \in holds
    /\ entry[d][p].shared /\ entry[d][p].theirs # "no" /\ ~entry[d][p].proven
    /\ Serves(p)
    /\ Set(d, p, [entry[d][p] EXCEPT !.proven = TRUE])
    /\ UNCHANGED <<peers, tombs, decisions, holds, cloning, showing, leaving,
                   net, history>>

-----------------------------------------------------------------------------
(* What a device does with a call from d to p.                             *)

RequestArrives(m) ==
    /\ m.kind = "request"
    /\ net' = net \ {m}
    /\ invites' = With(invites, m.to, m.from)
    /\ UNCHANGED <<tables, offers, affirmed, holds, cloning, showing, leaving, history>>

(* A variant with a fault: everybody is let in.                            *)
NoTomb(d, p) == FALSE

Revoked(d, p) == p \in tombs[d] /\ p \notin peers[d]

(* _handle_hello_bodyauth looks for a tombstone first ...                  *)
HelloArrives(m) ==
    /\ m.kind = "hello"
    /\ net' = (net \ {m}) \cup
         {IF Revoked(m.to, m.from)
          THEN [Simple("refusal", m.to, m.from) EXCEPT !.heal = m.heal]
          ELSE [m EXCEPT !.kind = "vetted"]}
    /\ UNCHANGED <<tables, decisions, holds, cloning, showing, leaving, history>>

(* ... then records the pair, grants what the QR code offers, takes down   *)
(* the list of the caller and answers with its own.                        *)
Greeted(m) ==
    LET d == m.to
        e == [Recorded(entry[d][m.from]) EXCEPT !.confirmed = TRUE,
                !.shared = @ \/ (m.code /\ d \in showing)]
    IN  Reciprocated(d, Told(e, m.claim), m.claim)

HelloRecorded(m) ==
    /\ m.kind = "vetted"
    /\ Record(m.to, m.from, Greeted(m))
    /\ net' = (net \ {m}) \cup
         {[Simple("answer", m.to, m.from) EXCEPT !.heal = m.heal,
                                                  !.claim = Greeted(m).shared]}
    /\ UNCHANGED <<decisions, holds, cloning, showing, leaving,
                   gestures, agreed, chosen>>

(* hello_to_peer: the answer brings the other list; every reply counts as  *)
(* a hello that was delivered.                                             *)
AnswerArrives(m) ==
    LET d == m.to
        e == [entry[d][m.from] EXCEPT !.confirmed = @ \/ m.heal]
    IN  /\ m.kind \in {"answer", "refusal"}
        /\ net' = net \ {m}
        /\ Set(d, m.from, IF m.kind = "answer"
                          THEN Reciprocated(d, Told(e, m.claim), m.claim)
                          ELSE e)
        /\ UNCHANGED <<peers, tombs, decisions, holds, cloning, showing,
                       leaving, history>>

(* _handle_share_offer drops what was declined, and says so again.         *)
OfferDropped(m) ==
    /\ m.kind = "offer" /\ entry[m.to][m.from].declined
    /\ net' = (net \ {m}) \cup {Simple("nack", m.to, m.from)}
    /\ UNCHANGED <<tables, decisions, holds, cloning, showing, leaving, history>>

(* An offer proves that they share; it is put to the user, anew, when the  *)
(* project is not here.                                                    *)
OfferArrives(m) ==
    /\ m.kind = "offer" /\ ~entry[m.to][m.from].declined
    /\ net' = net \ {m}
    /\ Set(m.to, m.from, [entry[m.to][m.from] EXCEPT !.proven = TRUE, !.theirs = "yes"])
    /\ IF m.to \in holds
       THEN UNCHANGED <<offers, affirmed>>
       ELSE /\ offers' = With(offers, m.to, m.from)
            /\ affirmed' = Without(affirmed, m.to, m.from)
    /\ UNCHANGED <<peers, tombs, invites, holds, cloning, showing, leaving, history>>

(* _handle_share_declined and _handle_share_unshared                       *)
ShareTakenBack(m) ==
    /\ m.kind \in {"nack", "unshare"}
    /\ net' = net \ {m}
    /\ Set(m.to, m.from, [entry[m.to][m.from] EXCEPT !.shared = FALSE])
    /\ UNCHANGED <<peers, tombs, decisions, holds, cloning, showing, leaving, history>>

Lost(m) ==
    /\ net' = net \ {m}
    /\ UNCHANGED <<tables, decisions, holds, cloning, showing, leaving, history>>

(* The daemon dies and starts again: the decisions are on disk, what is    *)
(* being done, and the code on show, are not.                              *)
Restart(d) ==
    /\ leaving' = [leaving EXCEPT ![d] = {}]
    /\ cloning' = [cloning EXCEPT ![d] = {}]
    /\ showing' = showing \ {d}
    /\ UNCHANGED <<tables, decisions, holds, net, history>>

-----------------------------------------------------------------------------
Arrives(m) ==
    \/ RequestArrives(m) \/ HelloArrives(m) \/ HelloRecorded(m)
    \/ AnswerArrives(m) \/ OfferDropped(m) \/ OfferArrives(m) \/ ShareTakenBack(m)

Received(k, d, p) == \E m \in net : m.kind = k /\ m.from = d /\ m.to = p /\ Arrives(m)

UserDoes(d, p) ==
    \/ Invite(d, p) \/ AcceptInvite(d, p) \/ DeclineInvite(d, p)
    \/ \E code \in BOOLEAN : Scan(d, p, code)
    \/ Share(d, p) \/ AcceptOffer(d, p) \/ DeclineOffer(d, p)
    \/ Unshare(d, p) \/ Unpair(d, p)

DaemonDoes(d, p) ==
    \/ EntersTomb(d, p) \/ TombFails(d, p)
    \/ CloneDone(d, p) \/ CloneFails(d, p) \/ RetryAffirmed(d, p)
    \/ Heal(d, p) \/ Reoffer(d, p) \/ Refresh(d, p) \/ Push(d, p)

(* A step in which no call is lost.                                        *)
Well ==
    \/ \E d, p \in Devices : UserDoes(d, p) \/ DaemonDoes(d, p)
    \/ \E d \in Devices : ShowCode(d) \/ HideCode(d) \/ Obtain(d) \/ Restart(d)
    \/ \E m \in net : Arrives(m)

Next == Well \/ \E m \in net : Lost(m)

Spec == Init /\ [][Next]_vars

(* In the end the devices reach each other, and sweep often enough: each   *)
(* of them on arrivals, on pushes and when its listener is bound.          *)
FairSpec ==
    /\ Spec
    /\ <>[][Well]_vars
    /\ \A d \in Devices : \A p \in Devices \ {d} :
          /\ WF_vars(Heal(d, p)) /\ WF_vars(Refresh(d, p))
          /\ \A k \in {"hello", "vetted", "answer", "refusal"} :
                WF_vars(Received(k, d, p))

-----------------------------------------------------------------------------
(* Every variable has its type; nothing is kept of a device that is not a  *)
(* peer (peers.json).                                                      *)
TypeOK ==
    /\ peers \in [Devices -> SUBSET Devices]
    /\ entry \in [Devices -> [Devices -> Entry]]
    /\ \A d, p \in Devices : p \notin peers[d] => entry[d][p] = Blank
    /\ tombs \in [Devices -> SUBSET Devices]
    /\ holds \in SUBSET Devices
    /\ invites \in [Devices -> SUBSET Devices]
    /\ offers \in [Devices -> SUBSET Devices]
    /\ affirmed \in [Devices -> SUBSET Devices]
    /\ \A d \in Devices : affirmed[d] \subseteq offers[d]
    /\ cloning \in [Devices -> SUBSET Devices]
    /\ showing \in SUBSET holds
    /\ leaving \in [Devices -> SUBSET Devices]
    /\ net \in SUBSET Call
    /\ gestures \in 0 .. MaxGestures
    /\ agreed \in [Devices -> SUBSET Devices]
    /\ chosen \in [Devices -> SUBSET Devices]
    /\ unpaired \in [Devices -> SUBSET Devices]

(* No device is in the table of another unless the users of both have      *)
(* agreed to it at one time (lan_push.py: someone invited, someone         *)
(* accepted), whatever calls were lost, late or sent again.                *)
PairsNeedConsent ==
    \A d \in Devices : \A p \in peers[d] : p \in agreed[d] /\ d \in agreed[p]

(* A device grants only a project it has, and only to a device with which  *)
(* one of the two users has chosen to share it: a list that answers a list *)
(* grants nothing by itself (reciprocate_shares).                          *)
SharesNeedAChoice ==
    \A d, p \in Devices : entry[d][p].shared =>
        d \in holds /\ (p \in chosen[d] \/ d \in chosen[p])

(* A pairing that was taken back comes back only by what a user does here: *)
(* no hello is let in any more, and none is recorded but one the handler   *)
(* had let in before the tombstone was set.                                *)
Out(d, p) == p \notin peers[d] /\ Quiet(p, d, {"vetted"})

RevokedStaysOut ==
    [][\A d, p \in Devices :
          p \in tombs[d] /\ Out(d, p)
              => (p \in tombs[d] /\ Out(d, p))' \/ gestures' # gestures]_vars

(* A pairing that one side holds, and the other has neither recorded nor   *)
(* taken back, heals: the other records it, or this side takes it back     *)
(* (sweep_peer: a confirmation that got lost is made up for).  One that    *)
(* the other has taken back does not, whether the tombstone was set or not *)
(* and whatever the user there does next: only the record of a new pairing *)
(* ends it.                                                                *)
HalfPaired(d, p) == p \in peers[d] /\ d \notin peers[p] \cup unpaired[p]

PairingHeals == []<>(\A d, p \in Devices : ~HalfPaired(d, p))

(* A share that moves nothing because of an empty list heals: where each   *)
(* has the other, and the peer has the project, a list that names nothing  *)
(* is asked for again (sweep_peer), and the peer grants back (hello).  A   *)
(* list that names the project, or another one, is not asked for again.    *)
Stalled(d, p) ==
    /\ p \in peers[d] /\ d \in peers[p] /\ p \in holds
    /\ entry[d][p].shared /\ Nothing(d, p)

SharingHeals == []<>(\A d, p \in Devices : ~Stalled(d, p))

(* A share that was declined stays declined until a user does something    *)
(* about it ("Make the decline STICK", server.py).                         *)
DeclineSticks ==
    [][\A d, p \in Devices :
          entry[d][p].declined => entry'[d][p].declined \/ gestures' # gestures]_vars

(* An offer the user has said yes to stays so until the project is there   *)
(* or the user says otherwise.                                             *)
AffirmedSticks ==
    [][\A d \in Devices : affirmed[d] \subseteq affirmed'[d]
          \/ gestures' # gestures \/ d \in holds']_vars

(* A pairing gesture of the user here takes the tombstone away             *)
(* ("Cleared by a fresh local pairing gesture", add_unpair_tombstone).     *)
GestureClearsTomb ==
    [][\A d, p \in Devices : Invite(d, p) => p \notin tombs'[d]]_vars

(* The message that a share was taken back clears what this device noted   *)
(* of it (set_their_shared_projects: "which clears both fields").          *)
UnshareClears ==
    [][\A m \in net : m.kind = "unshare" /\ ShareTakenBack(m)
          => LET e == entry'[m.to][m.from] IN e.theirs # "yes" /\ ~e.proven]_vars
=============================================================================
