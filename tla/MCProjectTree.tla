--------------------------- MODULE MCProjectTree ----------------------------
(* A LIFT file with an edit from before, one from here and one from a      *)
(* peer; a recording made here and one made by a peer.                     *)
EXTENDS ProjectTree, TLC

CONSTANTS s0, l1, l2, l3, r1, r2, lift, wavL, wavP, w1, w2, watcher

MCEdits == Seed \cup Local \cup Peer
MCFiles == {lift, wavL, wavP}
MCFileOf == [e \in MCEdits |-> CASE e = l2 -> wavL [] e = r2 -> wavP [] OTHER -> lift]
=============================================================================
