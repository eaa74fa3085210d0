--------------------------- MODULE MCPeerSharing ----------------------------
(* A phone without the project and a tablet that has it.  The phone shares *)
(* another project with the tablet, so that its list is never empty.       *)
EXTENDS PeerSharing

CONSTANTS phone, tablet

PhoneElsewhere == {<<phone, tablet>>}
=============================================================================
