------------------------------ MODULE MCWanPush -----------------------------
(* Edits of this device, of a peer on the network and of another device.   *)
EXTENDS WanPush

CONSTANTS o1, x1, f1, f2
=============================================================================
