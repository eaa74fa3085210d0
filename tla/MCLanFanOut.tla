---------------------------- MODULE MCLanFanOut -----------------------------
(* A phone and a tablet.  The phone's edits clash with each other; whether *)
(* they do with the tablet's is the configuration's choice.                *)
EXTENDS LanFanOut

CONSTANTS phone, tablet, e1, e2, e3

MCOwn == [d \in Devices |-> IF d = phone THEN {e1, e2} ELSE {e3}]

(* One edit on each side.                                                  *)
OneEach == [d \in Devices |-> IF d = phone THEN {e1} ELSE {e3}]
(* All the edits of S clash: each of them adds an entry, say.              *)
Among(S) == {pair \in S \X S : pair[1] # pair[2]}
OfPhone == Among({e1, e2})
OfBoth == Among({e1, e3})
=============================================================================
