----------------------------- MODULE EditSharing ----------------------------
(***************************************************************************)
(* What the sharing of a project promises, whichever way it goes - over    *)
(* the network of the devices, or over the git host - and whatever the     *)
(* pushes, merges and failures.  A place where the project is kept, a      *)
(* device or the host, has only edits that were made, and what is made     *)
(* there is never lost there; what it has from elsewhere may come and go,  *)
(* but in the end all have the same.                                       *)
(***************************************************************************)
CONSTANTS
    Devices,   \* the places where the project is kept
    Own        \* the edits that are made at each of them

VARIABLE view  \* the edits that each of them has on its branch

Made == UNION {view[d] : d \in Devices}

(* Who has an edit has it from the place where it was made, which has it.  *)
Owned == \A d, p \in Devices : view[p] \cap Own[d] \subseteq view[d]

SharingInit ==
    /\ view \in [Devices -> SUBSET UNION {Own[d] : d \in Devices}]
    /\ Owned

(* A place gets new edits of its own, or takes over what was made          *)
(* elsewhere; all of its own stays.                                        *)
Change(d) ==
    \E es \in SUBSET (Made \cup Own[d]) :
        /\ view[d] \cap Own[d] \subseteq es
        /\ view' = [view EXCEPT ![d] = es]

SharingNext == \E d \in Devices : Change(d)

SharingSpec == SharingInit /\ [][SharingNext]_view

Agreed == \A d, p \in Devices : view[d] = view[p]
=============================================================================
