------------------------------ MODULE TreeOps -------------------------------
(***************************************************************************)
(* What the daemon does to whole trees of files (azt_collabd/repo.py and   *)
(* the dulwich calls it makes), as functions of trees.                     *)
(*                                                                         *)
(* A tree is the set of edits it shows.  An edit is one recording, one     *)
(* field of one LIFT entry, ...; it belongs to one file, a file's content  *)
(* is the set of edits to it, and a file with no edit does not exist.      *)
(* Edits of one file are independent: two users' edits of the same field   *)
(* of the same entry (a LIFT conflict, annotated in the file) are one.     *)
(***************************************************************************)
EXTENDS Naturals

CONSTANTS
    Edits,
    Files,
    FileOf,       \* the file an edit belongs to
    LiftFiles     \* the files merged entry by entry (".lift")

ASSUME FileAssumption == FileOf \in [Edits -> Files] /\ LiftFiles \subseteq Files

Trees == SUBSET Edits

(* The content of one file, and a tree given file by file.                 *)
In(T, f) == {e \in T : FileOf[e] = f}
FromFiles(Content(_)) == {e \in Edits : e \in Content(FileOf[e])}

-----------------------------------------------------------------------------
(* git status and git reset, for the paths git tracks (those in the index) *)

Tracked(index, f) == In(index, f) # {}

Unstaged(index, wt) ==
    {f \in Files : Tracked(index, f) /\ In(wt, f) # In(index, f)}

(* reset --hard: every path the index or the target tree has is made the   *)
(* target's; a path in neither is left alone.                              *)
HardReset(index, wt, target) ==
    FromFiles(LAMBDA f : IF Tracked(index, f) \/ In(target, f) # {}
                         THEN In(target, f) ELSE In(wt, f))

-----------------------------------------------------------------------------
(* lift_merge.three_way_merge, entry by entry: what both sides have, and   *)
(* what either side has added.                                             *)
LiftMerge(base, ours, theirs) ==
    (ours \cap theirs) \cup (ours \ base) \cup (theirs \ base)

(* Both sides have the file, and each has changed it its own way.          *)
BothChanged(base, ours, theirs) ==
    {} \notin {ours, theirs} /\ ours # theirs /\ base \notin {ours, theirs}

(* _merge_diverged for one path.                                           *)
MergeFile(f, base, ours, theirs) ==
    IF f \in LiftFiles /\ BothChanged(base, ours, theirs)
    THEN LiftMerge(base, ours, theirs)
    ELSE IF ours = base \/ (ours = {} /\ theirs # base) THEN theirs ELSE ours

(* The working tree _merge_diverged leaves: it writes or removes a path    *)
(* only when it merged it by entry or when our own commit has it otherwise.*)
MergeIntoTree(wt, base, ours, theirs) ==
    FromFiles(LAMBDA f :
        LET b == In(base, f)  o == In(ours, f)  t == In(theirs, f)
            merged == MergeFile(f, b, o, t)
            untouched == IF merged = {} THEN b \cup o \cup t = {}
                         ELSE merged = o /\ ~(f \in LiftFiles /\ BothChanged(b, o, t))
        IN  IF untouched THEN In(wt, f) ELSE merged)

(* integrate_head_into_working_tree, with base the tree of HEAD's first    *)
(* parent and head the tree of HEAD.                                       *)
Integrate(wt, base, head) ==
    FromFiles(LAMBDA f :
        LET b == In(base, f)  w == In(wt, f)  h == In(head, f) IN
        IF h = b \/ w = h THEN w
        ELSE IF w \in {{}, b} THEN h
        ELSE IF h # {} /\ f \in LiftFiles THEN LiftMerge(b, w, h) ELSE w)

(* reapply_snapshot_after_merge: the saved files over the merged tree.     *)
Reapply(wt, base, snapshot) ==
    FromFiles(LAMBDA f :
        LET s == In(snapshot, f) IN
        IF s = {} THEN In(wt, f)
        ELSE IF f \in LiftFiles THEN LiftMerge(In(base, f), s, In(wt, f)) ELSE s)
=============================================================================
