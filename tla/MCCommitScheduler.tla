-------------------------- MODULE MCCommitScheduler -------------------------
(* Three writes to one project, or one write to each of two projects.      *)
EXTENDS CommitScheduler, TLC

CONSTANTS xx, yy, c1, c2, c3

OneProject == [n \in Calls |-> xx]
TwoProjects == [n \in Calls |-> IF n = c1 THEN xx ELSE yy]

(* With one project, calls are interchangeable.                            *)
CallSymmetry == Permutations(Calls)
=============================================================================
