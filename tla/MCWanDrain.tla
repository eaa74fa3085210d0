----------------------------- MODULE MCWanDrain -----------------------------
(* One project; a thread for the watcher's drains and the commits, another *)
(* for what a user asks for.                                               *)
EXTENDS WanDrain, TLC

CONSTANTS l1, t1, t2

TheRuns == (t1 :> {"tick", "commit"}) @@ (t2 :> {"nudge", "sync"})
=============================================================================
