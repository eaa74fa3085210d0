--------------------------- MODULE MCProjectLock ----------------------------
(* Two processes, one of them with two threads; nesting two deep.          *)
EXTENDS ProjectLock, TLC

CONSTANTS a1, a2, b1, daemon, other

MCThreads == {a1, a2, b1}
MCProcs == {daemon, other}
MCProcOf == a1 :> daemon @@ a2 :> daemon @@ b1 :> other
=============================================================================
