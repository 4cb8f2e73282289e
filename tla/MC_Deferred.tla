----------------------------- MODULE MC_Deferred -----------------------------
(***************************************************************************)
(* A TLC instance of the work queue and the completion: a client above the *)
(* worker and one below it.                                                *)
(***************************************************************************)
EXTENDS Deferred

CONSTANTS high, work, low, idle, x, y

MCPrio == 0..3

MCInitPrio == [t \in Thread |-> CASE t = high -> 0 [] t = work -> 1 [] t = low -> 2 [] OTHER -> 3]

MCDoer == {<<work, "work">>}
=============================================================================
