---------------------------- MODULE MC_Scheduler ----------------------------
(***************************************************************************)
(* TLC instances of the scheduler: the main thread, one or two workers and *)
(* the idle thread, on three priorities of which the idle thread has the   *)
(* lowest.                                                                 *)
(***************************************************************************)
EXTENDS Scheduler

CONSTANTS main, w1, w2, idle

MCPrio == 0..2

\* w2 outranks main and w1, which share a priority.
MCTiered == [t \in Thread |-> CASE t = w2 -> 0 [] t = idle -> 2 [] OTHER -> 1]

\* main, w1 and w2 share a priority.
MCFlat == [t \in Thread |-> IF t = idle THEN 2 ELSE 1]
=============================================================================
