--------------------------- MODULE MC_MessageQueue ---------------------------
(***************************************************************************)
(* A TLC instance of the message queue: an urgent and a patient sender, a  *)
(* receiver between them, and the idle thread.                             *)
(***************************************************************************)
EXTENDS MessageQueue

CONSTANTS r1, s1, s2, idle, m1, m2

MCPrio == 0..2

MCInitPrio == [t \in Thread |-> CASE t = idle -> 2 [] t = s1 -> 0 [] OTHER -> 1]

MCSends == [t \in {s1, s2} |-> IF t = s1 THEN {m1} ELSE {m2}]
=============================================================================
