----------------------------- MODULE MC_Objects -----------------------------
(***************************************************************************)
(* A TLC instance of the objects on one kernel: three of them together and *)
(* each of the larger ones alone.                                          *)
(***************************************************************************)
EXTENDS Objects

CONSTANTS t1, t2, idle, b1, b2, byteA, byteB

MCPrio == 0..2

MCInitPrio == [t \in Thread |-> CASE t = idle -> 2 [] t = t1 -> 0 [] t = t2 -> 1]

\* One listener waits for both bits, the other one for either.
MCAsks ==
  [t \in Listener |->
     IF t = t1 THEN {[bits |-> {b1, b2}, option |-> [all |-> TRUE, clear |-> c]] : c \in BOOLEAN}
     ELSE {[bits |-> {b1, b2}, option |-> [all |-> FALSE, clear |-> TRUE]]}]

\* What is written at once: the second does not fit into the ring.
MCText == {<<byteA, byteB>>, <<byteB, byteA, byteA>>}

MCSetups == {{"sem", "event", "pool"}, {"data"}, {"shell"}, {"reader"}, {"queuer"}, {"writer"}}
=============================================================================
