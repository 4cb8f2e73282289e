----------------------------- MODULE MC_Mailbox -----------------------------
(***************************************************************************)
(* TLC instances of the mailbox: two receivers and three senders, one of   *)
(* each urgent, and the idle thread.                                       *)
(***************************************************************************)
EXTENDS Mailbox

CONSTANTS r1, r2, s1, s2, s3, idle

MCPrio == 0..2

MCInitPrio == [t \in Thread |-> CASE t = idle -> 2 [] t \in {r1, s1} -> 0
                                  [] OTHER -> 1]
=============================================================================
