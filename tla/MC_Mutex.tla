------------------------------ MODULE MC_Mutex ------------------------------
(***************************************************************************)
(* TLC instances of the mutexes: three threads of different priorities,    *)
(* the idle thread and one or two mutexes.                                 *)
(***************************************************************************)
EXTENDS Mutex

CONSTANTS high, mid, low, idle

MCPrio == 0..3

MCInitPrio == [t \in Thread |-> CASE t = high -> 0 [] t = mid -> 1
                                  [] t = low -> 2 [] OTHER -> 3]
=============================================================================
