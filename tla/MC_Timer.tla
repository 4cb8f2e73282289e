------------------------------ MODULE MC_Timer ------------------------------
(***************************************************************************)
(* A TLC instance of the timers: a periodic one, one that is retuned and   *)
(* one with the longest delay that the comparison of ticks allows, and     *)
(* eight ticks, so that every behaviour wraps around.                      *)
(***************************************************************************)
EXTENDS Timer

CONSTANTS a, b, c

MCDelay == [t \in Timer |-> CASE t = a -> {1} [] t = b -> {1, 2} [] t = c -> {2}]

MCAgain == [t \in Timer |-> CASE t = a -> {TRUE} [] t = b -> BOOLEAN [] t = c -> {FALSE}]
=============================================================================
