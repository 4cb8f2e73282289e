------------------------- MODULE AbstractSemaphore -------------------------
(***************************************************************************)
(* What a semaphore promises: each release makes one token, each           *)
(* successful take uses one up, and none is lost or used twice.  A token   *)
(* is free, or promised to a waiting thread that has not seen it yet.      *)
(***************************************************************************)
EXTENDS Naturals

CONSTANTS
  ValueMax    \* the most free tokens

VARIABLES free, promised

Init == free \in 0..ValueMax /\ promised = 0

Release ==
  \/ free < ValueMax /\ free' = free + 1 /\ UNCHANGED promised
  \/ promised' = promised + 1 /\ UNCHANGED free

Take ==
  \/ free > 0 /\ free' = free - 1 /\ UNCHANGED promised
  \/ promised > 0 /\ promised' = promised - 1 /\ UNCHANGED free

\* A reset leaves the promises that were made before it.
Reset == free' \in 0..ValueMax /\ UNCHANGED promised

Next == Release \/ Take \/ Reset

Spec == Init /\ [][Next]_<<free, promised>>
=============================================================================
