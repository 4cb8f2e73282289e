------------------------------- MODULE Lists -------------------------------
(***************************************************************************)
(* A doubly linked list of rtservice.h is the sequence of its nodes from   *)
(* the head's `next'.  A node is embedded in its object, once, so that no  *)
(* list may hold an object twice.                                          *)
(***************************************************************************)
EXTENDS Naturals, SequencesExt

NoRepeat(s) == \A i, j \in 1..Len(s) : s[i] = s[j] => i = j

\* x is somewhere before y.
Precedes(s, x, y) == \E i, j \in 1..Len(s) : i < j /\ s[i] = x /\ s[j] = y
=============================================================================
