---------------------------- MODULE AbstractHeap ----------------------------
(***************************************************************************)
(* What a heap promises its callers: the regions it has given out lie      *)
(* within its memory and apart from each other, and change one at a time,  *)
(* by a call of the one that holds them.                                   *)
(***************************************************************************)
EXTENDS Naturals

CONSTANTS
  Limit,      \* the memory is 0 .. Limit - 1
  Least       \* bytes kept free in front of each region, for its header

VARIABLE given   \* the regions that are given out: [at, size]

Apart(r, s) == r.at + r.size + Least <= s.at \/ s.at + s.size + Least <= r.at

\* A region that can be given out beside the regions g.
Fits(r, g) ==
  /\ r.size > 0 /\ r.at >= Least /\ r.at + r.size <= Limit
  /\ \A s \in g : Apart(r, s)

Init == given = {}

Give == \E r \in given' : given' = given \union {r} /\ Fits(r, given)

TakeBack == \E r \in given : given' = given \ {r}

\* A region is replaced by another one; while the data is moved both exist.
Resize ==
  \E r \in given, s \in given' :
    /\ given' = (given \ {r}) \union {s}
    /\ \/ s.at = r.at /\ s.size < r.size /\ s.size > 0
       \/ Fits(s, given)

Next == Give \/ TakeBack \/ Resize

Spec == Init /\ [][Next]_given
=============================================================================
