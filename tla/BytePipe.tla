------------------------------ MODULE BytePipe ------------------------------
(***************************************************************************)
(* What a serial port promises in one direction: bytes come out in the     *)
(* order in which they went in, each once, and none that did not go in.    *)
(* Only the tail of what is offered may be dropped, and only for want of   *)
(* room.                                                                   *)
(***************************************************************************)
EXTENDS Naturals, Sequences

CONSTANTS
  Chunk,      \* what can be offered at once
  Room        \* bytes the pipe is sure to hold

VARIABLES
  pipe,       \* the bytes on their way, oldest first
  out         \* what was taken out last

Init == pipe = <<>> /\ out = <<>>

Offer(s) ==
  /\ \E n \in 1..Len(s) :
       /\ n = Len(s) \/ Len(pipe) + n = Room
       /\ pipe' = pipe \o SubSeq(s, 1, n)
  /\ UNCHANGED out

Take(n) ==
  /\ out'  = SubSeq(pipe, 1, n)
  /\ pipe' = SubSeq(pipe, n + 1, Len(pipe))

Next == (\E s \in Chunk : Offer(s)) \/ (\E n \in 1..Len(pipe) : Take(n))

Spec == Init /\ [][Next]_<<pipe, out>>
=============================================================================
