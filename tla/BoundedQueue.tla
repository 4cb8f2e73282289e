---------------------------- MODULE BoundedQueue ----------------------------
(***************************************************************************)
(* What a mailbox promises its users, whatever happens inside: a queue of  *)
(* at most Size values.  A send adds a value at the end, an urgent send at *)
(* the front, a receive hands the receiver the first value and takes it    *)
(* out, a reset empties the queue.  Nothing else changes it: no value is   *)
(* lost, made up, delivered twice or delivered out of order.               *)
(***************************************************************************)
EXTENDS Naturals, Sequences

CONSTANTS
  Value,      \* what can be sent
  Nothing,    \* what a receiver has before its first receive
  Receiver,   \* who receives
  Size        \* capacity

VARIABLES
  queue,      \* the values sent and not received, oldest first
  got         \* the last value each receiver was given

Init == queue = <<>> /\ got = [r \in Receiver |-> Nothing]

Send(v) ==
  /\ Len(queue) < Size
  /\ queue' = Append(queue, v)
  /\ UNCHANGED got

Urgent(v) ==
  /\ Len(queue) < Size
  /\ queue' = <<v>> \o queue
  /\ UNCHANGED got

Receive(r) ==
  /\ queue # <<>>
  /\ got' = [got EXCEPT ![r] = Head(queue)]
  /\ queue' = Tail(queue)

Reset == queue' = <<>> /\ UNCHANGED got

Next ==
  \/ \E v \in Value : Send(v) \/ Urgent(v)
  \/ \E r \in Receiver : Receive(r)
  \/ Reset

Spec == Init /\ [][Next]_<<queue, got>>
=============================================================================
