--------------------------- MODULE AbstractTimer ---------------------------
(***************************************************************************)
(* What timers promise: an armed timer is called back exactly when its     *)
(* ticks have passed, never before and never a tick later, one callback at *)
(* a time, and a timer that is not armed is not called back.  There is no  *)
(* tick counter to overflow and no list to keep in order.                  *)
(***************************************************************************)
EXTENDS Naturals

CONSTANTS
  Timer,
  Delay,      \* the delays in use, in ticks
  None,       \* no timer
  Off         \* a timer that is not armed

VARIABLES
  left,       \* ticks left of each timer, or Off
  calling     \* the timer whose callback runs, or None

Init == left = [t \in Timer |-> Off] /\ calling = None

Arm(t, n) == left' = [left EXCEPT ![t] = n] /\ UNCHANGED calling

Disarm(t) == left' = [left EXCEPT ![t] = Off] /\ UNCHANGED calling

Fire(t) ==
  /\ calling = None /\ left[t] = 0
  /\ left' = [left EXCEPT ![t] = Off]
  /\ calling' = t

\* The callback returns; a periodic timer is armed again.
Return ==
  /\ calling # None
  /\ calling' = None
  /\ \/ UNCHANGED left
     \/ \E n \in Delay : left' = [left EXCEPT ![calling] = n]

\* A tick passes once every timer that was due has been called.
Pass ==
  /\ calling = None
  /\ \A t \in Timer : left[t] # 0
  /\ left' = [t \in Timer |-> IF left[t] = Off THEN Off ELSE left[t] - 1]
  /\ UNCHANGED calling

Next ==
  \/ \E t \in Timer : Disarm(t) \/ Fire(t) \/ \E n \in Delay : Arm(t, n)
  \/ Return
  \/ Pass

Spec == Init /\ [][Next]_<<left, calling>>
=============================================================================
