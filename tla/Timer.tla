------------------------------- MODULE Timer -------------------------------
(***************************************************************************)
(* The hard timers of timer.c and the tick that drives them (clock.c).     *)
(*                                                                         *)
(* One list holds the running timers, the next one to expire first.  Ticks *)
(* are unsigned and wrap around.  The clock interrupt counts the tick, and *)
(* rt_timer_check then calls the timers that are due, with interrupts      *)
(* disabled; the callbacks start, stop, change, delete and create timers,  *)
(* their own included, while the check is at work on the list.             *)
(***************************************************************************)
EXTENDS Integers, SequencesExt

CONSTANTS
  Timer,      \* the timer control blocks
  None,       \* no timer
  Off,        \* AbstractTimer: not armed
  TickMax,    \* RT_TICK_MAX
  Delay,      \* the values of init_tick in use for each timer
  Again       \* whether each timer may be periodic, one-shot or both

Modulus == TickMax + 1
Half    == TickMax \div 2

\* rt_timer_init asserts the upper bound.  With a delay of 0 a periodic timer
\* would be due again at once and rt_timer_check would never end.
ASSUME TimerAssumption ==
  /\ TickMax \in Nat \ {0}
  /\ Delay \in [Timer -> (SUBSET (1..Half-1)) \ {{}}]
  /\ Again \in [Timer -> SUBSET BOOLEAN]
  /\ None \notin Timer
  /\ Off \notin Nat

VARIABLES
  tick,       \* rt_tick
  alive,      \* timers between init or create and detach or delete
  active,     \* RT_TIMER_FLAG_ACTIVATED
  periodic,   \* RT_TIMER_FLAG_PERIODIC
  init,       \* init_tick
  expiry,     \* timeout_tick
  list,       \* _timer_list, from the head's next
  phase,      \* where the clock interrupt is: "out", "ticked" or "check"
  firing,     \* the timer whose callback rt_timer_check is calling
  local,      \* that timer is still on rt_timer_check's own list
  started     \* for the properties: running timers in the order of their start

timers == <<alive, active, periodic, init, expiry, list, local, started>>
vars == <<tick, phase, firing, timers>>

TypeOK ==
  /\ tick \in 0..TickMax
  /\ alive \subseteq Timer /\ active \subseteq Timer /\ periodic \subseteq Timer
  /\ \A t \in Timer : init[t] \in Delay[t]
  /\ expiry \in [Timer -> 0..TickMax]
  /\ list \in Seq(Timer) /\ started \in Seq(Timer)
  /\ phase \in {"out", "ticked", "check"}
  /\ firing \in Timer \union {None}
  /\ local \in BOOLEAN

Init ==
  /\ tick \in {0, TickMax - 1}
  /\ alive = {} /\ active = {} /\ periodic = {}
  /\ init = [t \in Timer |-> Min(Delay[t])]
  /\ expiry = [t \in Timer |-> 0]
  /\ list = <<>> /\ started = <<>>
  /\ phase = "out" /\ firing = None /\ local = FALSE

-----------------------------------------------------------------------------
(* Ticks and the list *)

\* Unsigned subtraction.
Minus(a, b) == (a - b) % Modulus

\* Mutant of Before: the ticks are compared as they are.
BeforeUnwrapped(e, f) == e > f

\* Expiry e comes after f: a timer that expires at f goes in front of one that
\* expires at e.
Before(e, f) == Minus(e, f) # 0 /\ Minus(e, f) < Half

\* Mutant of Expired: the comparison misses the timer that is due right now.
ExpiredLate(e) == Minus(tick, e) # 0 /\ Minus(tick, e) < Half

Expired(e) == Minus(tick, e) < Half

\* Mutant of Position: in front of the timers that expire at the same tick.
PositionFirst(s, e) ==
  LET later == {i \in 1..Len(s) : e = expiry[s[i]] \/ Before(expiry[s[i]], e)}
  IN  IF later = {} THEN Len(s) + 1 ELSE Min(later)

\* Where a timer that expires at e goes: in front of the first one that
\* expires after it, and so behind those that expire at the same tick.
Position(s, e) ==
  LET later == {i \in 1..Len(s) : Before(expiry[s[i]], e)}
  IN  IF later = {} THEN Len(s) + 1 ELSE Min(later)

\* Mutant of Removed: a timer that is being called stays where it is.
RemovedFromList(t) ==
  /\ list' = RemoveFirst(list, t)
  /\ UNCHANGED local

\* _timer_remove: off the timer list, or off the list of rt_timer_check.
Removed(t) ==
  /\ list' = RemoveFirst(list, t)
  /\ local' = (local /\ firing # t)

-----------------------------------------------------------------------------
(* What a thread, an interrupt handler or a callback may call.  Interrupts *)
(* are disabled during rt_timer_check, so that then only callbacks call.   *)

MayCall == phase # "check" \/ firing # None

\* rt_timer_init, rt_timer_create
Create(t, d, again) ==
  /\ MayCall /\ t \notin alive
  /\ alive' = alive \union {t}
  /\ active' = active \ {t}
  /\ periodic' = IF again THEN periodic \union {t} ELSE periodic \ {t}
  /\ init' = [init EXCEPT ![t] = d]
  /\ expiry' = [expiry EXCEPT ![t] = 0]
  /\ UNCHANGED <<tick, phase, firing, list, local, started>>

\* Mutant of StartTimer: the timer is due at once.
StartDue(t) ==
  LET rest == RemoveFirst(list, t)
      e    == tick
  IN  /\ expiry' = [expiry EXCEPT ![t] = e]
      /\ list' = InsertAt(rest, Position(rest, e), t)
      /\ local' = (local /\ firing # t)
      /\ active' = active \union {t}
      /\ started' = Append(RemoveFirst(started, t), t)
      /\ UNCHANGED <<tick, phase, alive, periodic, init>>

\* rt_timer_start: from wherever it was to its place in the list.
StartTimer(t) ==
  LET rest == RemoveFirst(list, t)
      e    == (tick + init[t]) % Modulus
  IN  /\ expiry' = [expiry EXCEPT ![t] = e]
      /\ list' = InsertAt(rest, Position(rest, e), t)
      /\ local' = (local /\ firing # t)
      /\ active' = active \union {t}
      /\ started' = Append(RemoveFirst(started, t), t)
      /\ UNCHANGED <<tick, phase, alive, periodic, init>>

Start(t) == MayCall /\ t \in alive /\ StartTimer(t) /\ UNCHANGED firing

\* rt_timer_stop fails for a timer that is not active.
Stop(t) ==
  /\ MayCall /\ t \in alive /\ t \in active
  /\ Removed(t)
  /\ active' = active \ {t}
  /\ started' = RemoveFirst(started, t)
  /\ UNCHANGED <<tick, phase, firing, alive, periodic, init, expiry>>

\* rt_timer_detach, rt_timer_delete
Delete(t) ==
  /\ MayCall /\ t \in alive
  /\ Removed(t)
  /\ alive' = alive \ {t}
  /\ active' = active \ {t}
  /\ started' = RemoveFirst(started, t)
  /\ UNCHANGED <<tick, phase, firing, periodic, init, expiry>>

\* rt_timer_control: SET_TIME, SET_ONESHOT and SET_PERIODIC change a timer for
\* its next start, and leave a running one where it is.
SetTime(t, d) ==
  /\ MayCall /\ t \in alive
  /\ init' = [init EXCEPT ![t] = d]
  /\ UNCHANGED <<tick, phase, firing, alive, active, periodic, expiry, list, local, started>>

SetMode(t, again) ==
  /\ MayCall /\ t \in alive
  /\ periodic' = IF again THEN periodic \union {t} ELSE periodic \ {t}
  /\ UNCHANGED <<tick, phase, firing, alive, active, init, expiry, list, local, started>>

-----------------------------------------------------------------------------
(* The clock interrupt *)

\* rt_tick_increase counts; until rt_timer_check disables interrupts a nested
\* interrupt may still start and stop timers.
TickIncrease ==
  /\ phase = "out"
  /\ tick' = (tick + 1) % Modulus
  /\ phase' = "ticked"
  /\ UNCHANGED <<firing, timers>>

CheckBegin ==
  /\ phase = "ticked"
  /\ phase' = "check"
  /\ UNCHANGED <<tick, firing, timers>>

\* The first timer is due: off the list, a one-shot timer made inactive, its
\* callback called.
Expire(t) ==
  /\ phase = "check" /\ firing = None
  /\ list # <<>> /\ t = Head(list) /\ Expired(expiry[t])
  /\ list' = Tail(list)
  /\ active' = IF t \in periodic THEN active ELSE active \ {t}
  /\ firing' = t /\ local' = TRUE
  /\ started' = RemoveFirst(started, t)
  /\ UNCHANGED <<tick, phase, alive, periodic, init, expiry>>

\* Mutant of Return: the timer is started again whatever its callback did.
ReturnAlwaysRestarts ==
  /\ firing # None
  /\ firing' = None
  /\ IF firing \in periodic THEN StartTimer(firing)
     ELSE local' = FALSE /\ UNCHANGED <<tick, phase, alive, active, periodic, init,
                                        expiry, list, started>>

\* The callback returns.  A timer it took off rt_timer_check's list, to stop,
\* start or delete it, is not touched again; a periodic one starts again.
Return ==
  /\ firing # None
  /\ firing' = None
  /\ IF local /\ firing \in periodic /\ firing \in active
     THEN StartTimer(firing)
     ELSE local' = FALSE /\ UNCHANGED <<tick, phase, alive, active, periodic, init,
                                        expiry, list, started>>

CheckEnd ==
  /\ phase = "check" /\ firing = None
  /\ ~(list # <<>> /\ Expired(expiry[Head(list)]))
  /\ phase' = "out"
  /\ UNCHANGED <<tick, firing, timers>>

Check == CheckBegin \/ CheckEnd \/ Return \/ \E t \in Timer : Expire(t)

Next ==
  \/ \E t \in Timer : Start(t) \/ Stop(t) \/ Delete(t)
  \/ \E t \in Timer : \E d \in Delay[t] : SetTime(t, d)
  \/ \E t \in Timer : \E again \in Again[t] : SetMode(t, again)
  \/ \E t \in Timer : \E d \in Delay[t], again \in Again[t] : Create(t, d, again)
  \/ TickIncrease
  \/ Check

\* An interrupt handler that has begun goes on, and callbacks return.
Spec == Init /\ [][Next]_vars /\ WF_vars(Check)

-----------------------------------------------------------------------------
(* Properties *)

\* Ticks until a timer on the list expires.
Left(t) == Minus(expiry[t], tick)

\* Timers keep their promise although the tick wraps around, although callbacks
\* change the list under rt_timer_check, and although only its head is looked
\* at: a timer on the list is called when its ticks have passed, not before and
\* not after, and a timer that was stopped or deleted is not called.
Promise == INSTANCE AbstractTimer
             WITH left <- [t \in Timer |-> IF t \in ToSet(list) THEN Left(t) ELSE Off],
                  Delay <- UNION {Delay[t] : t \in Timer}, calling <- firing

PromiseKept == Promise!Spec

\* The list is in the order of expiry and, for the same tick, in the order in
\* which the timers were started, across the wrap of the tick.
InOrder ==
  /\ Len(list) = Len(started) /\ ToSet(list) = ToSet(started)
  /\ \A i, j \in 1..Len(list) : i < j =>
       \/ Left(list[i]) < Left(list[j])
       \/ /\ Left(list[i]) = Left(list[j])
          /\ \E a, b \in 1..Len(started) :
               a < b /\ started[a] = list[i] /\ started[b] = list[j]

\* No list reaches a timer that was deleted, and none reaches a timer whose
\* flag says that it does not run, not even while callbacks delete timers.
NoDangling ==
  /\ ToSet(list) \subseteq alive \intersect active
  /\ local => firing \in alive
  /\ firing # None /\ local => firing \notin ToSet(list)

\* rt_timer_check ends and lets the interrupt handler return, whatever the
\* callbacks start.
CheckEnds == phase = "check" ~> phase = "out"
=============================================================================
