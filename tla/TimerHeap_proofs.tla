-------------------------- MODULE TimerHeap_proofs --------------------------
(***************************************************************************)
(* Proofs about Timer and SmallMem, the two components that no thread is   *)
(* part of.                                                                *)
(*                                                                         *)
(* Timer: for any set of timers, any delays below half of the range of the *)
(* tick and any RT_TICK_MAX, the list is in order, reaches no deleted      *)
(* timer, and each timer is called exactly when its time has come.         *)
(*                                                                         *)
(* SmallMem: for any size of the heap, any alignment and any sizes asked   *)
(* for, the chain of items stays whole, an allocation finds the room there *)
(* is, and no caller's bytes are touched by a call of another.             *)
(*                                                                         *)
(* Of Kernel_proofs only the facts about lists and the least element of a  *)
(* set are used, nothing about threads.                                    *)
(***************************************************************************)
EXTENDS Timer, SmallMem, Kernel_proofs

-----------------------------------------------------------------------------
(* Ticks *)

LEMMA HalfProperties == Half \in Nat /\ 2 * Half <= TickMax /\ Modulus = TickMax + 1
BY TimerAssumption DEF Half, Modulus

\* Unsigned subtraction wraps once at most.
LEMMA MinusValue ==
  ASSUME NEW a \in 0..TickMax, NEW b \in 0..TickMax
  PROVE  /\ Minus(a, b) = IF a >= b THEN a - b ELSE a - b + Modulus
         /\ Minus(a, b) \in 0..TickMax
BY TimerAssumption DEF Minus, Modulus

\* The comparison of expiries orders those less than half of the range ahead
\* of now by the ticks they have left.
LEMMA BeforeMeansSooner ==
  ASSUME NEW e \in 0..TickMax, NEW f \in 0..TickMax, NEW now \in 0..TickMax,
         Minus(e, now) < Half, Minus(f, now) < Half
  PROVE  Before(e, f) <=> Minus(f, now) < Minus(e, now)
<1>1. /\ Minus(e, f) = IF e >= f THEN e - f ELSE e - f + Modulus
      /\ Minus(e, now) = IF e >= now THEN e - now ELSE e - now + Modulus
      /\ Minus(f, now) = IF f >= now THEN f - now ELSE f - now + Modulus
  BY MinusValue
<1> QED
  BY <1>1, HalfProperties, TimerAssumption DEF Before

\* A timer less than half of the range ahead has expired when no tick is left.
LEMMA ExpiredMeansNoneLeft ==
  ASSUME NEW e \in 0..TickMax, tick \in 0..TickMax, Minus(e, tick) < Half
  PROVE  Expired(e) <=> Minus(e, tick) = 0
<1>1. /\ Minus(e, tick) = IF e >= tick THEN e - tick ELSE e - tick + Modulus
      /\ Minus(tick, e) = IF tick >= e THEN tick - e ELSE tick - e + Modulus
  BY MinusValue
<1> QED
  BY <1>1, HalfProperties, TimerAssumption DEF Expired

\* Starting a timer gives it its delay.
LEMMA StartedLeft ==
  ASSUME NEW now \in 0..TickMax, NEW d \in 0..TickMax
  PROVE  /\ (now + d) % Modulus \in 0..TickMax
         /\ Minus((now + d) % Modulus, now) = d
<1> DEFINE e == (now + d) % Modulus
<1>1. e = IF now + d <= TickMax THEN now + d ELSE now + d - Modulus
  BY TimerAssumption DEF Modulus
<1>2. e \in 0..TickMax
  BY <1>1, TimerAssumption DEF Modulus
<1> HIDE DEF e
<1>3. Minus(e, now) = IF e >= now THEN e - now ELSE e - now + Modulus
  BY <1>2, MinusValue
<1>4. Minus(e, now) = d
  BY <1>1, <1>2, <1>3, TimerAssumption DEF Modulus
<1> QED
  BY <1>2, <1>4 DEF e

\* A tick takes one from what is left.
LEMMA TickLeft ==
  ASSUME NEW e \in 0..TickMax, NEW now \in 0..TickMax, Minus(e, now) > 0
  PROVE  /\ (now + 1) % Modulus \in 0..TickMax
         /\ Minus(e, (now + 1) % Modulus) = Minus(e, now) - 1
<1> DEFINE n == (now + 1) % Modulus
<1>1. n = IF now + 1 <= TickMax THEN now + 1 ELSE 0
  BY TimerAssumption DEF Modulus
<1>2. n \in 0..TickMax
  BY <1>1, TimerAssumption
<1> HIDE DEF n
<1>3. /\ Minus(e, now) = IF e >= now THEN e - now ELSE e - now + Modulus
      /\ Minus(e, n) = IF e >= n THEN e - n ELSE e - n + Modulus
  BY <1>2, MinusValue
<1>4. Minus(e, n) = Minus(e, now) - 1
  BY <1>1, <1>2, <1>3, TimerAssumption DEF Modulus
<1> QED
  BY <1>2, <1>4 DEF n

-----------------------------------------------------------------------------
(* The inductive invariant *)

TypeInv == TypeOK /\ init \in [Timer -> Nat]

\* list and started hold the same timers, each once.
SameTimers ==
  /\ NoRepeat(list) /\ NoRepeat(started)
  /\ Len(list) = Len(started)
  /\ \A x : Contains(list, x) <=> Contains(started, x)

\* x is due before y, or at the same tick and was started before y.
DueFirst(x, y) == Left(x) < Left(y) \/ (Left(x) = Left(y) /\ Precedes(started, x, y))

\* A timer on the list has not been missed, and between two ticks none is due.
Ahead ==
  /\ \A x : Contains(list, x) => Left(x) < Half
  /\ phase = "out" => \A x : Contains(list, x) => Left(x) # 0

Ordered == \A x, y : Precedes(list, x, y) => DueFirst(x, y)

\* What the lists and rt_timer_check reach.
Reached ==
  /\ \A x : Contains(list, x) => x \in alive /\ x \in active
  /\ local => firing # None /\ firing \in alive /\ ~Contains(list, firing)
  /\ firing # None => phase = "check"

TimerInv == TypeInv /\ SameTimers /\ Ahead /\ Ordered /\ Reached

-----------------------------------------------------------------------------
(* Facts about delays and places *)

\* Delays are positive and less than half of the range of the tick.
LEMMA DelayRange ==
  ASSUME NEW t \in Timer, NEW d \in Delay[t]
  PROVE  d \in 1..(Half - 1) /\ d \in 0..TickMax /\ d \in Nat
<1>1. Delay[t] \subseteq 1..(Half - 1)
  BY TimerAssumption
<1> QED
  BY <1>1, HalfProperties, TimerAssumption

\* A list member is a timer.
LEMMA ContainsTimer ==
  ASSUME NEW S, NEW s \in Seq(S), NEW x, Contains(s, x)
  PROVE  x \in S
<1>1. PICK i \in 1..Len(s) : s[i] = x
  BY DEF Contains
<1> QED
  BY <1>1, ElementOfSeq

\* The members that Precedes relates are on the list.
LEMMA PrecedesContains ==
  ASSUME NEW s, NEW x, NEW y, Precedes(s, x, y)
  PROVE  Contains(s, x) /\ Contains(s, y)
BY DEF Precedes, Contains

\* Position is the first place whose timer expires later.
LEMMA PositionProperties ==
  ASSUME NEW s \in Seq(Timer), NEW e
  PROVE  /\ Position(s, e) \in 1..(Len(s) + 1)
         /\ \A j \in 1..(Position(s, e) - 1) : j \in 1..Len(s) /\ ~Before(expiry[s[j]], e)
         /\ Position(s, e) # Len(s) + 1 => Before(expiry[s[Position(s, e)]], e)
<1> DEFINE later == {i \in 1..Len(s) : Before(expiry[s[i]], e)}
           n == Len(s)
<1>1. Position(s, e) = IF later = {} THEN n + 1 ELSE Min(later)
  BY DEF Position
<1>2. n \in Nat
  BY LenProperties
<1>3. \A j \in 1..n : j \in later <=> Before(expiry[s[j]], e)
  OBVIOUS
<1>4. later \in SUBSET (1..n)
  OBVIOUS
<1> HIDE DEF later, n
<1>5. CASE later = {}
  BY <1>1, <1>2, <1>3, <1>5 DEF n
<1>6. CASE later # {}
  <2>1. later \in SUBSET Nat
    BY <1>2, <1>4
  <2>2. Min(later) \in later /\ \A j \in later : Min(later) <= j
    BY <1>6, <2>1, MinProperties
  <2> DEFINE m == Min(later)
  <2>3. Position(s, e) = m
    BY <1>1, <1>6
  <2>4. m \in 1..n
    BY <1>4, <2>2
  <2> HIDE DEF m
  <2>5. \A j \in 1..(m - 1) : j \in 1..n /\ j \notin later
    BY <1>2, <2>2, <2>4 DEF m
  <2> QED BY <1>2, <1>3, <2>2, <2>3, <2>4, <2>5 DEF n, m
<1> QED
  BY <1>5, <1>6

-----------------------------------------------------------------------------
(* What the operations on the list keep *)

\* Taking a timer off the list.
LEMMA RemovedKeeps ==
  ASSUME TypeInv, SameTimers, Ahead, Ordered, NEW t \in Timer,
         list' = RemoveFirst(list, t), started' = RemoveFirst(started, t),
         UNCHANGED <<tick, phase, expiry>>
  PROVE  /\ list' \in Seq(Timer) /\ started' \in Seq(Timer)
         /\ SameTimers' /\ Ahead' /\ Ordered'
         /\ \A x : Contains(list', x) <=> Contains(list, x) /\ x # t
<1>1. list \in Seq(Timer) /\ started \in Seq(Timer) /\ NoRepeat(list) /\ NoRepeat(started)
  BY DEF TypeInv, TypeOK, SameTimers
<1>2. /\ list' \in Seq(Timer) /\ NoRepeat(list')
      /\ \A x : Contains(list', x) <=> Contains(list, x) /\ x # t
  BY <1>1, RemoveFirstProperties
<1>3. /\ started' \in Seq(Timer) /\ NoRepeat(started')
      /\ \A x : Contains(started', x) <=> Contains(started, x) /\ x # t
  BY <1>1, RemoveFirstProperties
<1>4. /\ \A x, y : Precedes(list', x, y) <=> Precedes(list, x, y) /\ x # t /\ y # t
      /\ Len(list') = IF Contains(list, t) THEN Len(list) - 1 ELSE Len(list)
  BY <1>1, RemoveFirstOrder
<1>5. /\ \A x, y : Precedes(started', x, y) <=> Precedes(started, x, y) /\ x # t /\ y # t
      /\ Len(started') = IF Contains(started, t) THEN Len(started) - 1 ELSE Len(started)
  BY <1>1, RemoveFirstOrder
<1>6. \A x : Left(x)' = Left(x)
  BY DEF Left
<1>7. SameTimers'
  BY <1>2, <1>3, <1>4, <1>5 DEF SameTimers
<1>8. Ahead'
  BY <1>2, <1>6 DEF Ahead
<1>9. Ordered'
  BY <1>4, <1>5, <1>6 DEF Ordered, DueFirst
<1> QED
  BY <1>2, <1>3, <1>7, <1>8, <1>9

\* Linking a timer that is due in d ticks, from wherever it was.
LEMMA StartKeeps ==
  ASSUME TypeInv, SameTimers, Ahead, Ordered, NEW t \in Timer, StartTimer(t)
  PROVE  /\ list' \in Seq(Timer) /\ started' \in Seq(Timer)
         /\ expiry' \in [Timer -> 0..TickMax]
         /\ SameTimers' /\ Ahead' /\ Ordered'
         /\ \A x : Contains(list', x) <=> Contains(list, x) \/ x = t
         /\ Left(t)' = init[t]
         /\ \A x \in Timer \ {t} : Left(x)' = Left(x)
<1> DEFINE rest == RemoveFirst(list, t)
           old == RemoveFirst(started, t)
           e == (tick + init[t]) % Modulus
           p == Position(rest, e)
<1>1. /\ list \in Seq(Timer) /\ started \in Seq(Timer) /\ NoRepeat(list) /\ NoRepeat(started)
      /\ tick \in 0..TickMax /\ expiry \in [Timer -> 0..TickMax]
      /\ init[t] \in Delay[t]
  BY DEF TypeInv, TypeOK, SameTimers
<1>2. /\ init[t] \in 1..(Half - 1) /\ init[t] \in 0..TickMax
  BY <1>1, DelayRange
<1>3. e \in 0..TickMax /\ Minus(e, tick) = init[t]
  BY <1>1, <1>2, StartedLeft
<1>4. /\ expiry' = [expiry EXCEPT ![t] = e]
      /\ list' = InsertAt(rest, p, t)
      /\ started' = Append(old, t)
      /\ tick' = tick /\ phase' = phase
  BY DEF StartTimer
<1>5. /\ rest \in Seq(Timer) /\ NoRepeat(rest)
      /\ \A x : Contains(rest, x) <=> Contains(list, x) /\ x # t
  BY <1>1, RemoveFirstProperties
<1>6. /\ old \in Seq(Timer) /\ NoRepeat(old)
      /\ \A x : Contains(old, x) <=> Contains(started, x) /\ x # t
  BY <1>1, RemoveFirstProperties
<1>7. /\ \A x, y : Precedes(rest, x, y) <=> Precedes(list, x, y) /\ x # t /\ y # t
      /\ Len(rest) = IF Contains(list, t) THEN Len(list) - 1 ELSE Len(list)
  BY <1>1, RemoveFirstOrder
<1>8. /\ \A x, y : Precedes(old, x, y) <=> Precedes(started, x, y) /\ x # t /\ y # t
      /\ Len(old) = IF Contains(started, t) THEN Len(started) - 1 ELSE Len(started)
  BY <1>1, RemoveFirstOrder
<1> HIDE DEF rest, old, e
<1>9. /\ p \in 1..(Len(rest) + 1)
      /\ \A j \in 1..(p - 1) : j \in 1..Len(rest) /\ ~Before(expiry[rest[j]], e)
      /\ p # Len(rest) + 1 => Before(expiry[rest[p]], e)
  BY <1>5, PositionProperties
<1> HIDE DEF p
<1>10. /\ list' \in Seq(Timer) /\ Len(list') = Len(rest) + 1
  BY <1>4, <1>5, <1>9, InsertAtProperties
<1>11. /\ \A x : Contains(list', x) <=> Contains(rest, x) \/ x = t
       /\ NoRepeat(rest) /\ ~Contains(rest, t) => NoRepeat(list')
       /\ \A x, y : Precedes(list', x, y) =>
             \/ Precedes(rest, x, y)
             \/ x = t /\ \E j \in p..Len(rest) : rest[j] = y
             \/ y = t /\ \E j \in 1..(p - 1) : rest[j] = x
  BY <1>4, <1>5, <1>9, InsertAtList
<1>12. /\ started' \in Seq(Timer)
       /\ \A x : Contains(started', x) <=> Contains(old, x) \/ x = t
       /\ NoRepeat(old) /\ ~Contains(old, t) => NoRepeat(started')
  BY <1>4, <1>6, AppendList
<1>13. /\ Len(started') = Len(old) + 1
       /\ \A x, y : Precedes(old, x, y) => Precedes(started', x, y)
       /\ \A x : Contains(old, x) => Precedes(started', x, t)
  BY <1>4, <1>6, AppendOrder
<1>14. expiry' \in [Timer -> 0..TickMax] /\ expiry'[t] = e
  BY <1>1, <1>3, <1>4
<1>15. Left(t)' = init[t]
  BY <1>3, <1>4, <1>14 DEF Left
<1>16. ASSUME NEW x \in Timer \ {t} PROVE Left(x)' = Left(x)
  <2>1. expiry'[x] = expiry[x]
    BY <1>1, <1>4
  <2> QED BY <1>4, <2>1 DEF Left
<1>17. \A x : Contains(list', x) <=> Contains(list, x) \/ x = t
  BY <1>5, <1>11
<1>18. SameTimers'
  BY <1>5, <1>6, <1>7, <1>8, <1>10, <1>11, <1>12, <1>13 DEF SameTimers
<1>19. Ahead'
  <2>1. init[t] < Half /\ init[t] # 0
    BY <1>2, HalfProperties
  <2>2. \A x : Contains(list', x) => x \in Timer
    BY <1>10, ContainsTimer
  <2> QED BY <1>4, <1>15, <1>16, <1>17, <2>1, <2>2 DEF Ahead
<1>20. ASSUME NEW x, Contains(rest, x)
       PROVE  /\ x \in Timer /\ x # t /\ Left(x) \in Nat /\ Left(x)' = Left(x)
              /\ Contains(old, x)
              /\ Before(expiry[x], e) <=> init[t] < Left(x)
  <2>1. x \in Timer /\ x # t /\ Contains(list, x)
    BY <1>1, <1>5, <1>20, ContainsTimer
  <2>2. expiry[x] \in 0..TickMax
    BY <1>1, <2>1
  <2>3. Left(x) \in Nat /\ Minus(expiry[x], tick) = Left(x)
    <3>1. Minus(expiry[x], tick) \in 0..TickMax
      BY <1>1, <2>2, MinusValue
    <3> QED BY <3>1 DEF Left
  <2>4. Left(x) < Half /\ init[t] < Half
    BY <1>2, <2>1, HalfProperties DEF Ahead
  <2>5. Before(expiry[x], e) <=> init[t] < Left(x)
    BY <1>1, <1>3, <2>2, <2>3, <2>4, BeforeMeansSooner
  <2>6. Contains(old, x)
    BY <1>6, <2>1 DEF SameTimers
  <2> QED BY <1>16, <2>1, <2>3, <2>5, <2>6
<1>21. Len(rest) \in Nat
  BY <1>5, LenProperties
<1>22. ASSUME NEW x, NEW y, Precedes(list', x, y)
       PROVE  DueFirst(x, y)'
  <2>1. CASE Precedes(rest, x, y)
    <3>1. Contains(rest, x) /\ Contains(rest, y)
      BY <2>1, PrecedesContains
    <3>2. DueFirst(x, y) /\ x # t /\ y # t
      BY <1>7, <2>1 DEF Ordered
    <3>3. Precedes(started, x, y) => Precedes(started', x, y)
      BY <1>8, <1>13, <3>2
    <3> QED BY <1>20, <3>1, <3>2, <3>3 DEF DueFirst
  <2>2. CASE x = t /\ \E j \in p..Len(rest) : rest[j] = y
    <3>1. PICK j \in p..Len(rest) : rest[j] = y
      BY <2>2
    <3>2. p \in 1..Len(rest) /\ j \in 1..Len(rest) /\ p # Len(rest) + 1
      BY <1>9, <1>21, <3>1
    <3>3. Contains(rest, rest[p]) /\ Contains(rest, y)
      BY <3>1, <3>2 DEF Contains
    <3>4. init[t] < Left(rest[p])
      BY <1>9, <1>20, <3>2, <3>3
    <3>5. Left(rest[p]) <= Left(y)
      <4>1. CASE j = p
        BY <1>20, <3>1, <3>3, <4>1
      <4>2. CASE j # p
        <5>1. p < j
          BY <3>1, <3>2, <4>2
        <5>2. Precedes(rest, rest[p], y)
          BY <3>1, <3>2, <5>1 DEF Precedes
        <5>3. DueFirst(rest[p], y)
          BY <1>7, <5>2 DEF Ordered
        <5> QED BY <1>20, <3>3, <5>3 DEF DueFirst
      <4> QED BY <4>1, <4>2
    <3>6. Left(t)' < Left(y)'
      BY <1>2, <1>15, <1>20, <3>3, <3>4, <3>5
    <3> QED BY <2>2, <3>6 DEF DueFirst
  <2>3. CASE y = t /\ \E j \in 1..(p - 1) : rest[j] = x
    <3>1. PICK j \in 1..(p - 1) : rest[j] = x
      BY <2>3
    <3>2. Contains(rest, x) /\ ~Before(expiry[x], e)
      BY <1>9, <3>1 DEF Contains
    <3>3. Left(x)' <= Left(t)'
      BY <1>2, <1>15, <1>20, <3>2
    <3>4. Precedes(started', x, t)
      BY <1>13, <1>20, <3>2
    <3>5. Left(x)' \in Nat /\ Left(t)' \in Nat
      BY <1>2, <1>15, <1>20, <3>2
    <3> QED BY <2>3, <3>3, <3>4, <3>5 DEF DueFirst
  <2> QED BY <1>11, <1>22, <2>1, <2>2, <2>3
<1>23. Ordered'
  BY <1>22 DEF Ordered
<1> QED
  BY <1>10, <1>12, <1>14, <1>15, <1>16, <1>17, <1>18, <1>19, <1>23

\* A step that leaves the list and the expiry of the timers on it.
LEMMA QuietKeeps ==
  ASSUME SameTimers, Ahead, Ordered,
         UNCHANGED <<list, started, tick>>,
         \A x : Contains(list, x) => expiry'[x] = expiry[x],
         phase' = "out" => phase = "out" \/ \A x : Contains(list, x) => Left(x) # 0
  PROVE  SameTimers' /\ Ahead' /\ Ordered'
<1>1. \A x : Contains(list, x) => Left(x)' = Left(x)
  BY DEF Left
<1>2. SameTimers'
  BY DEF SameTimers
<1>3. Ahead'
  BY <1>1 DEF Ahead
<1>4. Ordered'
  <2> SUFFICES ASSUME NEW x, NEW y, Precedes(list, x, y) PROVE DueFirst(x, y)'
    BY DEF Ordered
  <2>1. Contains(list, x) /\ Contains(list, y)
    BY PrecedesContains
  <2> QED BY <1>1, <2>1 DEF Ordered, DueFirst
<1> QED
  BY <1>2, <1>3, <1>4

-----------------------------------------------------------------------------
(* One lemma per action. *)

\* The scheduler starts with no timer.
LEMMA InitInv == Init => TimerInv
<1> SUFFICES ASSUME Init PROVE TimerInv
  OBVIOUS
<1>1. \A t \in Timer : init[t] \in Delay[t]
  <2> SUFFICES ASSUME NEW t \in Timer PROVE init[t] \in Delay[t]
    OBVIOUS
  <2>1. Delay[t] \subseteq 1..(Half - 1) /\ Delay[t] # {}
    BY TimerAssumption
  <2>2. Delay[t] \in SUBSET Nat
    BY <2>1, HalfProperties
  <2>3. Min(Delay[t]) \in Delay[t]
    BY <2>1, <2>2, MinProperties
  <2>4. init[t] = Min(Delay[t])
    BY DEF Init
  <2> QED BY <2>3, <2>4
<1>2. init \in [Timer -> Nat]
  <2>1. \A t \in Timer : init[t] \in Nat
    BY <1>1, DelayRange
  <2>2. init = [t \in Timer |-> Min(Delay[t])]
    BY DEF Init
  <2>3. DOMAIN init = Timer /\ init = [t \in Timer |-> init[t]]
    BY <2>2
  <2> QED BY <2>1, <2>3
<1>3. tick \in 0..TickMax /\ expiry \in [Timer -> 0..TickMax]
  BY TimerAssumption DEF Init
<1>4. /\ list = <<>> /\ started = <<>> /\ list \in Seq(Timer) /\ started \in Seq(Timer)
      /\ \A x : ~Contains(list, x)
  BY EmptySeq DEF Init, Contains
<1>5. TypeInv
  <2>1. /\ alive = {} /\ active = {} /\ periodic = {}
        /\ phase = "out" /\ firing = None /\ local = FALSE
    BY DEF Init
  <2> QED BY <1>1, <1>2, <1>3, <1>4, <2>1 DEF TypeInv, TypeOK
<1>6. SameTimers
  BY <1>4, EmptySeq DEF SameTimers, NoRepeat
<1>7. Ahead /\ Ordered
  BY <1>4, PrecedesContains DEF Ahead, Ordered
<1>8. Reached
  BY <1>4, TimerAssumption DEF Init, Reached
<1> QED
  BY <1>5, <1>6, <1>7, <1>8 DEF TimerInv

\* A new timer is on no list.
LEMMA StepCreate ==
  ASSUME TimerInv, NEW t \in Timer, NEW d \in Delay[t], NEW again \in Again[t],
         Create(t, d, again)
  PROVE  TimerInv'
<1>1. TypeInv'
  BY DelayRange, TimerAssumption DEF TimerInv, TypeInv, TypeOK, Create
<1>2. SameTimers' /\ Ahead' /\ Ordered'
  <2>1. \A x : Contains(list, x) => expiry'[x] = expiry[x]
    BY ContainsTimer DEF TimerInv, TypeInv, TypeOK, Reached, Create
  <2> QED BY <2>1, QuietKeeps DEF TimerInv, Create
<1>3. Reached'
  BY DEF TimerInv, Reached, Create
<1> QED
  BY <1>1, <1>2, <1>3 DEF TimerInv

\* A started timer is active, and off the list of rt_timer_check.
LEMMA StepStart ==
  ASSUME TimerInv, NEW t \in Timer, Start(t)
  PROVE  TimerInv'
<1>1. TypeInv /\ SameTimers /\ Ahead /\ Ordered /\ Reached /\ StartTimer(t)
  BY DEF TimerInv, Start
<1>2. /\ list' \in Seq(Timer) /\ started' \in Seq(Timer)
      /\ expiry' \in [Timer -> 0..TickMax]
      /\ SameTimers' /\ Ahead' /\ Ordered'
      /\ \A x : Contains(list', x) <=> Contains(list, x) \/ x = t
  BY <1>1, StartKeeps
<1>3. TypeInv'
  BY <1>1, <1>2 DEF TypeInv, TypeOK, Start, StartTimer
<1>4. Reached'
  BY <1>1, <1>2 DEF Reached, Start, StartTimer
<1> QED
  BY <1>2, <1>3, <1>4 DEF TimerInv

\* A timer that is stopped or deleted leaves both lists.
LEMMA StepStopDelete ==
  ASSUME TimerInv, NEW t \in Timer, Stop(t) \/ Delete(t)
  PROVE  TimerInv'
<1>1. /\ TypeInv /\ SameTimers /\ Ahead /\ Ordered /\ Reached
      /\ list' = RemoveFirst(list, t) /\ started' = RemoveFirst(started, t)
      /\ local' = (local /\ firing # t)
      /\ UNCHANGED <<tick, phase, expiry, firing, periodic, init>>
      /\ active' = active \ {t} /\ (alive' = alive \/ alive' = alive \ {t})
  BY DEF TimerInv, Stop, Delete, Removed
<1>2. /\ list' \in Seq(Timer) /\ started' \in Seq(Timer)
      /\ SameTimers' /\ Ahead' /\ Ordered'
      /\ \A x : Contains(list', x) <=> Contains(list, x) /\ x # t
  BY <1>1, RemovedKeeps
<1>3. TypeInv'
  BY <1>1, <1>2 DEF TypeInv, TypeOK
<1>4. Reached'
  BY <1>1, <1>2 DEF Reached
<1> QED
  BY <1>2, <1>3, <1>4 DEF TimerInv

\* A change of the delay or the mode shows at the next start.
LEMMA StepControl ==
  ASSUME TimerInv, NEW t \in Timer,
         \/ \E d \in Delay[t] : SetTime(t, d)
         \/ \E again \in Again[t] : SetMode(t, again)
  PROVE  TimerInv'
<1>1. UNCHANGED <<tick, phase, firing, alive, active, expiry, list, local, started>>
  BY DEF SetTime, SetMode
<1>2. TypeInv'
  BY DelayRange, <1>1 DEF TimerInv, TypeInv, TypeOK, SetTime, SetMode
<1>3. SameTimers' /\ Ahead' /\ Ordered'
  BY <1>1, QuietKeeps DEF TimerInv
<1>4. Reached'
  BY <1>1 DEF TimerInv, Reached
<1> QED
  BY <1>2, <1>3, <1>4 DEF TimerInv

\* Between two ticks no timer is due, so that a tick leaves none behind.
LEMMA StepTickIncrease ==
  ASSUME TimerInv, TickIncrease
  PROVE  /\ TimerInv'
         /\ \A x : Contains(list, x) => Left(x) # 0 /\ Left(x)' = Left(x) - 1
<1>1. /\ TypeInv /\ SameTimers /\ Ahead /\ Ordered /\ Reached
      /\ phase = "out" /\ phase' = "ticked" /\ tick' = (tick + 1) % Modulus
      /\ UNCHANGED <<firing, alive, active, periodic, init, expiry, list, local, started>>
  BY DEF TimerInv, TickIncrease, timers
<1>2. ASSUME NEW x, Contains(list, x)
      PROVE  Left(x) \in Nat /\ Left(x) # 0 /\ Left(x)' = Left(x) - 1
  <2>1. tick \in 0..TickMax /\ expiry[x] \in 0..TickMax
    BY <1>1, <1>2, ContainsTimer DEF TypeInv, TypeOK
  <2>2. Minus(expiry[x], tick) \in 0..TickMax
    BY <2>1, MinusValue
  <2>3. Left(x) # 0 /\ Left(x) = Minus(expiry[x], tick)
    BY <1>1, <1>2 DEF Ahead, Left
  <2>4. Minus(expiry[x], tick) > 0
    BY <2>2, <2>3, TimerAssumption
  <2>5. Minus(expiry[x], (tick + 1) % Modulus) = Minus(expiry[x], tick) - 1
    BY <2>1, <2>4, TickLeft
  <2>6. Left(x)' = Minus(expiry[x], (tick + 1) % Modulus)
    BY <1>1 DEF Left
  <2>7. Left(x) \in Nat
    BY <2>2, <2>3, TimerAssumption
  <2> QED BY <2>3, <2>5, <2>6, <2>7
<1>3. tick' \in 0..TickMax
  BY <1>1, TimerAssumption DEF TypeInv, TypeOK, Modulus
<1>4. TypeInv'
  BY <1>1, <1>3 DEF TypeInv, TypeOK
<1>5. SameTimers'
  BY <1>1 DEF SameTimers
<1>6. Ahead'
  BY <1>1, <1>2, HalfProperties DEF Ahead
<1>7. Ordered'
  <2> SUFFICES ASSUME NEW x, NEW y, Precedes(list, x, y) PROVE DueFirst(x, y)'
    BY <1>1 DEF Ordered
  <2>1. Contains(list, x) /\ Contains(list, y) /\ DueFirst(x, y)
    BY <1>1, PrecedesContains DEF Ordered
  <2> QED BY <1>1, <1>2, <2>1 DEF DueFirst
<1>8. Reached'
  BY <1>1 DEF Reached
<1> QED
  BY <1>2, <1>4, <1>5, <1>6, <1>7, <1>8 DEF TimerInv

\* rt_timer_check begins with interrupts disabled from here on.
LEMMA StepCheckBegin ==
  ASSUME TimerInv, CheckBegin
  PROVE  TimerInv'
<1>1. /\ phase = "ticked" /\ phase' = "check"
      /\ UNCHANGED <<tick, firing, alive, active, periodic, init, expiry, list, local, started>>
  BY DEF CheckBegin, timers
<1>2. SameTimers' /\ Ahead' /\ Ordered'
  BY <1>1, QuietKeeps DEF TimerInv
<1>3. TypeInv' /\ Reached'
  BY <1>1 DEF TimerInv, TypeInv, TypeOK, Reached
<1> QED
  BY <1>2, <1>3 DEF TimerInv

\* When the first timer is not due, none is.
LEMMA StepCheckEnd ==
  ASSUME TimerInv, CheckEnd
  PROVE  TimerInv'
<1>1. /\ TypeInv /\ SameTimers /\ Ahead /\ Ordered /\ Reached
      /\ phase' = "out" /\ firing = None
      /\ list = <<>> \/ ~Expired(expiry[Head(list)])
      /\ UNCHANGED <<tick, firing, alive, active, periodic, init, expiry, list, local, started>>
  BY DEF TimerInv, CheckEnd, timers
<1>2. /\ list \in Seq(Timer) /\ NoRepeat(list)
      /\ tick \in 0..TickMax /\ expiry \in [Timer -> 0..TickMax]
  BY <1>1 DEF TypeInv, TypeOK, SameTimers
<1>3. ASSUME NEW x, Contains(list, x) PROVE Left(x) # 0
  <2>1. list # <<>>
    BY <1>2, <1>3, HeadList
  <2> DEFINE h == Head(list)
  <2>2. h \in Timer /\ Contains(list, h)
    BY <1>2, <2>1, HeadList
  <2>3. x \in Timer
    BY <1>2, <1>3, ContainsTimer
  <2> HIDE DEF h
  <2>4. Left(h) < Half
    BY <1>1, <2>2 DEF Ahead
  <2>5. Minus(expiry[h], tick) \in 0..TickMax /\ Minus(expiry[x], tick) \in 0..TickMax
    BY <1>2, <2>2, <2>3, MinusValue
  <2>6. Left(h) \in Nat /\ Left(x) \in Nat
    BY <2>5 DEF Left
  <2>7. ~Expired(expiry[h])
    BY <1>1, <2>1 DEF h
  <2>8. Left(h) # 0
    BY <1>2, <2>2, <2>4, <2>7, ExpiredMeansNoneLeft DEF Left
  <2>9. x = h \/ Precedes(list, h, x)
    BY <1>2, <1>3, <2>1, TailList DEF h
  <2>10. x = h \/ DueFirst(h, x)
    BY <1>1, <2>9 DEF Ordered
  <2> QED BY <2>6, <2>8, <2>10 DEF DueFirst
<1>4. SameTimers' /\ Ahead' /\ Ordered'
  BY <1>1, <1>3, QuietKeeps
<1>5. TypeInv' /\ Reached'
  BY <1>1 DEF TypeInv, TypeOK, Reached
<1> QED
  BY <1>4, <1>5 DEF TimerInv

\* The timer that is called has no tick left, and leaves the list.
LEMMA StepExpire ==
  ASSUME TimerInv, NEW t \in Timer, Expire(t)
  PROVE  /\ TimerInv'
         /\ Contains(list, t) /\ Left(t) = 0
         /\ \A x : Contains(list', x) <=> Contains(list, x) /\ x # t
<1>1. /\ TypeInv /\ SameTimers /\ Ahead /\ Ordered /\ Reached
      /\ phase = "check" /\ firing = None
      /\ list # <<>> /\ t = Head(list) /\ Expired(expiry[t])
      /\ list' = Tail(list) /\ started' = RemoveFirst(started, t)
      /\ active' = (IF t \in periodic THEN active ELSE active \ {t})
      /\ firing' = t /\ local' = TRUE
      /\ UNCHANGED <<tick, phase, alive, periodic, init, expiry>>
  BY DEF TimerInv, Expire
<1>2. /\ list \in Seq(Timer) /\ NoRepeat(list) /\ started \in Seq(Timer) /\ NoRepeat(started)
      /\ tick \in 0..TickMax /\ expiry \in [Timer -> 0..TickMax]
  BY <1>1 DEF TypeInv, TypeOK, SameTimers
<1>3. Contains(list, t)
  BY <1>1, <1>2, HeadList
<1>4. Left(t) = 0
  BY <1>1, <1>2, <1>3, ExpiredMeansNoneLeft DEF Ahead, Left
<1>5. /\ list' \in Seq(Timer) /\ NoRepeat(list') /\ Len(list') = Len(list) - 1
      /\ \A x : Contains(list', x) <=> Contains(list, x) /\ x # t
      /\ \A x, y : Precedes(list', x, y) => Precedes(list, x, y)
  BY <1>1, <1>2, TailList
<1>6. /\ started' \in Seq(Timer) /\ NoRepeat(started')
      /\ \A x : Contains(started', x) <=> Contains(started, x) /\ x # t
  BY <1>1, <1>2, RemoveFirstProperties
<1>7. /\ \A x, y : Precedes(started', x, y) <=> Precedes(started, x, y) /\ x # t /\ y # t
      /\ Len(started') = IF Contains(started, t) THEN Len(started) - 1 ELSE Len(started)
  BY <1>1, <1>2, RemoveFirstOrder
<1>8. \A x : Left(x)' = Left(x)
  BY <1>1 DEF Left
<1>9. SameTimers'
  BY <1>1, <1>3, <1>5, <1>6, <1>7 DEF SameTimers
<1>10. Ahead'
  BY <1>1, <1>5, <1>8 DEF Ahead
<1>11. Ordered'
  <2> SUFFICES ASSUME NEW x, NEW y, Precedes(list', x, y) PROVE DueFirst(x, y)'
    BY DEF Ordered
  <2>1. x # t /\ y # t
    BY <1>5, PrecedesContains
  <2>2. DueFirst(x, y)
    BY <1>1, <1>5 DEF Ordered
  <2> QED BY <1>7, <1>8, <2>1, <2>2 DEF DueFirst
<1>12. TypeInv'
  BY <1>1, <1>5, <1>6 DEF TypeInv, TypeOK
<1>13. Reached'
  BY <1>1, <1>3, <1>5, TimerAssumption DEF Reached
<1> QED
  BY <1>3, <1>4, <1>5, <1>9, <1>10, <1>11, <1>12, <1>13 DEF TimerInv

\* A periodic timer that its callback has left alone starts again.
LEMMA StepReturn ==
  ASSUME TimerInv, Return
  PROVE  TimerInv'
<1>1. TypeInv /\ SameTimers /\ Ahead /\ Ordered /\ Reached /\ firing # None /\ firing' = None
  BY DEF TimerInv, Return
<1>2. firing \in Timer
  BY <1>1 DEF TypeInv, TypeOK
<1>3. CASE local /\ firing \in periodic /\ firing \in active
  <2>1. StartTimer(firing)
    BY <1>3 DEF Return
  <2>2. /\ list' \in Seq(Timer) /\ started' \in Seq(Timer)
        /\ expiry' \in [Timer -> 0..TickMax]
        /\ SameTimers' /\ Ahead' /\ Ordered'
        /\ \A x : Contains(list', x) <=> Contains(list, x) \/ x = firing
    BY <1>1, <1>2, <2>1, StartKeeps
  <2>3. /\ local' = FALSE /\ active' = active \union {firing}
        /\ UNCHANGED <<tick, phase, alive, periodic, init>>
    BY <2>1 DEF StartTimer
  <2>4. TypeInv'
    BY <1>1, <1>2, <2>2, <2>3 DEF TypeInv, TypeOK
  <2>5. Reached'
    BY <1>1, <1>3, <2>2, <2>3 DEF Reached
  <2> QED BY <2>2, <2>4, <2>5 DEF TimerInv
<1>4. CASE ~(local /\ firing \in periodic /\ firing \in active)
  <2>1. /\ local' = FALSE
        /\ UNCHANGED <<tick, phase, alive, active, periodic, init, expiry, list, started>>
    BY <1>4 DEF Return
  <2>2. SameTimers' /\ Ahead' /\ Ordered'
    BY <1>1, <2>1, QuietKeeps
  <2>3. TypeInv' /\ Reached'
    BY <1>1, <2>1 DEF TypeInv, TypeOK, Reached
  <2> QED BY <2>2, <2>3 DEF TimerInv
<1> QED
  BY <1>3, <1>4

\* A step that changes nothing.
LEMMA StepStutter ==
  ASSUME TimerInv, UNCHANGED vars
  PROVE  TimerInv'
<1>1. UNCHANGED <<tick, phase, firing, alive, active, periodic, init, expiry, list, local, started>>
  BY DEF vars, timers
<1>2. SameTimers' /\ Ahead' /\ Ordered'
  BY <1>1, QuietKeeps DEF TimerInv
<1>3. TypeInv' /\ Reached'
  BY <1>1 DEF TimerInv, TypeInv, TypeOK, Reached
<1> QED
  BY <1>2, <1>3 DEF TimerInv

\* Every step keeps the invariant.
LEMMA NextInv ==
  ASSUME TimerInv, [Next]_vars
  PROVE  TimerInv'
<1>1. CASE \E t \in Timer : Start(t) \/ Stop(t) \/ Delete(t)
  BY <1>1, StepStart, StepStopDelete
<1>2. CASE \E t \in Timer : \E d \in Delay[t] : SetTime(t, d)
  BY <1>2, StepControl
<1>3. CASE \E t \in Timer : \E again \in Again[t] : SetMode(t, again)
  BY <1>3, StepControl
<1>4. CASE \E t \in Timer : \E d \in Delay[t], again \in Again[t] : Create(t, d, again)
  BY <1>4, StepCreate
<1>5. CASE TickIncrease
  BY <1>5, StepTickIncrease
<1>6. CASE Check
  BY <1>6, StepCheckBegin, StepCheckEnd, StepReturn, StepExpire DEF Check
<1>7. CASE UNCHANGED vars
  BY <1>7, StepStutter
<1> QED
  BY <1>1, <1>2, <1>3, <1>4, <1>5, <1>6, <1>7 DEF Next

\* The invariant holds in every reachable state of timer.c and its clock.
THEOREM Invariance == Spec => []TimerInv
<1>1. Init => TimerInv
  BY InitInv
<1>2. TimerInv /\ [Next]_vars => TimerInv'
  BY NextInv
<1> QED
  BY <1>1, <1>2, PTL DEF Spec

\* ToSet and Contains say the same.
LEMMA ToSetContains ==
  ASSUME NEW S, NEW s \in Seq(S)
  PROVE  \A x : x \in ToSet(s) <=> Contains(s, x)
<1>1. DOMAIN s = 1..Len(s)
  OBVIOUS
<1> QED
  BY <1>1 DEF ToSet, Contains

\* The fields keep their types, and ticks their range, when ticks wrap.
THEOREM TypeCorrect == Spec => []TypeOK
<1>1. TimerInv => TypeOK
  BY DEF TimerInv, TypeInv
<1> QED
  BY <1>1, Invariance, PTL

\* No list reaches a deleted or an inactive timer, whatever callbacks delete.
THEOREM NothingDangles == Spec => []NoDangling
<1>1. TimerInv => NoDangling
  <2> SUFFICES ASSUME TimerInv PROVE NoDangling
    OBVIOUS
  <2>1. list \in Seq(Timer) /\ Reached
    BY DEF TimerInv, TypeInv, TypeOK
  <2>2. \A x : x \in ToSet(list) <=> Contains(list, x)
    BY <2>1, ToSetContains
  <2> QED BY <2>1, <2>2 DEF NoDangling, Reached
<1> QED
  BY <1>1, Invariance, PTL

\* The list is in the order of expiry, and of start for the same tick, for
\* every range of the tick, across its wrap.
THEOREM KeptInOrder == Spec => []InOrder
<1>1. TimerInv => InOrder
  <2> SUFFICES ASSUME TimerInv PROVE InOrder
    OBVIOUS
  <2>1. /\ list \in Seq(Timer) /\ started \in Seq(Timer) /\ SameTimers /\ Ordered
    BY DEF TimerInv, TypeInv, TypeOK
  <2>2. ToSet(list) = ToSet(started)
    BY <2>1, ToSetContains DEF SameTimers
  <2>3. ASSUME NEW i \in 1..Len(list), NEW j \in 1..Len(list), i < j
        PROVE  \/ Left(list[i]) < Left(list[j])
               \/ /\ Left(list[i]) = Left(list[j])
                  /\ \E a, b \in 1..Len(started) :
                       a < b /\ started[a] = list[i] /\ started[b] = list[j]
    <3>1. Precedes(list, list[i], list[j])
      BY <2>3 DEF Precedes
    <3>2. DueFirst(list[i], list[j])
      BY <2>1, <3>1 DEF Ordered
    <3> QED BY <3>2 DEF DueFirst, Precedes
  <2> QED BY <2>1, <2>2, <2>3 DEF InOrder, SameTimers
<1> QED
  BY <1>1, Invariance, PTL

-----------------------------------------------------------------------------
(* The timers implement AbstractTimer. *)

\* The ticks that each timer has left, as AbstractTimer sees them.
LeftMap == [t \in Timer |-> IF t \in ToSet(list) THEN Left(t) ELSE Off]

PromiseStep == Promise!Next \/ UNCHANGED <<LeftMap, firing>>

\* LeftMap in the words of the invariant.
LEMMA LeftMapValue ==
  ASSUME TimerInv
  PROVE  /\ LeftMap \in [Timer -> Nat \union {Off}]
         /\ \A t \in Timer : LeftMap[t] = IF Contains(list, t) THEN Left(t) ELSE Off
         /\ \A t \in Timer : Left(t) \in Nat
<1>1. /\ list \in Seq(Timer) /\ tick \in 0..TickMax /\ expiry \in [Timer -> 0..TickMax]
  BY DEF TimerInv, TypeInv, TypeOK
<1>2. \A t \in Timer : t \in ToSet(list) <=> Contains(list, t)
  BY <1>1, ToSetContains
<1>3. ASSUME NEW t \in Timer PROVE Left(t) \in Nat
  <2>1. Minus(expiry[t], tick) \in 0..TickMax
    BY <1>1, MinusValue
  <2> QED BY <2>1 DEF Left
<1> QED
  BY <1>2, <1>3 DEF LeftMap

\* LeftMap changes as the membership and the ticks left do.
LEMMA LeftMapStep ==
  ASSUME TimerInv, TimerInv', NEW m,
         m \in [Timer -> Nat \union {Off}],
         \A t \in Timer : m[t] = IF Contains(list', t) THEN Left(t)' ELSE Off
  PROVE  LeftMap' = m
<1>1. list' \in Seq(Timer)
  BY DEF TimerInv, TypeInv, TypeOK
<1>2. \A t \in Timer : t \in ToSet(list') <=> Contains(list', t)
  BY <1>1, ToSetContains
<1>3. LeftMap' = [t \in Timer |-> IF t \in ToSet(list') THEN Left(t)' ELSE Off]
  BY DEF LeftMap
<1>4. \A t \in Timer : LeftMap'[t] = m[t]
  BY <1>2, <1>3
<1> QED
  BY <1>3, <1>4

\* Steps that change neither the list nor the timers on it.
LEMMA QuietPromise ==
  ASSUME TimerInv, TimerInv', UNCHANGED <<list, tick, firing>>,
         \A x : Contains(list, x) => expiry'[x] = expiry[x]
  PROVE  PromiseStep
<1>1. \A t \in Timer : Contains(list, t) => Left(t)' = Left(t)
  BY DEF Left
<1>2. /\ LeftMap \in [Timer -> Nat \union {Off}]
      /\ \A t \in Timer : LeftMap[t] = IF Contains(list', t) THEN Left(t)' ELSE Off
  BY <1>1, LeftMapValue
<1>3. LeftMap' = LeftMap
  BY <1>2, LeftMapStep
<1> QED
  BY <1>3 DEF PromiseStep

\* Starting a timer arms it with its delay.
LEMMA StartArms ==
  ASSUME TimerInv, TimerInv', NEW t \in Timer, StartTimer(t)
  PROVE  /\ LeftMap' = [LeftMap EXCEPT ![t] = init[t]]
         /\ init[t] \in UNION {Delay[u] : u \in Timer}
<1>1. TypeInv /\ SameTimers /\ Ahead /\ Ordered
  BY DEF TimerInv
<1>2. /\ \A x : Contains(list', x) <=> Contains(list, x) \/ x = t
      /\ Left(t)' = init[t]
      /\ \A x \in Timer \ {t} : Left(x)' = Left(x)
  BY <1>1, StartKeeps
<1>3. init[t] \in Delay[t] /\ init[t] \in Nat
  BY <1>1 DEF TypeInv, TypeOK
<1> DEFINE m == [LeftMap EXCEPT ![t] = init[t]]
<1>4. m \in [Timer -> Nat \union {Off}] /\ \A x \in Timer : m[x] = IF x = t THEN init[t] ELSE LeftMap[x]
  BY <1>3, LeftMapValue
<1> HIDE DEF m
<1>5. \A x \in Timer : m[x] = IF Contains(list', x) THEN Left(x)' ELSE Off
  BY <1>2, <1>4, LeftMapValue
<1>6. LeftMap' = m
  BY <1>4, <1>5, LeftMapStep
<1> QED
  BY <1>3, <1>6 DEF m

\* Taking a timer off the list disarms it.
LEMMA RemovalDisarms ==
  ASSUME TimerInv, TimerInv', NEW t \in Timer, UNCHANGED <<tick, expiry>>,
         \A x : Contains(list', x) <=> Contains(list, x) /\ x # t
  PROVE  LeftMap' = [LeftMap EXCEPT ![t] = Off]
<1>1. \A x : Left(x)' = Left(x)
  BY DEF Left
<1> DEFINE m == [LeftMap EXCEPT ![t] = Off]
<1>2. m \in [Timer -> Nat \union {Off}] /\ \A x \in Timer : m[x] = IF x = t THEN Off ELSE LeftMap[x]
  BY LeftMapValue
<1> HIDE DEF m
<1>3. \A x \in Timer : m[x] = IF Contains(list', x) THEN Left(x)' ELSE Off
  BY <1>1, <1>2, LeftMapValue
<1>4. LeftMap' = m
  BY <1>2, <1>3, LeftMapStep
<1> QED
  BY <1>4 DEF m

\* A start from a thread, an interrupt handler or a callback.
LEMMA StartPromise ==
  ASSUME TimerInv, TimerInv', NEW t \in Timer, Start(t)
  PROVE  PromiseStep
<1>1. LeftMap' = [LeftMap EXCEPT ![t] = init[t]] /\ init[t] \in UNION {Delay[u] : u \in Timer}
  BY StartArms DEF Start
<1>2. firing' = firing
  BY DEF Start
<1>3. PICK n \in UNION {Delay[u] : u \in Timer} : LeftMap' = [LeftMap EXCEPT ![t] = n]
  BY <1>1
<1>4. Promise!Arm(t, n)
  BY <1>2, <1>3 DEF Promise!Arm, LeftMap
<1>5. Promise!Next
  BY <1>4 DEF Promise!Next
<1> QED
  BY <1>5 DEF PromiseStep

\* A stop or a deletion.
LEMMA StopPromise ==
  ASSUME TimerInv, TimerInv', NEW t \in Timer, Stop(t) \/ Delete(t)
  PROVE  PromiseStep
<1>1. list' = RemoveFirst(list, t) /\ UNCHANGED <<tick, expiry, firing>>
  BY DEF Stop, Delete, Removed
<1>2. \A x : Contains(list', x) <=> Contains(list, x) /\ x # t
  BY <1>1, RemoveFirstProperties DEF TimerInv, TypeInv, TypeOK, SameTimers
<1>3. LeftMap' = [LeftMap EXCEPT ![t] = Off]
  BY <1>1, <1>2, RemovalDisarms
<1>4. Promise!Disarm(t)
  BY <1>1, <1>3 DEF Promise!Disarm, LeftMap
<1> QED
  BY <1>4 DEF PromiseStep, Promise!Next

\* A tick passes when no timer is due.
LEMMA TickPromise ==
  ASSUME TimerInv, TimerInv', TickIncrease
  PROVE  PromiseStep
<1>1. list' = list /\ firing' = firing /\ firing = None
  BY DEF TimerInv, Reached, TickIncrease, timers
<1>2. \A x : Contains(list, x) => Left(x) # 0 /\ Left(x)' = Left(x) - 1
  BY StepTickIncrease
<1> DEFINE m == [t \in Timer |-> IF LeftMap[t] = Off THEN Off ELSE LeftMap[t] - 1]
<1>3. \A t \in Timer : LeftMap[t] # 0
  BY <1>2, LeftMapValue, TimerAssumption
<1>4. ASSUME NEW t \in Timer
      PROVE  /\ m[t] \in Nat \union {Off}
             /\ m[t] = IF Contains(list', t) THEN Left(t)' ELSE Off
  <2>1. CASE Contains(list, t)
    <3>1. LeftMap[t] = Left(t) /\ Left(t) \in Nat /\ Left(t) # 0 /\ Left(t) # Off
      BY <1>2, <2>1, LeftMapValue, TimerAssumption
    <3> QED BY <1>1, <1>2, <2>1, <3>1
  <2>2. CASE ~Contains(list, t)
    BY <1>1, <2>2, LeftMapValue
  <2> QED BY <2>1, <2>2
<1>5. m \in [Timer -> Nat \union {Off}]
  BY <1>4
<1> HIDE DEF m
<1>6. LeftMap' = m
  BY <1>4, <1>5, LeftMapStep
<1>7. Promise!Pass
  BY <1>1, <1>3, <1>6 DEF Promise!Pass, LeftMap, m
<1> QED
  BY <1>7 DEF PromiseStep, Promise!Next

\* The timer that is called has no tick left.
LEMMA ExpirePromise ==
  ASSUME TimerInv, TimerInv', NEW t \in Timer, Expire(t)
  PROVE  PromiseStep
<1>1. firing = None /\ firing' = t /\ UNCHANGED <<tick, expiry>>
  BY DEF Expire
<1>2. /\ Contains(list, t) /\ Left(t) = 0
      /\ \A x : Contains(list', x) <=> Contains(list, x) /\ x # t
  BY StepExpire
<1>3. LeftMap' = [LeftMap EXCEPT ![t] = Off]
  BY <1>1, <1>2, RemovalDisarms
<1>4. LeftMap[t] = 0
  BY <1>2, LeftMapValue
<1>5. Promise!Fire(t)
  BY <1>1, <1>3, <1>4 DEF Promise!Fire, LeftMap
<1> QED
  BY <1>5 DEF PromiseStep, Promise!Next

\* The callback returns.
LEMMA ReturnPromise ==
  ASSUME TimerInv, TimerInv', Return
  PROVE  PromiseStep
<1>1. firing # None /\ firing' = None /\ firing \in Timer
  BY DEF Return, TimerInv, TypeInv, TypeOK
<1>2. CASE StartTimer(firing)
  <2>1. /\ LeftMap' = [LeftMap EXCEPT ![firing] = init[firing]]
        /\ init[firing] \in UNION {Delay[u] : u \in Timer}
    BY <1>1, <1>2, StartArms
  <2>2. Promise!Return
    BY <1>1, <2>1 DEF Promise!Return, LeftMap
  <2> QED BY <2>2 DEF PromiseStep, Promise!Next
<1>3. CASE UNCHANGED <<tick, list, expiry>>
  <2>1. \A t \in Timer : Left(t)' = Left(t)
    BY <1>3 DEF Left
  <2>2. LeftMap' = LeftMap
    BY <1>3, <2>1, LeftMapValue, LeftMapStep
  <2>3. Promise!Return
    BY <1>1, <2>2 DEF Promise!Return, LeftMap
  <2> QED BY <2>3 DEF PromiseStep, Promise!Next
<1> QED
  BY <1>2, <1>3 DEF Return

\* Every step of the timers is one of AbstractTimer, or none.
LEMMA NextPromise ==
  ASSUME TimerInv, TimerInv', [Next]_vars
  PROVE  PromiseStep
<1>1. CASE \E t \in Timer : Start(t) \/ Stop(t) \/ Delete(t)
  BY <1>1, StartPromise, StopPromise
<1>2. CASE \/ \E t \in Timer : \E d \in Delay[t] : SetTime(t, d)
           \/ \E t \in Timer : \E again \in Again[t] : SetMode(t, again)
           \/ CheckBegin \/ CheckEnd \/ UNCHANGED vars
  <2>1. UNCHANGED <<list, tick, firing, expiry>>
    BY <1>2 DEF SetTime, SetMode, CheckBegin, CheckEnd, vars, timers
  <2> QED BY <2>1, QuietPromise
<1>3. CASE \E t \in Timer : \E d \in Delay[t], again \in Again[t] : Create(t, d, again)
  <2>1. PICK t \in Timer : \E d \in Delay[t], again \in Again[t] : Create(t, d, again)
    BY <1>3
  <2>2. /\ UNCHANGED <<list, tick, firing>> /\ t \notin alive
        /\ expiry' = [expiry EXCEPT ![t] = 0]
    BY <2>1 DEF Create
  <2>3. \A x : Contains(list, x) => x \in Timer /\ x # t
    BY <2>2, ContainsTimer DEF TimerInv, TypeInv, TypeOK, Reached
  <2>4. \A x : Contains(list, x) => expiry'[x] = expiry[x]
    BY <2>2, <2>3 DEF TimerInv, TypeInv, TypeOK
  <2> QED BY <2>2, <2>4, QuietPromise
<1>4. CASE TickIncrease
  BY <1>4, TickPromise
<1>5. CASE Return \/ \E t \in Timer : Expire(t)
  BY <1>5, ReturnPromise, ExpirePromise
<1> QED
  BY <1>1, <1>2, <1>3, <1>4, <1>5 DEF Next, Check

\* Timers are called back exactly when their ticks have passed, for every
\* RT_TICK_MAX and any delays below half of it: the wrap of the tick, changes
\* made by callbacks and the look at the head alone cost nobody a tick.
THEOREM PromiseHeld == Spec => PromiseKept
<1>1. Init => Promise!Init
  <2> SUFFICES ASSUME Init PROVE Promise!Init
    OBVIOUS
  <2>1. list = <<>> /\ firing = None
    BY DEF Init
  <2>2. TimerInv
    BY InitInv
  <2>3. \A x : ~Contains(list, x)
    BY <2>1, EmptySeq DEF Contains
  <2>4. LeftMap = [t \in Timer |-> Off]
    BY <2>2, <2>3, LeftMapValue
  <2> QED BY <2>1, <2>4 DEF Promise!Init, LeftMap
<1>2. TimerInv /\ TimerInv' /\ [Next]_vars => [Promise!Next]_<<LeftMap, firing>>
  BY NextPromise DEF PromiseStep
<1>3. Promise!Spec <=> Promise!Init /\ [][Promise!Next]_<<LeftMap, firing>>
  BY DEF Promise!Spec, LeftMap
<1> QED
  BY <1>1, <1>2, <1>3, Invariance, PTL DEF Spec, PromiseKept

-----------------------------------------------------------------------------
(* SmallMem: offsets *)

LEMMA Quotient ==
  ASSUME NEW n \in Nat
  PROVE  /\ n \div Align \in Nat /\ (n \div Align) * Align <= n
         /\ n < (n \div Align) * Align + Align
         /\ n % Align = n - (n \div Align) * Align
BY SmallMemAssumption

\* The multiples of RT_ALIGN_SIZE.
Aligned == {a * Align : a \in Nat}

LEMMA OffsetAligned == Offset = {p \in Aligned : p <= End}
<1>1. End \in Nat /\ Align \in Nat \ {0}
  BY SmallMemAssumption DEF End
<1>2. ASSUME NEW a \in Nat PROVE a <= End \div Align <=> a * Align <= End
  <2> DEFINE d == End \div Align
  <2>1. d \in Nat /\ d * Align <= End /\ End < d * Align + Align
    BY <1>1, Quotient
  <2> HIDE DEF d
  <2>2. ASSUME a <= d PROVE a * Align <= d * Align
    BY <1>1, <2>1, <2>2
  <2>3. ASSUME a >= d + 1 PROVE a * Align >= (d + 1) * Align
    BY <1>1, <2>1, <2>3
  <2>4. (d + 1) * Align = d * Align + Align
    BY <1>1, <2>1
  <2>5. a * Align \in Nat /\ d * Align \in Nat
    BY <1>1, <2>1
  <2> QED BY <1>1, <2>1, <2>2, <2>3, <2>4, <2>5 DEF d
<1>3. End \div Align \in Nat
  BY <1>1, Quotient
<1> QED
  BY <1>2, <1>3 DEF Offset, Aligned

LEMMA AlignedSum ==
  ASSUME NEW x \in Aligned, NEW y \in Aligned
  PROVE  x + y \in Aligned /\ x \in Nat
<1>1. PICK a \in Nat, b \in Nat : x = a * Align /\ y = b * Align
  BY DEF Aligned
<1>2. x + y = (a + b) * Align /\ a + b \in Nat
  BY <1>1, SmallMemAssumption
<1> QED
  BY <1>1, <1>2, SmallMemAssumption DEF Aligned

LEMMA AlignUp ==
  ASSUME NEW n \in Nat
  PROVE  RT_ALIGN(n) \in Aligned /\ RT_ALIGN(n) \in Nat /\ RT_ALIGN(n) >= n
<1>1. n + Align - 1 \in Nat /\ Align \in Nat \ {0}
  BY SmallMemAssumption
<1> DEFINE d == (n + Align - 1) \div Align
<1>2. d \in Nat /\ n + Align - 1 < d * Align + Align
  BY <1>1, Quotient
<1>3. RT_ALIGN(n) = d * Align
  BY DEF RT_ALIGN
<1> HIDE DEF d
<1>4. d * Align \in Nat
  BY <1>1, <1>2
<1> QED
  BY <1>1, <1>2, <1>3, <1>4 DEF Aligned

LEMMA HeapSizes ==
  /\ Header \in Aligned /\ Size \in Aligned /\ End \in Aligned /\ End \in Offset
  /\ 0 \in Offset /\ Offset \subseteq 0..End
  /\ Header \in Nat /\ Size \in Nat \ {0} /\ End \in Nat /\ End = Size + Header
<1>1. ASSUME NEW n \in Nat, n % Align = 0 PROVE n \in Aligned
  <2> DEFINE d == n \div Align
  <2>1. d \in Nat /\ n % Align = n - d * Align /\ Align \in Nat
    BY Quotient, SmallMemAssumption
  <2> HIDE DEF d
  <2>2. n = d * Align
    BY <1>1, <2>1
  <2> QED BY <2>1, <2>2 DEF Aligned
<1>2. /\ Header \in Nat /\ Size \in Nat \ {0} /\ Header % Align = 0 /\ Size % Align = 0
      /\ Align \in Nat
  BY SmallMemAssumption
<1>3. Header \in Aligned /\ Size \in Aligned
  BY <1>1, <1>2
<1>4. End \in Aligned /\ End \in Nat /\ 0 * Align = 0
  BY <1>2, <1>3, AlignedSum DEF End
<1>5. 0 \in Aligned
  BY <1>4 DEF Aligned
<1>6. \A x \in Aligned : x \in Nat
  BY AlignedSum
<1>7. End \in Offset /\ 0 \in Offset /\ \A x \in Offset : x \in Nat /\ x <= End
  BY <1>4, <1>5, <1>6, OffsetAligned
<1> QED
  BY <1>2, <1>3, <1>4, <1>7 DEF End

\* What an allocation looks for: at least the smallest block and what was asked.
LEMMA WantedSize ==
  ASSUME NEW n \in Nat
  PROVE  /\ Wanted(n) \in Aligned /\ Wanted(n) \in Nat \ {0}
         /\ RT_ALIGN(MinSize) \in Nat \ {0}
<1> DEFINE a == RT_ALIGN(n)
           b == RT_ALIGN(MinSize)
<1>1. MinSize \in Nat \ {0}
  BY SmallMemAssumption
<1>2. a \in Aligned /\ b \in Aligned /\ a \in Nat /\ b \in Nat \ {0}
  BY <1>1, AlignUp
<1>3. Wanted(n) = Max({a, b})
  BY DEF Wanted
<1> HIDE DEF a, b
<1>4. \E x \in {a, b} : \A y \in {a, b} : x >= y
  BY <1>2
<1>5. Max({a, b}) \in {a, b} /\ Max({a, b}) >= b
  BY <1>4 DEF Max
<1> QED
  BY <1>2, <1>3, <1>5 DEF b

-----------------------------------------------------------------------------
(* The chain of items *)

Item == [next : Offset, prev : Offset, used : BOOLEAN]

\* The chain goes from item to item, and back, and leaves none out.
Links(it) ==
  /\ DOMAIN it \subseteq Offset /\ it \in [DOMAIN it -> Item]
  /\ 0 \in DOMAIN it /\ End \in DOMAIN it /\ it[End].used /\ it[0].prev = 0
  /\ \A p \in DOMAIN it \ {End} :
       /\ it[p].next \in DOMAIN it /\ p + Header < it[p].next
       /\ \A q \in DOMAIN it : q <= p \/ q >= it[p].next
       /\ it[p].next # End => it[it[p].next].prev = p

\* No two free items are neighbours, except where one of X is concerned.
Merged(it, X) ==
  \A p \in DOMAIN it \ {End} :
    it[p].next # End =>
      it[p].used \/ it[it[p].next].used \/ p \in X \/ it[p].next \in X

\* No free item is below lfree.
Lowest(h) ==
  /\ h.lfree \in DOMAIN h.item
  /\ \A p \in DOMAIN h.item : ~h.item[p].used => h.lfree <= p

HeldIn(it) == {p \in DOMAIN it \ {End} : it[p].used}

Bytes(it) == UNION {p..(it[p].next - 1) : p \in HeldIn(it)}

Chains == UNION {[D -> Item] : D \in SUBSET Offset}

HeapState == [item : Chains, lfree : Offset, used : Int]

\* A heap as it should be, except that items of X may not be merged yet.
HeapFits(h, X) ==
  /\ h \in HeapState
  /\ Links(h.item) /\ Merged(h.item, X) /\ Lowest(h)
  /\ h.used = Cardinality(Bytes(h.item))

\* The callers have the same items, of the same size.
SameHeld(a, b) ==
  /\ HeldIn(a) = HeldIn(b)
  /\ \A p \in HeldIn(b) : a[p].next = b[p].next

LEMMA ChainType ==
  ASSUME NEW it, Links(it)
  PROVE  it \in Chains
BY DEF Links, Chains

LEMMA SameBytes ==
  ASSUME NEW a, NEW b, SameHeld(a, b)
  PROVE  Bytes(a) = Bytes(b)
BY DEF SameHeld, Bytes

LEMMA LinkFacts ==
  ASSUME NEW it, Links(it)
  PROVE  /\ DOMAIN it \subseteq 0..End /\ DOMAIN it \subseteq Nat
         /\ \A p \in DOMAIN it : /\ it[p].used \in BOOLEAN
                                 /\ it[p].next \in Offset /\ it[p].prev \in Offset
                                 /\ it[p].next \in Nat
         /\ \A p \in DOMAIN it \ {End} : p < it[p].next
         /\ \A p, q \in DOMAIN it \ {End} : it[p].next = it[q].next => p = q
BY HeapSizes DEF Links, Item

\* Every item but the first has one in front of it, and its link back says which.
LEMMA Predecessor ==
  ASSUME NEW it, Links(it), NEW p \in DOMAIN it \ {0, End}
  PROVE  it[p].prev \in DOMAIN it \ {End} /\ it[it[p].prev].next = p
<1> DEFINE S == {d \in Nat : d > 0 /\ p - d \in DOMAIN it}
           d == Min(S)
           q == p - d
<1>1. p \in Nat /\ p # 0 /\ DOMAIN it \subseteq 0..End
  BY LinkFacts
<1>2. p \in S
  BY <1>1 DEF Links
<1>3. d \in S /\ \A e \in S : d <= e
  <2> HIDE DEF S
  <2>1. S \in SUBSET Nat
    BY DEF S
  <2> QED BY <1>2, <2>1, MinProperties
<1> HIDE DEF d
<1>4. d \in Nat /\ d > 0 /\ q \in DOMAIN it /\ q < p /\ q \in Nat /\ p < End
  BY <1>1, <1>3, LinkFacts, HeapSizes
<1>5. \A x \in DOMAIN it : x < p => x <= q
  <2> SUFFICES ASSUME NEW x \in DOMAIN it, x < p, x > q PROVE FALSE
    BY <1>1, <1>4
  <2>1. p - x \in S
    BY <1>1, <1>4
  <2> QED BY <1>1, <1>3, <1>4, <2>1
<1> HIDE DEF q, S
<1>6. q \in DOMAIN it \ {End}
  <2>1. End \in Nat /\ p \in Nat
    BY <1>1, HeapSizes
  <2>2. q # End
    BY <1>4, <2>1
  <2> QED BY <1>4, <2>2
<1>7. /\ it[q].next \in DOMAIN it /\ q < it[q].next /\ it[q].next <= p
      /\ it[q].next \in Nat
  BY <1>1, <1>4, <1>6, LinkFacts DEF Links
<1>8. it[q].next = p
  BY <1>1, <1>4, <1>5, <1>7
<1> QED
  BY <1>6, <1>8 DEF Links

\* A walk along the chain ends at the first item of S.
FirstAt(S, p) == Min({x \in S : x >= p})

LEMMA FirstAtFacts ==
  ASSUME NEW it, Links(it), NEW S \in SUBSET DOMAIN it, End \in S, NEW p \in DOMAIN it
  PROVE  /\ FirstAt(S, p) \in S /\ FirstAt(S, p) >= p
         /\ \A x \in S : x >= p => FirstAt(S, p) <= x
         /\ p \in S => FirstAt(S, p) = p
         /\ p \notin S => p # End /\ FirstAt(S, p) = FirstAt(S, it[p].next)
<1> DEFINE A == {x \in S : x >= p}
<1>1. DOMAIN it \subseteq 0..End /\ A \in SUBSET Nat /\ End \in A /\ p \in Nat
  BY LinkFacts, HeapSizes
<1>2. Min(A) \in A /\ \A x \in A : Min(A) <= x
  <2> HIDE DEF A
  <2> QED BY <1>1, MinProperties
<1>3. FirstAt(S, p) = Min(A)
  BY DEF FirstAt
<1>4. p \in S => Min(A) = p
  <2> SUFFICES ASSUME p \in S PROVE Min(A) = p
    OBVIOUS
  <2>1. p \in A
    BY <1>1
  <2>2. Min(A) >= p /\ Min(A) <= p /\ Min(A) \in Nat
    <3> DEFINE a == Min(A)
    <3>1. a \in A /\ a <= p
      BY <1>2, <2>1
    <3> HIDE DEF a
    <3>2. a >= p /\ a \in Nat
      BY <1>1, <3>1
    <3> QED BY <3>1, <3>2 DEF a
  <2> HIDE DEF A
  <2> QED BY <1>1, <2>2
<1>5. p \notin S => p # End /\ FirstAt(S, it[p].next) = Min(A)
  <2> SUFFICES ASSUME p \notin S PROVE p # End /\ FirstAt(S, it[p].next) = Min(A)
    OBVIOUS
  <2>1. p # End /\ p < it[p].next /\ it[p].next \in Nat
        /\ \A x \in DOMAIN it : x <= p \/ x >= it[p].next
    BY LinkFacts DEF Links
  <2>2. \A x \in S : x >= it[p].next <=> x >= p
    <3> SUFFICES ASSUME NEW x \in S PROVE x >= it[p].next <=> x >= p
      OBVIOUS
    <3>1. x \in Nat /\ x # p /\ (x <= p \/ x >= it[p].next)
      BY <1>1, <2>1
    <3> QED BY <1>1, <2>1, <3>1
  <2>3. {x \in S : x >= it[p].next} = A
    BY <2>2
  <2> QED BY <2>1, <2>3 DEF FirstAt
<1> QED
  BY <1>2, <1>3, <1>4, <1>5

\* What such a walk f computes, item by item.
Walk(it, S, v, f) == [p \in DOMAIN it |-> IF p \in S THEN v[p] ELSE f[it[p].next]]

LEMMA ChainWalkExists ==
  ASSUME NEW it, Links(it), NEW S \in SUBSET DOMAIN it, End \in S, NEW v
  PROVE  \E f : f = Walk(it, S, v, f)
<1> DEFINE f == [p \in DOMAIN it |-> v[FirstAt(S, p)]]
<1>1. ASSUME NEW p \in DOMAIN it
      PROVE  f[p] = IF p \in S THEN v[p] ELSE f[it[p].next]
  <2>1. CASE p \in S
    BY <2>1, FirstAtFacts
  <2>2. CASE p \notin S
    <3>1. p # End /\ FirstAt(S, p) = FirstAt(S, it[p].next)
      BY <2>2, FirstAtFacts
    <3>2. it[p].next \in DOMAIN it
      BY <3>1 DEF Links
    <3> QED BY <2>2, <3>1, <3>2
  <2> QED BY <2>1, <2>2
<1>2. f = [p \in DOMAIN it |-> f[p]]
  OBVIOUS
<1> HIDE DEF f
<1>3. f = Walk(it, S, v, f)
  BY <1>1, <1>2 DEF Walk
<1> QED
  BY <1>3

LEMMA ChainWalkEnds ==
  ASSUME NEW it, Links(it), NEW S \in SUBSET DOMAIN it, End \in S, NEW v,
         NEW f, f = Walk(it, S, v, f),
         NEW p \in DOMAIN it
  PROVE  f[p] = v[FirstAt(S, p)]
<1> DEFINE Bad == {d \in 0..End : \E q \in DOMAIN it : d = End - q /\ f[q] # v[FirstAt(S, q)]}
           d == Min(Bad)
<1>1. \A q \in DOMAIN it : f[q] = IF q \in S THEN v[q] ELSE f[it[q].next]
  BY DEF Walk
<1>2. DOMAIN it \subseteq 0..End /\ End \in Nat
  BY LinkFacts, HeapSizes
<1>3. Bad = {}
  <2> SUFFICES ASSUME Bad # {} PROVE FALSE
    OBVIOUS
  <2>1. d \in Bad /\ \A e \in Bad : d <= e
    <3>1. Bad \in SUBSET Nat
      BY <1>2
    <3> HIDE DEF Bad
    <3> QED BY <3>1, MinProperties
  <2> HIDE DEF d
  <2>2. PICK q \in DOMAIN it : d = End - q /\ f[q] # v[FirstAt(S, q)]
    BY <2>1
  <2>3. q \notin S
    <3>1. q \in S => FirstAt(S, q) = q
      BY FirstAtFacts
    <3> QED BY <1>1, <2>2, <3>1
  <2>4. q # End /\ FirstAt(S, q) = FirstAt(S, it[q].next)
    BY <2>3, FirstAtFacts
  <2>5. it[q].next \in DOMAIN it /\ q < it[q].next
    BY <2>4, LinkFacts DEF Links
  <2>6. f[it[q].next] # v[FirstAt(S, it[q].next)]
    BY <1>1, <2>2, <2>3, <2>4
  <2>7. End - it[q].next \in Bad
    BY <1>2, <2>5, <2>6
  <2> HIDE DEF Bad
  <2>8. it[q].next \in Nat /\ q \in Nat
    BY <1>2, <2>5
  <2> QED BY <1>2, <2>1, <2>2, <2>5, <2>7, <2>8
<1>4. End - p \notin Bad /\ End - p \in 0..End
  BY <1>2, <1>3
<1> QED
  BY <1>4

-----------------------------------------------------------------------------
(* Merging and splitting *)

LEMMA MergeLinks ==
  ASSUME NEW h \in HeapState, Links(h.item), NEW p \in DOMAIN h.item \ {End}, NEW q, q = h.item[p].next, q # End
  PROVE  LET r == Merge(h, p, q)
             it == h.item
         IN  /\ r \in HeapState
             /\ r.lfree = (IF h.lfree = q THEN p ELSE h.lfree) /\ r.used = h.used
             /\ DOMAIN r.item = DOMAIN it \ {q}
             /\ \A x \in DOMAIN it \ {q} :
                  /\ r.item[x].used = it[x].used
                  /\ r.item[x].next = IF x = p THEN it[q].next ELSE it[x].next
             /\ r.item[p].prev = it[p].prev
             /\ Links(r.item)
<1> DEFINE it == h.item
           n == it[q].next
           e == [it EXCEPT ![p].next = n, ![n].prev = p]
           ri == [x \in DOMAIN it \ {q} |-> e[x]]
           r == Merge(h, p, q)
<1>1. /\ it \in [DOMAIN it -> Item] /\ DOMAIN it \subseteq Offset
      /\ q \in DOMAIN it \ {End} /\ n \in DOMAIN it /\ p < q /\ q < n
      /\ p \in Nat /\ q \in Nat /\ n \in Nat /\ p + Header < q
      /\ n # p /\ n # q /\ q # p /\ q # 0 /\ n # 0
  <2>1. q \in DOMAIN it \ {End} /\ p + Header < q
    BY DEF Links
  <2>2. n \in DOMAIN it /\ p < q /\ q < n
    BY <2>1, LinkFacts DEF Links
  <2>3. p \in Nat /\ q \in Nat /\ n \in Nat
    BY <2>1, <2>2, LinkFacts
  <2> QED BY <2>1, <2>2, <2>3 DEF Links
<1>2. /\ r.item = ri /\ r.lfree = (IF h.lfree = q THEN p ELSE h.lfree) /\ r.used = h.used
      /\ Links(ri) => r \in HeapState
  <2> DEFINE l == IF h.lfree = q THEN p ELSE h.lfree
  <2>1. r = [h EXCEPT !.item = ri, !.lfree = l]
    BY DEF Merge, Drop, HeapState
  <2>2. Links(ri) => ri \in Chains
    BY ChainType
  <2>3. l \in Offset
    BY <1>1 DEF HeapState
  <2> HIDE DEF r, ri, l
  <2>4. r.item = ri /\ r.lfree = l /\ r.used = h.used
    BY <2>1 DEF HeapState
  <2>5. Links(ri) => r \in HeapState
    BY <2>1, <2>2, <2>3 DEF HeapState
  <2> QED BY <2>4, <2>5 DEF l
<1> HIDE DEF n
<1>3. /\ \A x \in DOMAIN it \ {q} :
           /\ ri[x].used = it[x].used
           /\ ri[x].next = IF x = p THEN n ELSE it[x].next
           /\ ri[x].prev = IF x = n THEN p ELSE it[x].prev
      /\ DOMAIN ri = DOMAIN it \ {q} /\ ri \in [DOMAIN ri -> Item]
  <2>1. /\ e \in [DOMAIN it -> Item]
        /\ \A x \in DOMAIN it :
             /\ e[x].used = it[x].used
             /\ e[x].next = IF x = p THEN n ELSE it[x].next
             /\ e[x].prev = IF x = n THEN p ELSE it[x].prev
    <3> DEFINE d == [it EXCEPT ![p].next = n]
    <3> HIDE DEF it
    <3>1. /\ d \in [DOMAIN it -> Item]
          /\ \A x \in DOMAIN it :
               /\ d[x].used = it[x].used /\ d[x].prev = it[x].prev
               /\ d[x].next = IF x = p THEN n ELSE it[x].next
      BY <1>1 DEF Item
    <3>2. e = [d EXCEPT ![n].prev = p]
      BY <1>1
    <3> HIDE DEF d, e
    <3>3. p \in DOMAIN it /\ p \in Offset
      BY <1>1 DEF it
    <3> QED BY <1>1, <3>1, <3>2, <3>3 DEF Item
  <2> HIDE DEF e
  <2> QED BY <2>1
<1> HIDE DEF e, ri, r, it
<1>4. ASSUME NEW x \in DOMAIN ri \ {End}
      PROVE  /\ ri[x].next \in DOMAIN ri /\ x + Header < ri[x].next
             /\ \A y \in DOMAIN ri : y <= x \/ y >= ri[x].next
             /\ ri[x].next # End => ri[ri[x].next].prev = x
  <2>0. Links(it) /\ it[p].next = q /\ it[q].next = n
    BY DEF it, n
  <2>1. /\ it[x].next \in DOMAIN it /\ x + Header < it[x].next
        /\ \A y \in DOMAIN it : y <= x \/ y >= it[x].next
        /\ it[x].next # End => it[it[x].next].prev = x
    BY <1>3, <2>0 DEF Links
  <2>2. CASE x = p
    <3>1. \A y \in DOMAIN it : (y <= p \/ y >= q) /\ (y <= q \/ y >= n) /\ y \in Nat
      <4>1. p \in DOMAIN it \ {End}
        BY DEF it
      <4> QED BY <1>1, <2>0, <4>1, LinkFacts DEF Links
    <3>2. p + Header < n
      BY <1>1, HeapSizes
    <3> QED BY <1>1, <1>3, <2>2, <3>1, <3>2
  <2>3. CASE x # p
    <3>1. it[x].next # q /\ (it[x].next = n => x = q)
      <4>1. p \in DOMAIN it \ {End} /\ x \in DOMAIN it \ {End}
        BY <1>3 DEF it
      <4> QED BY <1>1, <2>0, <2>3, <4>1, LinkFacts
    <3> QED BY <1>1, <1>3, <2>1, <2>3, <3>1
  <2> QED BY <2>2, <2>3
<1>5. Links(ri)
  <2>1. /\ 0 \in DOMAIN it /\ End \in DOMAIN it /\ it[End].used /\ it[0].prev = 0
    BY DEF Links, it
  <2>2. /\ 0 \in DOMAIN ri /\ End \in DOMAIN ri /\ ri[End].used /\ ri[0].prev = 0
        /\ DOMAIN ri \subseteq Offset
    BY <1>1, <1>3, <2>1
  <2> QED BY <1>3, <1>4, <2>2 DEF Links
<1>6. ri[p].prev = it[p].prev
  BY <1>1, <1>3 DEF it
<1> QED
  BY <1>2, <1>3, <1>5, <1>6 DEF it, n, r

LEMMA SplitLinks ==
  ASSUME NEW h \in HeapState, Links(h.item), NEW p \in DOMAIN h.item \ {End}, NEW size \in Nat \ {0},
         NEW r, r = p + Header + size, r \in Offset, r + Header < h.item[p].next
  PROVE  LET s == Split(h, p, size)
             it == h.item
         IN  /\ s \in HeapState
             /\ s.lfree = h.lfree /\ s.used = h.used
             /\ r \in Nat /\ p < r /\ r < it[p].next /\ r \notin DOMAIN it
             /\ DOMAIN s.item = DOMAIN it \union {r}
             /\ ~s.item[r].used /\ s.item[r].next = it[p].next
             /\ \A x \in DOMAIN it :
                  /\ s.item[x].used = it[x].used
                  /\ s.item[x].next = IF x = p THEN r ELSE it[x].next
             /\ Links(s.item)
<1> DEFINE it == h.item
           n == it[p].next
           new == [next |-> n, prev |-> p, used |-> FALSE]
           a == [x \in DOMAIN it \union {r} |-> IF x = r THEN new ELSE it[x]]
           b == IF n = End THEN a ELSE [a EXCEPT ![n].prev = r]
           ri == [b EXCEPT ![p].next = r]
           s == Split(h, p, size)
<1>1. /\ it \in [DOMAIN it -> Item] /\ DOMAIN it \subseteq Offset
      /\ n \in DOMAIN it /\ p \in Nat /\ n \in Nat /\ r \in Nat
      /\ p < r /\ r < n /\ p + Header < r /\ p # n
      /\ \A x \in DOMAIN it : x \in Nat /\ (x <= p \/ x >= n)
  <2>1. /\ it \in [DOMAIN it -> Item] /\ DOMAIN it \subseteq Offset
        /\ n \in DOMAIN it /\ p \in Nat /\ n \in Nat
        /\ \A x \in DOMAIN it : x \in Nat /\ (x <= p \/ x >= n)
    BY LinkFacts DEF Links
  <2>2. Header \in Nat
    BY HeapSizes
  <2> QED BY <2>1, <2>2
<1>2. /\ s.item = ri /\ s.lfree = h.lfree /\ s.used = h.used
      /\ Links(ri) => s \in HeapState
  <2>1. s = [h EXCEPT !.item = ri]
    BY DEF Split
  <2>2. Links(ri) => ri \in Chains
    BY ChainType
  <2> HIDE DEF s, ri
  <2>3. s.item = ri /\ s.lfree = h.lfree /\ s.used = h.used
    BY <2>1 DEF HeapState
  <2>4. Links(ri) => s \in HeapState
    BY <2>1, <2>2 DEF HeapState
  <2> QED BY <2>3, <2>4
<1>3. r \notin DOMAIN it /\ new \in Item
  BY <1>1 DEF Item
<1> HIDE DEF n, new
<1>4. a \in [DOMAIN it \union {r} -> Item]
  BY <1>1, <1>3
<1>5. b \in [DOMAIN it \union {r} -> Item]
      /\ \A x \in DOMAIN it \union {r} :
           /\ b[x].used = a[x].used /\ b[x].next = a[x].next
           /\ b[x].prev = IF n # End /\ x = n THEN r ELSE a[x].prev
  <2> HIDE DEF a
  <2> QED BY <1>1, <1>4 DEF Item
<1>6. /\ DOMAIN ri = DOMAIN it \union {r} /\ ri \in [DOMAIN ri -> Item]
      /\ ri[r].next = n /\ ri[r].prev = p /\ ~ri[r].used
      /\ \A x \in DOMAIN it :
           /\ ri[x].used = it[x].used
           /\ ri[x].next = IF x = p THEN r ELSE it[x].next
           /\ ri[x].prev = IF n # End /\ x = n THEN r ELSE it[x].prev
  <2>1. \A x \in DOMAIN it : a[x] = it[x]
    BY <1>3
  <2>2. a[r] = [next |-> n, prev |-> p, used |-> FALSE]
    BY DEF new
  <2> HIDE DEF a, b
  <2>3. ri \in [DOMAIN it \union {r} -> Item]
    BY <1>1, <1>5 DEF Item
  <2>4. \A x \in DOMAIN it \union {r} :
           /\ ri[x].used = b[x].used /\ ri[x].next = (IF x = p THEN r ELSE b[x].next)
           /\ ri[x].prev = b[x].prev
    BY <1>1, <1>5 DEF Item
  <2> HIDE DEF ri
  <2>5. r # p /\ r # n
    BY <1>1
  <2> QED BY <1>3, <1>5, <2>1, <2>2, <2>3, <2>4, <2>5
<1> HIDE DEF ri, s, it, a, b
<1>7. ASSUME NEW x \in DOMAIN ri \ {End}
      PROVE  /\ ri[x].next \in DOMAIN ri /\ x + Header < ri[x].next
             /\ \A y \in DOMAIN ri : y <= x \/ y >= ri[x].next
             /\ ri[x].next # End => ri[ri[x].next].prev = x
  <2>0. Links(it) /\ it[p].next = n /\ r + Header < n /\ Header \in Nat
    BY HeapSizes DEF it, n
  <2>1. CASE x = r
    BY <1>1, <1>6, <2>0, <2>1
  <2>2. CASE x = p
    <3>1. ri[x].next = r /\ ri[r].prev = p
      BY <1>1, <1>6, <2>2 DEF it
    <3> QED BY <1>1, <1>6, <2>0, <2>2, <3>1
  <2>3. CASE x # r /\ x # p
    <3>1. x \in DOMAIN it \ {End}
      BY <1>6, <2>3
    <3>2. /\ it[x].next \in DOMAIN it /\ x + Header < it[x].next
          /\ \A y \in DOMAIN it : y <= x \/ y >= it[x].next
          /\ it[x].next # End => it[it[x].next].prev = x
          /\ it[x].next # n /\ it[x].next \in Nat /\ x \in Nat
      BY <2>0, <2>3, <3>1, LinkFacts DEF Links, it
    <3>3. r <= x \/ r >= it[x].next
      BY <1>1, <2>0, <2>3, <3>1, <3>2, LinkFacts DEF it
    <3> QED BY <1>6, <2>3, <3>1, <3>2, <3>3
  <2> QED BY <2>1, <2>2, <2>3
<1>8. Links(ri)
  <2>1. /\ 0 \in DOMAIN it /\ End \in DOMAIN it /\ it[End].used /\ it[0].prev = 0
    BY DEF Links, it
  <2>2. n # 0
    BY <1>1
  <2>3. /\ 0 \in DOMAIN ri /\ End \in DOMAIN ri /\ ri[End].used /\ ri[0].prev = 0
        /\ DOMAIN ri \subseteq Offset
    BY <1>1, <1>6, <2>1, <2>2
  <2> QED BY <1>6, <1>7, <2>3 DEF Links
<1> QED
  BY <1>1, <1>2, <1>3, <1>6, <1>8 DEF it, n, s

-----------------------------------------------------------------------------
(* Bytes in use *)

LEMMA BytesFinite ==
  ASSUME NEW it, Links(it)
  PROVE  IsFiniteSet(Bytes(it)) /\ Bytes(it) \subseteq 0..(End - 1)
         /\ Cardinality(Bytes(it)) \in 0..End
<1>1. End \in Nat
  BY HeapSizes
<1>2. Bytes(it) \subseteq 0..(End - 1)
  <2> SUFFICES ASSUME NEW p \in HeldIn(it), NEW x \in p..(it[p].next - 1)
               PROVE  x \in 0..(End - 1)
    BY DEF Bytes
  <2>1. p \in Nat /\ it[p].next \in 0..End
    BY LinkFacts, HeapSizes DEF HeldIn
  <2> QED BY <1>1, <2>1
<1>3. IsFiniteSet(0..(End - 1)) /\ Cardinality(0..(End - 1)) <= End
  <2> DEFINE b == End - 1
  <2>1. b \in Int /\ 0 \in Int /\ (0 > b => End = 0)
    BY <1>1
  <2>2. IsFiniteSet(0..b) /\ Cardinality(0..b) = IF 0 > b THEN 0 ELSE b - 0 + 1
    <3> HIDE DEF b
    <3> QED BY ONLY <2>1, FS_Interval
  <2>3. b - 0 + 1 = End
    BY <1>1
  <2> QED BY <1>1, <2>1, <2>2, <2>3
<1>4. /\ IsFiniteSet(Bytes(it)) /\ Cardinality(Bytes(it)) <= Cardinality(0..(End - 1))
      /\ Cardinality(Bytes(it)) \in Nat /\ Cardinality(0..(End - 1)) \in Nat
  BY <1>2, <1>3, FS_Subset, FS_CardinalityType
<1> QED
  BY <1>1, <1>2, <1>3, <1>4

LEMMA BytesAdded ==
  ASSUME NEW S, IsFiniteSet(S), NEW lo \in Nat, NEW hi \in Nat, lo <= hi,
         S \cap lo..(hi - 1) = {}
  PROVE  Cardinality(S \union lo..(hi - 1)) = Cardinality(S) + (hi - lo)
<1>1. IsFiniteSet(lo..(hi - 1)) /\ Cardinality(lo..(hi - 1)) = hi - lo
  <2> DEFINE b == hi - 1
  <2>1. b \in Int /\ lo \in Int /\ (lo > b => hi - lo = 0)
    OBVIOUS
  <2>2. IsFiniteSet(lo..b) /\ Cardinality(lo..b) = IF lo > b THEN 0 ELSE b - lo + 1
    <3> HIDE DEF b
    <3> QED BY ONLY <2>1, FS_Interval
  <2>3. b - lo + 1 = hi - lo
    OBVIOUS
  <2> QED BY <2>1, <2>2, <2>3
<1>2. Cardinality(S \cap lo..(hi - 1)) = 0
  BY FS_EmptySet
<1>3. Cardinality(S) \in Nat
  BY FS_CardinalityType
<1> DEFINE T == lo..(hi - 1)
<1>4. Cardinality(S \union T) = Cardinality(S) + Cardinality(T) - Cardinality(S \cap T)
  <2> IsFiniteSet(T)
    BY <1>1
  <2> HIDE DEF T
  <2> QED BY FS_Union
<1> QED
  BY <1>1, <1>2, <1>3, <1>4

\* No byte belongs to two items.
LEMMA ItemsApart ==
  ASSUME NEW it, Links(it), NEW p \in DOMAIN it \ {End}, NEW q \in DOMAIN it \ {End}, p # q
  PROVE  p..(it[p].next - 1) \cap q..(it[q].next - 1) = {}
<1>1. /\ p \in Nat /\ q \in Nat /\ it[p].next \in Nat /\ it[q].next \in Nat
      /\ q <= p \/ q >= it[p].next
      /\ p <= q \/ p >= it[q].next
  BY LinkFacts DEF Links
<1> QED
  BY <1>1

\* An item more is held.
LEMMA BytesGrow ==
  ASSUME NEW a, NEW b, Links(a), Links(b), NEW p \in DOMAIN a \ {End}, p \notin HeldIn(b),
         HeldIn(a) = HeldIn(b) \union {p}, \A x \in HeldIn(b) : a[x].next = b[x].next
  PROVE  Cardinality(Bytes(a)) = Cardinality(Bytes(b)) + (a[p].next - p)
<1>1. p \in Nat /\ a[p].next \in Nat /\ p <= a[p].next
  BY LinkFacts
<1>2. Bytes(a) = Bytes(b) \union p..(a[p].next - 1)
  BY DEF Bytes
<1>3. Bytes(b) \cap p..(a[p].next - 1) = {}
  <2> SUFFICES ASSUME NEW x \in HeldIn(b)
               PROVE  x..(b[x].next - 1) \cap p..(a[p].next - 1) = {}
    BY DEF Bytes
  <2>1. x \in DOMAIN a \ {End} /\ x # p
    BY DEF HeldIn
  <2> QED BY <2>1, ItemsApart
<1> QED
  BY <1>1, <1>2, <1>3, BytesFinite, BytesAdded

\* A held item ends earlier.
LEMMA BytesShrink ==
  ASSUME NEW a, NEW b, Links(a), Links(b), NEW p \in HeldIn(a), HeldIn(b) = HeldIn(a),
         p < b[p].next, b[p].next <= a[p].next,
         \A x \in HeldIn(a) : x # p => b[x].next = a[x].next
  PROVE  Cardinality(Bytes(a)) = Cardinality(Bytes(b)) + (a[p].next - b[p].next)
<1> DEFINE r == b[p].next
           n == a[p].next
<1>1. p \in Nat /\ r \in Nat /\ n \in Nat /\ p \in DOMAIN a \ {End}
  BY LinkFacts DEF HeldIn
<1>2. p..(n - 1) = p..(r - 1) \union r..(n - 1) /\ p..(r - 1) \cap r..(n - 1) = {}
  BY <1>1
<1>3. Bytes(a) = Bytes(b) \union r..(n - 1)
  <2>1. \A x : x \in Bytes(a) <=> \E y \in HeldIn(a) : x \in y..(a[y].next - 1)
    BY DEF Bytes
  <2>2. \A x : x \in Bytes(b) <=> \E y \in HeldIn(a) : x \in y..(b[y].next - 1)
    BY DEF Bytes
  <2>3. \A x : x \in Bytes(a) <=> x \in Bytes(b) \/ x \in r..(n - 1)
    <3> TAKE x
    <3>1. \A y \in HeldIn(a) : y # p =>
            (x \in y..(a[y].next - 1) <=> x \in y..(b[y].next - 1))
      OBVIOUS
    <3>2. x \in p..(a[p].next - 1) <=> x \in p..(b[p].next - 1) \/ x \in r..(n - 1)
      BY <1>2
    <3> HIDE DEF r, n
    <3> QED BY <2>1, <2>2, <3>1, <3>2
  <2> QED BY <2>3
<1>4. Bytes(b) \cap r..(n - 1) = {}
  <2> SUFFICES ASSUME NEW x \in HeldIn(a)
               PROVE  x..(b[x].next - 1) \cap r..(n - 1) = {}
    BY DEF Bytes
  <2>1. CASE x = p
    BY <1>2, <2>1
  <2>2. CASE x # p
    <3>1. x..(a[x].next - 1) \cap p..(n - 1) = {}
      <4>1. x \in DOMAIN a \ {End}
        BY DEF HeldIn
      <4> QED BY <1>1, <2>2, <4>1, ItemsApart
    <3> QED BY <1>2, <2>2, <3>1
  <2> QED BY <2>1, <2>2
<1> QED
  BY <1>1, <1>3, <1>4, BytesFinite, BytesAdded

-----------------------------------------------------------------------------
(* plug_holes *)

LEMMA MergeFits ==
  ASSUME NEW h, NEW z, HeapFits(h, {z}), NEW p \in DOMAIN h.item \ {End},
         NEW q, q = h.item[p].next, q # End, ~h.item[p].used, ~h.item[q].used, z \in {p, q},
         h.item[q].next = End \/ h.item[h.item[q].next].used
  PROVE  LET r == Merge(h, p, q)
         IN  /\ HeapFits(r, {z} \ {q}) /\ SameHeld(r.item, h.item)
             /\ DOMAIN r.item = DOMAIN h.item \ {q}
             /\ r.item[p].next = h.item[q].next /\ r.item[p].prev = h.item[p].prev
             /\ \A x \in DOMAIN r.item : r.item[x].used = h.item[x].used
             /\ \A x \in DOMAIN r.item : x # p => r.item[x].next = h.item[x].next
<1> DEFINE r == Merge(h, p, q)
           it == h.item
<1>1. h \in HeapState /\ Links(it) /\ Merged(it, {z}) /\ Lowest(h)
      /\ h.used = Cardinality(Bytes(it))
  BY DEF HeapFits
<1>2. /\ r \in HeapState /\ Links(r.item)
      /\ r.lfree = (IF h.lfree = q THEN p ELSE h.lfree) /\ r.used = h.used
      /\ DOMAIN r.item = DOMAIN it \ {q}
      /\ \A x \in DOMAIN it \ {q} :
           /\ r.item[x].used = it[x].used
           /\ r.item[x].next = IF x = p THEN it[q].next ELSE it[x].next
      /\ r.item[p].prev = it[p].prev
  BY <1>1, MergeLinks
<1> HIDE DEF r
<1>3. p \in Nat /\ q \in Nat /\ p < q /\ q \in DOMAIN it \ {End} /\ h.lfree <= p
  <2>1. q \in DOMAIN it \ {End} /\ h.lfree <= p
    BY <1>1 DEF Links, Lowest
  <2> QED BY <1>1, <2>1, LinkFacts
<1>4. \A x \in DOMAIN it \ {End} : it[x].next = q => x = p
  BY <1>1, LinkFacts
<1>5. Merged(r.item, {z} \ {q})
  <2> SUFFICES ASSUME NEW x \in DOMAIN r.item \ {End}, r.item[x].next # End
               PROVE  \/ r.item[x].used \/ r.item[r.item[x].next].used
                      \/ x \in {z} \ {q} \/ r.item[x].next \in {z} \ {q}
    BY DEF Merged
  <2>0. x \in DOMAIN it \ {q, End} /\ r.item[x].next \in DOMAIN r.item
    BY <1>2 DEF Links
  <2>1. CASE x = p
    BY <1>2, <2>0, <2>1
  <2>2. CASE x # p
    <3>1. it[x].next = r.item[x].next /\ it[x].next # q
      BY <1>2, <1>4, <2>0, <2>2
    <3>2. it[x].used \/ it[it[x].next].used \/ x = z \/ it[x].next = z
      BY <1>1, <2>0, <3>1 DEF Merged
    <3> QED BY <1>2, <2>0, <3>1, <3>2
  <2> QED BY <2>1, <2>2
<1>6. Lowest(r)
  <2>1. h.lfree # q /\ h.lfree \in Nat
    <3>1. h.lfree \in Nat
      BY <1>1, LinkFacts DEF Lowest
    <3> QED BY <1>3, <3>1
  <2> QED BY <1>1, <1>2, <2>1 DEF Lowest
<1>7. SameHeld(r.item, it)
  <2>1. HeldIn(r.item) = HeldIn(it)
    BY <1>2 DEF HeldIn
  <2>2. \A x \in HeldIn(it) : x \in DOMAIN it \ {q} /\ x # p
    BY DEF HeldIn
  <2> QED BY <1>2, <2>1, <2>2 DEF SameHeld
<1>8. r.used = Cardinality(Bytes(r.item))
  BY <1>1, <1>2, <1>7, SameBytes
<1>9. HeapFits(r, {z} \ {q})
  BY <1>2, <1>5, <1>6, <1>8 DEF HeapFits
<1> QED
  BY <1>2, <1>3, <1>7, <1>9 DEF r

\* Whatever its neighbours are, a free item is one with them afterwards.
LEMMA PlugHolesFits ==
  ASSUME NEW h, NEW p, HeapFits(h, {p}), p \in DOMAIN h.item \ {End}, ~h.item[p].used
  PROVE  HeapFits(plug_holes(h, p), {}) /\ SameHeld(plug_holes(h, p).item, h.item)
<1> DEFINE it == h.item
           n == it[p].next
           f == IF it[n].used \/ n = End THEN h ELSE Merge(h, p, n)
           q == it[p].prev
<1>1. plug_holes(h, p) = IF q = p \/ it[q].used THEN f ELSE Merge(f, q, p)
  BY DEF plug_holes
<1>2. Links(it) /\ Merged(it, {p}) /\ n \in DOMAIN it /\ p < n /\ p \in Nat /\ n \in Nat
  <2>1. Links(it) /\ Merged(it, {p})
    BY DEF HeapFits
  <2> QED BY <2>1, LinkFacts DEF Links
<1> HIDE DEF n, q
<1>3. /\ HeapFits(f, {p}) /\ SameHeld(f.item, it)
      /\ p \in DOMAIN f.item /\ DOMAIN f.item \subseteq DOMAIN it
      /\ f.item[p].next = End \/ f.item[f.item[p].next].used
      /\ ~f.item[p].used /\ f.item[p].prev = q
      /\ \A x \in DOMAIN f.item : x < p => f.item[x].next = it[x].next
      /\ \A x \in DOMAIN it : x < p => x \in DOMAIN f.item
      /\ \A x \in DOMAIN f.item : f.item[x].used = it[x].used
  <2>1. CASE it[n].used \/ n = End
    <3>1. f = h
      BY <2>1
    <3> HIDE DEF f
    <3> QED BY <2>1, <3>1 DEF SameHeld, n, q
  <2>2. CASE ~(it[n].used \/ n = End)
    <3>1. f = Merge(h, p, n)
      BY <2>2
    <3> HIDE DEF f
    <3> DEFINE e == it[n].next
    <3>2. e \in DOMAIN it /\ e # p /\ e # n /\ (e = End \/ it[e].used)
      <4>1. n \in DOMAIN it \ {End} /\ e \in DOMAIN it /\ n < e
        BY <1>2, <2>2, LinkFacts DEF Links
      <4>2. e # p /\ e # n
        BY <1>2, <4>1, LinkFacts
      <4>3. e # End => it[n].used \/ it[e].used \/ n \in {p} \/ e \in {p}
        BY <1>2, <4>1 DEF Merged
      <4> QED BY <1>2, <2>2, <4>1, <4>2, <4>3
    <3>3. /\ HeapFits(f, {p} \ {n}) /\ SameHeld(f.item, it)
          /\ DOMAIN f.item = DOMAIN it \ {n}
          /\ f.item[p].next = e /\ f.item[p].prev = it[p].prev
          /\ \A x \in DOMAIN f.item : f.item[x].used = it[x].used
          /\ \A x \in DOMAIN f.item : x # p => f.item[x].next = it[x].next
      <4>1. HeapFits(h, {p}) /\ p \in DOMAIN h.item \ {End} /\ n = h.item[p].next /\ n # End
            /\ ~h.item[p].used /\ ~h.item[n].used /\ p \in {p, n}
            /\ (h.item[n].next = End \/ h.item[h.item[n].next].used)
        BY <2>2, <3>2 DEF n
      <4>2. LET r == Merge(h, p, n)
            IN  /\ HeapFits(r, {p} \ {n}) /\ SameHeld(r.item, h.item)
                /\ DOMAIN r.item = DOMAIN h.item \ {n}
                /\ r.item[p].next = h.item[n].next /\ r.item[p].prev = h.item[p].prev
                /\ \A x \in DOMAIN r.item : r.item[x].used = h.item[x].used
                /\ \A x \in DOMAIN r.item : x # p => r.item[x].next = h.item[x].next
        BY <4>1, MergeFits
      <4> QED BY <3>1, <4>2
    <3>4. {p} \ {n} = {p} /\ p # n
      BY <1>2
    <3>5. \A x \in DOMAIN it : x < p => x # n
      BY <1>2, LinkFacts
    <3>6. f.item[p].prev = q /\ ~it[p].used /\ p \in DOMAIN it
      BY <3>3 DEF q
    <3> HIDE DEF e, it
    <3>7. HeapFits(f, {p}) /\ p \in DOMAIN f.item /\ DOMAIN f.item \subseteq DOMAIN it
      BY <3>3, <3>4, <3>6
    <3>8. f.item[p].next = End \/ f.item[f.item[p].next].used
      <4>1. e \in DOMAIN f.item
        BY <3>2, <3>3
      <4> QED BY <3>2, <3>3, <4>1
    <3>9. /\ \A x \in DOMAIN f.item : x < p => f.item[x].next = it[x].next
          /\ \A x \in DOMAIN it : x < p => x \in DOMAIN f.item
      BY <1>2, <3>3, <3>5
    <3> QED BY <3>3, <3>6, <3>7, <3>8, <3>9
  <2> QED BY <2>1, <2>2
<1> HIDE DEF f, it
<1>4. Links(f.item) /\ Merged(f.item, {p}) /\ p \in DOMAIN f.item \ {End}
  BY <1>3 DEF HeapFits, it
<1>5. p # 0 => q \in DOMAIN f.item \ {End} /\ f.item[q].next = p /\ q < p /\ q # p
  <2> SUFFICES ASSUME p # 0
               PROVE  q \in DOMAIN f.item \ {End} /\ f.item[q].next = p /\ q < p /\ q # p
    OBVIOUS
  <2>1. q \in DOMAIN f.item \ {End} /\ f.item[q].next = p
    BY <1>3, <1>4, Predecessor
  <2>2. q < p /\ q \in Nat
    BY <1>4, <2>1, LinkFacts
  <2> QED BY <1>2, <2>1, <2>2
<1>6. p = 0 => q = p
  BY <1>3, <1>4 DEF Links
<1>7. CASE q = p \/ it[q].used
  <2>1. plug_holes(h, p) = f
    BY <1>1, <1>7
  <2>2. Merged(f.item, {})
    <3> SUFFICES ASSUME NEW x \in DOMAIN f.item \ {End}, f.item[x].next # End
                 PROVE  f.item[x].used \/ f.item[f.item[x].next].used
      BY DEF Merged
    <3>1. f.item[x].used \/ f.item[f.item[x].next].used \/ x = p \/ f.item[x].next = p
      BY <1>4 DEF Merged
    <3>2. ASSUME f.item[x].next = p PROVE f.item[x].used
      <4>1. x < p /\ x \in Nat
        BY <3>2, <1>4, LinkFacts
      <4>2. p # 0
        BY <1>2, <4>1
      <4>3. q \in DOMAIN f.item \ {End} /\ f.item[q].next = p /\ q # p
        BY <1>5, <4>2
      <4>4. x = q
        BY <1>4, <3>2, <4>3, LinkFacts
      <4> QED BY <1>3, <1>7, <4>3, <4>4
    <3> QED BY <1>3, <3>1, <3>2
  <2>3. HeapFits(f, {})
    BY <1>3, <2>2 DEF HeapFits
  <2> QED BY <1>3, <2>1, <2>3 DEF it
<1>8. CASE ~(q = p \/ it[q].used)
  <2>1. plug_holes(h, p) = Merge(f, q, p)
    BY <1>1, <1>8
  <2>2. p # 0 /\ q \in DOMAIN f.item \ {End} /\ f.item[q].next = p /\ ~f.item[q].used
    BY <1>3, <1>5, <1>6, <1>8
  <2>3. LET r == Merge(f, q, p)
        IN  HeapFits(r, {p} \ {p}) /\ SameHeld(r.item, f.item)
    <3>1. p # End
      BY <1>4
    <3> QED BY <1>3, <2>2, <3>1, MergeFits
  <2>4. {p} \ {p} = {}
    OBVIOUS
  <2> QED BY <1>3, <2>1, <2>3, <2>4 DEF SameHeld, it
<1> QED
  BY <1>7, <1>8

-----------------------------------------------------------------------------
(* Looking for a free item *)

LEMMA NextFreeFacts ==
  ASSUME NEW h, Links(h.item), NEW p \in DOMAIN h.item
  PROVE  LET q == NextFree(h, p)
         IN  /\ q \in DOMAIN h.item
             /\ \A x \in DOMAIN h.item : ~h.item[x].used /\ x >= p => q <= x
<1> DEFINE it == h.item
           S == {q \in DOMAIN it : q = End \/ ~it[q].used}
           v == [q \in DOMAIN it |-> q]
           g == CHOOSE g : g = [q \in DOMAIN h.item |->
                                  IF q = End \/ ~h.item[q].used THEN q ELSE g[h.item[q].next]]
<1>1. NextFree(h, p) = g[p]
  BY DEF NextFree
<1>2. S \in SUBSET DOMAIN it /\ End \in S
  BY DEF Links
<1>3. \A f : Walk(it, S, v, f)
           = [q \in DOMAIN it |-> IF q = End \/ ~it[q].used THEN q ELSE f[it[q].next]]
  BY DEF Walk
<1> HIDE DEF v, S
<1>4. \E f : f = Walk(it, S, v, f)
  BY <1>2, ChainWalkExists
<1>5. \E f : f = [q \in DOMAIN it |-> IF q = End \/ ~it[q].used THEN q ELSE f[it[q].next]]
  <2>1. PICK f : f = Walk(it, S, v, f)
    BY <1>4
  <2>2. f = [q \in DOMAIN it |-> IF q = End \/ ~it[q].used THEN q ELSE f[it[q].next]]
    BY <1>3, <2>1, Zenon
  <2> QED BY <2>2, Zenon
<1>6. g = [q \in DOMAIN it |-> IF q = End \/ ~it[q].used THEN q ELSE g[it[q].next]]
  BY <1>5
<1> HIDE DEF g
<1>7. g = Walk(it, S, v, g)
  BY <1>3, <1>6
<1>8. g[p] = v[FirstAt(S, p)]
  BY <1>2, <1>7, ChainWalkEnds
<1>9. FirstAt(S, p) \in S /\ \A x \in S : x >= p => FirstAt(S, p) <= x
  BY <1>2, FirstAtFacts
<1> QED
  BY <1>1, <1>2, <1>8, <1>9 DEF S, v

LEMMA FirstFitFacts ==
  ASSUME NEW h, Links(h.item), Lowest(h), NEW size \in Nat \ {0}
  PROVE  LET p == FirstFit(h, size)
         IN  /\ p # Nowhere =>
                  p \in DOMAIN h.item \ {End} /\ ~h.item[p].used /\ Data(h, p) >= size
             /\ (\E x \in DOMAIN h.item : ~h.item[x].used /\ Data(h, x) >= size)
                  => p # Nowhere
<1> DEFINE it == h.item
           S == {q \in DOMAIN it : q > Size - size \/ (~it[q].used /\ Data(h, q) >= size)}
           v == [q \in DOMAIN it |-> IF q > Size - size THEN Nowhere ELSE q]
           g == CHOOSE g : g = [q \in DOMAIN h.item |->
                                  IF q > Size - size THEN Nowhere
                                  ELSE IF ~h.item[q].used /\ Data(h, q) >= size THEN q
                                  ELSE g[h.item[q].next]]
           l == h.lfree
           e == FirstAt(S, l)
<1>0. /\ Size \in Nat /\ End = Size + Header /\ Header \in Nat /\ End \in Nat
      /\ l \in DOMAIN it /\ DOMAIN it \subseteq Nat
  BY HeapSizes, LinkFacts DEF Lowest
<1>1. FirstFit(h, size) = IF size > Size THEN Nowhere ELSE g[l]
  BY DEF FirstFit
<1>2. S \in SUBSET DOMAIN it /\ End \in S
  BY <1>0 DEF Links
<1>3. \A f : Walk(it, S, v, f)
           = [q \in DOMAIN it |-> IF q > Size - size THEN Nowhere
                                  ELSE IF ~it[q].used /\ Data(h, q) >= size THEN q
                                  ELSE f[it[q].next]]
  <2> TAKE f
  <2>1. \A q \in DOMAIN it : (IF q \in S THEN v[q] ELSE f[it[q].next])
          = IF q > Size - size THEN Nowhere
            ELSE IF ~it[q].used /\ Data(h, q) >= size THEN q ELSE f[it[q].next]
    OBVIOUS
  <2> HIDE DEF S, v
  <2> QED BY <2>1 DEF Walk
<1>a. \A q \in S : \/ q > Size - size /\ v[q] = Nowhere
                   \/ q <= Size - size /\ v[q] = q /\ ~it[q].used /\ Data(h, q) >= size
  BY <1>0
<1>b. \A x \in DOMAIN it : ~it[x].used /\ Data(h, x) >= size => x \in S
  BY DEF Walk
<1> HIDE DEF v, S
<1>4. \E f : f = Walk(it, S, v, f)
  BY <1>2, ChainWalkExists
<1>5. \E f : f = [q \in DOMAIN it |-> IF q > Size - size THEN Nowhere
                                      ELSE IF ~it[q].used /\ Data(h, q) >= size THEN q
                                      ELSE f[it[q].next]]
  BY <1>3, <1>4
<1>6. g = [q \in DOMAIN it |-> IF q > Size - size THEN Nowhere
                               ELSE IF ~it[q].used /\ Data(h, q) >= size THEN q
                               ELSE g[it[q].next]]
  BY <1>5
<1> HIDE DEF g
<1>7. g = Walk(it, S, v, g)
  BY <1>3, <1>6
<1>8. g[l] = v[e]
  BY <1>0, <1>2, <1>7, ChainWalkEnds
<1>9. e \in S /\ \A x \in S : x >= l => e <= x
  BY <1>0, <1>2, FirstAtFacts
<1> HIDE DEF e, l
<1>10. ASSUME FirstFit(h, size) # Nowhere
       PROVE  /\ FirstFit(h, size) \in DOMAIN it \ {End} /\ ~it[FirstFit(h, size)].used
              /\ Data(h, FirstFit(h, size)) >= size
  <2>1. FirstFit(h, size) = v[e] /\ v[e] # Nowhere
    BY <1>1, <1>8, <1>10
  <2>2. v[e] = e /\ e \in DOMAIN it /\ ~it[e].used /\ Data(h, e) >= size
    BY <1>2, <1>9, <1>a, <2>1
  <2>3. e # End
    BY <2>1, <2>2 DEF Nowhere
  <2> QED BY <2>1, <2>2, <2>3
<1>11. ASSUME NEW x \in DOMAIN it, ~it[x].used, Data(h, x) >= size
       PROVE  FirstFit(h, size) # Nowhere
  <2>1. x \in DOMAIN it \ {End}
    BY <1>11 DEF Links
  <2>2. it[x].next \in Nat /\ it[x].next <= End /\ x \in Nat
    BY <2>1, <1>0, LinkFacts, HeapSizes
  <2>3. x + size <= Size
    BY <1>0, <1>11, <2>2 DEF Data
  <2>4. x \in S /\ x >= l
    BY <1>b, <1>11 DEF Lowest, l
  <2>5. e <= x /\ e \in Nat
    BY <1>0, <1>2, <1>9, <2>4
  <2>6. e <= Size - size /\ ~(size > Size) /\ e # End
    BY <1>0, <2>2, <2>3, <2>5
  <2>7. v[e] = e
    BY <1>0, <1>9, <1>a, <2>5, <2>6
  <2> QED BY <1>1, <1>8, <2>6, <2>7 DEF Nowhere
<1> QED
  BY <1>10, <1>11

-----------------------------------------------------------------------------
(* Allocating, freeing, shrinking *)

Marked(it, p, b) == [it EXCEPT ![p].used = b]

\* Taking or freeing an item leaves the chain as it is.
LEMMA MarkLinks ==
  ASSUME NEW it, Links(it), NEW p \in DOMAIN it \ {End}, NEW b \in BOOLEAN,
         NEW a, a = Marked(it, p, b)
  PROVE  /\ Links(a) /\ DOMAIN a = DOMAIN it
         /\ \A x \in DOMAIN it :
              /\ a[x].next = it[x].next /\ a[x].prev = it[x].prev
              /\ a[x].used = IF x = p THEN b ELSE it[x].used
<1>1. it \in [DOMAIN it -> Item]
  BY DEF Links
<1>2. /\ a \in [DOMAIN it -> Item]
      /\ \A x \in DOMAIN it :
           /\ a[x].next = it[x].next /\ a[x].prev = it[x].prev
           /\ a[x].used = IF x = p THEN b ELSE it[x].used
  BY <1>1 DEF Item, Marked
<1>3. DOMAIN a = DOMAIN it
  BY <1>2
<1>4. \A x \in DOMAIN it \ {End} : it[x].next \in DOMAIN it
  BY DEF Links
<1> QED
  BY <1>2, <1>3, <1>4 DEF Links

\* An allocation takes a free item, or a part of it, and nothing from anybody.
LEMMA AllocAtFits ==
  ASSUME NEW h, HeapFits(h, {}), NEW p \in DOMAIN h.item \ {End}, ~h.item[p].used,
         NEW size \in Aligned, size \in Nat \ {0}, Data(h, p) >= size
  PROVE  LET r == AllocAt(h, p, size)
         IN  /\ HeapFits(r, {})
             /\ HeldIn(r.item) = HeldIn(h.item) \union {p} /\ p \notin HeldIn(h.item)
             /\ \A x \in HeldIn(h.item) : r.item[x].next = h.item[x].next
             /\ Data(r, p) >= size
<1> DEFINE it == h.item
           room == RT_ALIGN(MinSize)
           s == p + Header + size
           cut == IF Data(h, p) >= size + Header + room THEN Split(h, p, size) ELSE h
           n == cut.item[p].next
           mi == [cut.item EXCEPT ![p].used = TRUE]
           mine == [cut EXCEPT !.item[p].used = TRUE, !.used = @ + n - p]
           l == IF mine.lfree = p THEN NextFree(mine, p) ELSE mine.lfree
           r == AllocAt(h, p, size)
<1>0. /\ h \in HeapState /\ Links(it) /\ Merged(it, {}) /\ Lowest(h)
      /\ h.used = Cardinality(Bytes(it)) /\ Header \in Nat /\ room \in Nat \ {0}
      /\ size \in Nat \ {0} /\ p \in Nat /\ p \in DOMAIN it \ {End} /\ ~it[p].used
      /\ it[p].next \in Nat /\ h.lfree \in Nat /\ h.lfree <= p
  <2>1. /\ h \in HeapState /\ Links(it) /\ Merged(it, {}) /\ Lowest(h)
        /\ h.used = Cardinality(Bytes(it))
    BY DEF HeapFits
  <2>2. MinSize \in Nat
    BY SmallMemAssumption
  <2> QED BY <2>1, <2>2, LinkFacts, WantedSize, HeapSizes DEF Lowest
<1>1. r = [mine EXCEPT !.lfree = l]
  BY DEF AllocAt
<1> HIDE DEF room
<1>2. /\ cut \in HeapState /\ Links(cut.item) /\ cut.lfree = h.lfree /\ cut.used = h.used
      /\ DOMAIN it \subseteq DOMAIN cut.item /\ p \in DOMAIN cut.item \ {End}
      /\ \A x \in DOMAIN it : /\ cut.item[x].used = it[x].used
                              /\ x # p => cut.item[x].next = it[x].next
      /\ \A x \in DOMAIN cut.item \ DOMAIN it : x > p /\ ~cut.item[x].used
      /\ n >= p + Header + size /\ n \in Nat
      /\ Merged(cut.item, {p})
  <2>1. CASE Data(h, p) >= size + Header + room
    <3>1. cut = Split(h, p, size)
      BY <2>1
    <3> HIDE DEF cut
    <3>2. s \in Offset /\ s + Header < it[p].next
      <4>1. s + Header < it[p].next
        BY <1>0, <2>1 DEF Data
      <4>2. s \in Aligned
        <5>1. p \in Aligned /\ Header \in Aligned
          BY <1>0, OffsetAligned, HeapSizes DEF Links
        <5> QED BY <5>1, AlignedSum
      <4>3. it[p].next \in Offset /\ s \in Nat /\ End \in Nat
        BY <1>0, HeapSizes, LinkFacts
      <4>4. it[p].next <= End
        <5>1. it[p].next \in 0..End
          BY <4>3, HeapSizes
        <5> QED BY <4>3, <5>1
      <4>5. s <= End
        BY <1>0, <4>1, <4>3, <4>4
      <4> QED BY <4>1, <4>2, <4>5, OffsetAligned
    <3>3. /\ cut \in HeapState
          /\ cut.lfree = h.lfree /\ cut.used = h.used
          /\ s \in Nat /\ p < s /\ s < it[p].next /\ s \notin DOMAIN it
          /\ DOMAIN cut.item = DOMAIN it \union {s}
          /\ ~cut.item[s].used /\ cut.item[s].next = it[p].next
          /\ \A x \in DOMAIN it :
               /\ cut.item[x].used = it[x].used
               /\ cut.item[x].next = IF x = p THEN s ELSE it[x].next
          /\ Links(cut.item)
      BY <1>0, <3>1, <3>2, SplitLinks
    <3> HIDE DEF s
    <3>4. Merged(cut.item, {p})
      <4> SUFFICES ASSUME NEW x \in DOMAIN cut.item \ {End}, x # p, cut.item[x].next # p,
                          cut.item[x].next # End
                   PROVE  cut.item[x].used \/ cut.item[cut.item[x].next].used
        BY DEF Merged
      <4>1. CASE x = s
        <5>1. it[p].next # End /\ it[p].next \in DOMAIN it
          BY <1>0, <3>3, <4>1 DEF Links
        <5>2. it[it[p].next].used
          BY <1>0, <5>1 DEF Merged
        <5> QED BY <3>3, <4>1, <5>1, <5>2
      <4>2. CASE x # s
        <5>1. x \in DOMAIN it \ {End} /\ cut.item[x].next = it[x].next
              /\ it[x].next \in DOMAIN it
          BY <1>0, <3>3, <4>2 DEF Links
        <5>2. it[x].used \/ it[it[x].next].used
          BY <1>0, <5>1 DEF Merged
        <5> QED BY <3>3, <5>1, <5>2
      <4> QED BY <4>1, <4>2
    <3>5. n = s /\ n >= p + Header + size
      BY <1>0, <3>3 DEF s
    <3> QED BY <1>0, <3>3, <3>4, <3>5
  <2>2. CASE ~(Data(h, p) >= size + Header + room)
    <3>1. cut = h
      BY <2>2
    <3>2. it[p].next >= p + Header + size
      BY <1>0 DEF Data
    <3>3. Merged(it, {p})
      BY <1>0 DEF Merged
    <3> HIDE DEF cut
    <3> QED BY <1>0, <3>1, <3>2, <3>3
  <2> QED BY <2>1, <2>2
<1> HIDE DEF cut, s
<1>3. /\ mine.item = mi /\ mine.lfree = h.lfree /\ mine.used = h.used + n - p
      /\ Links(mi) /\ DOMAIN mi = DOMAIN cut.item /\ mine.used \in Int
      /\ \A x \in DOMAIN mi : /\ mi[x].next = cut.item[x].next
                              /\ mi[x].used = IF x = p THEN TRUE ELSE cut.item[x].used
  <2>1. Links(mi) /\ DOMAIN mi = DOMAIN cut.item
        /\ \A x \in DOMAIN cut.item :
             /\ mi[x].next = cut.item[x].next
             /\ mi[x].used = IF x = p THEN TRUE ELSE cut.item[x].used
    <3> DEFINE b == TRUE
    <3>1. mi = Marked(cut.item, p, b) /\ b \in BOOLEAN
      BY DEF Marked
    <3> HIDE DEF mi, b
    <3>2. Links(mi) /\ DOMAIN mi = DOMAIN cut.item
          /\ \A x \in DOMAIN cut.item :
               /\ mi[x].next = cut.item[x].next
               /\ mi[x].used = IF x = p THEN b ELSE cut.item[x].used
      BY <1>2, <3>1, MarkLinks
    <3> QED BY <3>2 DEF b
  <2>2. mine.item = mi /\ mine.lfree = h.lfree /\ mine.used = h.used + n - p
    BY <1>2 DEF HeapState
  <2>3. h.used \in Int
    BY <1>0 DEF HeapState
  <2> HIDE DEF mine, mi
  <2>4. mine.used \in Int
    BY <1>0, <1>2, <2>2, <2>3
  <2> QED BY <2>1, <2>2, <2>4
<1>4. l \in DOMAIN mi /\ \A x \in DOMAIN mi : ~mi[x].used => l <= x
  <2>1. CASE h.lfree = p
    <3>1. l = NextFree(mine, p)
      BY <1>3, <2>1
    <3> HIDE DEF l, mine, mi
    <3>2. l \in DOMAIN mi /\ \A x \in DOMAIN mi : ~mi[x].used /\ x >= p => l <= x
      BY <1>2, <1>3, <3>1, NextFreeFacts
    <3>3. \A x \in DOMAIN mi : ~mi[x].used => x >= p
      <4> SUFFICES ASSUME NEW x \in DOMAIN mi, ~mi[x].used PROVE x >= p
        OBVIOUS
      <4>1. CASE x \in DOMAIN it
        BY <1>0, <1>2, <1>3, <2>1, <4>1 DEF Lowest
      <4>2. CASE x \notin DOMAIN it
        <5>1. x > p /\ x \in Nat
          BY <1>2, <1>3, <4>2, LinkFacts
        <5> QED BY <1>0, <5>1
      <4> QED BY <4>1, <4>2
    <3> QED BY <3>2, <3>3
  <2>2. CASE h.lfree # p
    <3>1. l = h.lfree
      BY <1>3, <2>2
    <3> HIDE DEF l, mine, mi
    <3> SUFFICES ASSUME NEW x \in DOMAIN mi, ~mi[x].used PROVE h.lfree <= x
      BY <1>0, <1>2, <1>3, <3>1 DEF Lowest
    <3>2. CASE x \in DOMAIN it
      BY <1>0, <1>2, <1>3, <3>2 DEF Lowest
    <3>3. CASE x \notin DOMAIN it
      <4>1. x > p /\ x \in Nat
        BY <1>2, <1>3, <3>3, LinkFacts
      <4> QED BY <1>0, <4>1
    <3> QED BY <3>2, <3>3
  <2> QED BY <2>1, <2>2
<1>5. /\ r.item = mi /\ r.lfree = l /\ r.used = h.used + (n - p) /\ r \in HeapState
  <2>1. mi \in Chains
    BY <1>3, ChainType
  <2>2. l \in Offset
    BY <1>3, <1>4 DEF Links
  <2> HIDE DEF l, mi
  <2>3. mine \in [item : Chains, lfree : Offset, used : Int]
    <3> DEFINE u == cut.used + n - p
    <3>1. mine = [cut EXCEPT !.item = mi, !.used = u]
      BY <1>2 DEF HeapState, mi
    <3>2. u \in Int
      BY <1>0, <1>2 DEF HeapState
    <3> HIDE DEF u, mine
    <3> QED BY <1>2, <2>1, <3>1, <3>2 DEF HeapState
  <2> HIDE DEF mine
  <2>4. r.item = mine.item /\ r.lfree = l /\ r.used = mine.used /\ r \in HeapState
    BY <1>1, <2>2, <2>3 DEF HeapState
  <2>5. h.used + n - p = h.used + (n - p)
    BY <1>0, <1>2 DEF HeapState
  <2> QED BY <1>3, <2>4, <2>5
<1> HIDE DEF mi, mine, l, r, n
<1>6. HeldIn(mi) = HeldIn(it) \union {p} /\ p \notin HeldIn(it)
  <2>1. \A x \in DOMAIN mi \ {End} : mi[x].used <=> (x \in DOMAIN it /\ it[x].used) \/ x = p
    BY <1>0, <1>2, <1>3
  <2> QED BY <1>0, <1>2, <1>3, <2>1 DEF HeldIn
<1>7. \A x \in HeldIn(it) : mi[x].next = it[x].next
  <2>1. \A x \in HeldIn(it) : x # p /\ x \in DOMAIN it
    BY <1>6 DEF HeldIn
  <2> QED BY <1>2, <1>3, <2>1
<1>8. Merged(mi, {})
  <2> SUFFICES ASSUME NEW x \in DOMAIN mi \ {End}, mi[x].next # End
               PROVE  mi[x].used \/ mi[mi[x].next].used
    BY DEF Merged
  <2>1. mi[x].next \in DOMAIN mi
    BY <1>3 DEF Links
  <2>2. cut.item[x].used \/ cut.item[cut.item[x].next].used \/ x = p \/ cut.item[x].next = p
    BY <1>2, <1>3 DEF Merged
  <2> QED BY <1>3, <2>1, <2>2
<1>9. r.used = Cardinality(Bytes(mi))
  <2>1. p \in DOMAIN mi \ {End} /\ mi[p].next = n
    BY <1>2, <1>3 DEF n
  <2>2. Cardinality(Bytes(mi)) = Cardinality(Bytes(it)) + (mi[p].next - p)
    BY <1>0, <1>3, <1>6, <1>7, <2>1, BytesGrow
  <2> QED BY <1>0, <1>5, <2>1, <2>2
<1>10. HeapFits(r, {})
  BY <1>3, <1>4, <1>5, <1>8, <1>9 DEF HeapFits, Lowest
<1>11. Data(r, p) >= size
  <2>1. r.item[p].next = n
    BY <1>2, <1>3, <1>5 DEF n
  <2> QED BY <1>0, <1>2, <2>1 DEF Data
<1> QED
  BY <1>5, <1>6, <1>7, <1>10, <1>11 DEF r

\* A free takes one item from its caller and touches no other.
LEMMA FreedFits ==
  ASSUME NEW h, HeapFits(h, {}), NEW p \in HeldIn(h.item)
  PROVE  LET r == Freed(h, p)
         IN  /\ HeapFits(r, {})
             /\ HeldIn(r.item) = HeldIn(h.item) \ {p}
             /\ \A x \in HeldIn(r.item) : r.item[x].next = h.item[x].next
<1> DEFINE it == h.item
           gi == [it EXCEPT ![p].used = FALSE]
           l == IF p < h.lfree THEN p ELSE h.lfree
           u == h.used - (it[p].next - p)
           g == [h EXCEPT !.item[p].used = FALSE, !.lfree = l, !.used = u]
           r == Freed(h, p)
<1>0. /\ h \in HeapState /\ Links(it) /\ Merged(it, {}) /\ Lowest(h)
      /\ h.used = Cardinality(Bytes(it)) /\ p \in Nat /\ p \in DOMAIN it \ {End}
      /\ it[p].used /\ it[p].next \in Nat /\ h.lfree \in Nat /\ DOMAIN it \subseteq Nat
  <2>1. /\ h \in HeapState /\ Links(it) /\ Merged(it, {}) /\ Lowest(h)
        /\ h.used = Cardinality(Bytes(it)) /\ p \in DOMAIN it \ {End} /\ it[p].used
    BY DEF HeapFits, HeldIn
  <2> QED BY <2>1, LinkFacts DEF Lowest
<1>1. r = plug_holes(g, p)
  BY DEF Freed
<1>2. /\ Links(gi) /\ DOMAIN gi = DOMAIN it
      /\ \A x \in DOMAIN it : /\ gi[x].next = it[x].next
                              /\ gi[x].used = IF x = p THEN FALSE ELSE it[x].used
  <2> DEFINE b == FALSE
  <2>1. gi = Marked(it, p, b) /\ b \in BOOLEAN
    BY DEF Marked
  <2> HIDE DEF gi, b, it
  <2>2. Links(gi) /\ DOMAIN gi = DOMAIN it
        /\ \A x \in DOMAIN it : /\ gi[x].next = it[x].next
                                /\ gi[x].used = IF x = p THEN b ELSE it[x].used
    <3>1. Links(it) /\ p \in DOMAIN it \ {End}
      BY <1>0
    <3> QED BY <2>1, <3>1, MarkLinks
  <2> QED BY <2>2 DEF b
<1>3. g.item = gi /\ g.lfree = l /\ g.used = u /\ g \in HeapState
  <2>1. g = [h EXCEPT !.item = gi, !.lfree = l, !.used = u]
    BY <1>0 DEF HeapState
  <2>2. gi \in Chains
    BY <1>2, ChainType
  <2>3. l \in Offset
    BY <1>0 DEF HeapState, Links
  <2>4. u \in Int
    BY <1>0 DEF HeapState
  <2> HIDE DEF g, gi, l, u
  <2> QED BY <1>0, <2>1, <2>2, <2>3, <2>4 DEF HeapState
<1>4. l \in DOMAIN gi /\ \A x \in DOMAIN gi : ~gi[x].used => l <= x
  <2>1. l \in DOMAIN gi /\ l <= p /\ l <= h.lfree /\ l \in Nat
    BY <1>0, <1>2 DEF Lowest
  <2> HIDE DEF gi, l, it
  <2> SUFFICES ASSUME NEW x \in DOMAIN gi, ~gi[x].used PROVE l <= x
    BY <2>1
  <2>2. CASE x = p
    BY <2>1, <2>2
  <2>3. CASE x # p
    <3>1. h.lfree <= x /\ x \in Nat
      BY <1>0, <1>2, <2>3 DEF Lowest, it
    <3> QED BY <1>0, <2>1, <3>1
  <2> QED BY <2>2, <2>3
<1> HIDE DEF gi, g, l
<1>5. HeldIn(gi) = HeldIn(it) \ {p} /\ p \notin HeldIn(gi)
  <2>1. \A x \in DOMAIN it \ {End} : gi[x].used <=> it[x].used /\ x # p
    BY <1>2
  <2> QED BY <1>2, <2>1 DEF HeldIn
<1>6. Merged(gi, {p})
  <2> SUFFICES ASSUME NEW x \in DOMAIN gi \ {End}, x # p, gi[x].next # p, gi[x].next # End
               PROVE  gi[x].used \/ gi[gi[x].next].used
    BY DEF Merged
  <2>1. it[x].used \/ it[it[x].next].used
    BY <1>0, <1>2 DEF Merged
  <2>2. it[x].next \in DOMAIN it
    BY <1>0, <1>2 DEF Links
  <2> QED BY <1>2, <2>1, <2>2
<1>7. u = Cardinality(Bytes(gi))
  <2>1. Cardinality(Bytes(it)) = Cardinality(Bytes(gi)) + (it[p].next - p)
    <3>1. HeldIn(it) = HeldIn(gi) \union {p}
      BY <1>5
    <3>2. \A x \in HeldIn(gi) : it[x].next = gi[x].next
      BY <1>2 DEF HeldIn
    <3> QED BY <1>0, <1>2, <1>5, <3>1, <3>2, BytesGrow
  <2>2. Cardinality(Bytes(gi)) \in Nat
    BY <1>2, BytesFinite, HeapSizes
  <2> QED BY <1>0, <2>1, <2>2
<1> HIDE DEF u
<1>8. HeapFits(g, {p}) /\ p \in DOMAIN g.item \ {End} /\ ~g.item[p].used
  BY <1>0, <1>2, <1>3, <1>4, <1>6, <1>7 DEF HeapFits, Lowest
<1>9. HeapFits(r, {}) /\ SameHeld(r.item, gi)
  BY <1>1, <1>3, <1>8, PlugHolesFits
<1> HIDE DEF r
<1>10. \A x \in HeldIn(gi) : gi[x].next = it[x].next
  BY <1>2 DEF HeldIn
<1> QED
  BY <1>5, <1>9, <1>10 DEF SameHeld, r

\* A shrink gives back the end of an item and leaves the rest where it is.
LEMMA ShrunkFits ==
  ASSUME NEW h, HeapFits(h, {}), NEW p \in HeldIn(h.item),
         NEW size \in Aligned, size \in Nat \ {0}, size + Header + MinSize < Data(h, p)
  PROVE  LET r == Shrunk(h, p, size)
         IN  /\ HeapFits(r, {})
             /\ HeldIn(r.item) = HeldIn(h.item)
             /\ Data(r, p) = size
             /\ \A x \in HeldIn(h.item) : x # p => r.item[x].next = h.item[x].next
<1> DEFINE it == h.item
           s == p + Header + size
           n == it[p].next
           cut == Split(h, p, size)
           l == IF s < h.lfree THEN s ELSE h.lfree
           u == h.used - (Data(h, p) - size)
           g == [cut EXCEPT !.lfree = l, !.used = u]
           r == Shrunk(h, p, size)
<1>0. /\ h \in HeapState /\ Links(it) /\ Merged(it, {}) /\ Lowest(h)
      /\ h.used = Cardinality(Bytes(it)) /\ p \in Nat /\ p \in DOMAIN it \ {End}
      /\ it[p].used /\ n \in Nat /\ h.lfree \in Nat /\ DOMAIN it \subseteq Nat
      /\ Header \in Nat /\ MinSize \in Nat \ {0} /\ size \in Nat \ {0} /\ End \in Nat
  <2>1. /\ h \in HeapState /\ Links(it) /\ Merged(it, {}) /\ Lowest(h)
        /\ h.used = Cardinality(Bytes(it)) /\ p \in DOMAIN it \ {End} /\ it[p].used
    BY DEF HeapFits, HeldIn
  <2>2. MinSize \in Nat \ {0}
    BY SmallMemAssumption
  <2> QED BY <2>1, <2>2, LinkFacts, HeapSizes DEF Lowest
<1>1. s \in Offset /\ s + Header < n /\ s \in Nat /\ s # End
  <2>1. s + Header < n /\ s \in Nat
    BY <1>0 DEF Data
  <2>2. s \in Aligned
    <3>1. p \in Aligned /\ Header \in Aligned
      BY <1>0, OffsetAligned, HeapSizes DEF Links
    <3> QED BY <3>1, AlignedSum
  <2>3. n \in 0..End
    BY <1>0, HeapSizes, LinkFacts
  <2>4. s <= End /\ s # End
    BY <1>0, <2>1, <2>3
  <2> QED BY <2>1, <2>2, <2>4, OffsetAligned
<1>2. r = plug_holes(g, s)
  <2>1. cut.lfree = h.lfree /\ cut.used = h.used
    BY <1>0, <1>1, SplitLinks
  <2> HIDE DEF cut
  <2>2. r = plug_holes([cut EXCEPT !.lfree = IF s < @ THEN s ELSE @,
                                   !.used = @ - (Data(h, p) - size)], s)
    BY DEF Shrunk, cut
  <2> QED BY <2>1, <2>2
<1>3. /\ cut \in HeapState
      /\ p < s /\ s < n /\ s \notin DOMAIN it
      /\ DOMAIN cut.item = DOMAIN it \union {s}
      /\ ~cut.item[s].used /\ cut.item[s].next = n
      /\ \A x \in DOMAIN it :
           /\ cut.item[x].used = it[x].used
           /\ cut.item[x].next = IF x = p THEN s ELSE it[x].next
      /\ Links(cut.item)
  BY <1>0, <1>1, SplitLinks
<1> HIDE DEF cut
<1>4. g.item = cut.item /\ g.lfree = l /\ g.used = u /\ g \in HeapState
  <2>1. l \in Offset
    BY <1>0, <1>1 DEF HeapState
  <2>2. u \in Int
    BY <1>0 DEF HeapState, Data
  <2> HIDE DEF l, u
  <2> QED BY <1>3, <2>1, <2>2 DEF HeapState
<1>5. l \in DOMAIN cut.item /\ \A x \in DOMAIN cut.item : ~cut.item[x].used => l <= x
  <2>1. l \in DOMAIN cut.item /\ l <= s /\ l <= h.lfree /\ l \in Nat
    BY <1>0, <1>1, <1>3 DEF Lowest
  <2> HIDE DEF l, it, s
  <2> SUFFICES ASSUME NEW x \in DOMAIN cut.item, ~cut.item[x].used PROVE l <= x
    BY <2>1
  <2>2. CASE x = s
    BY <2>1, <2>2
  <2>3. CASE x # s
    <3>1. h.lfree <= x /\ x \in Nat
      BY <1>0, <1>3, <2>3 DEF Lowest, it
    <3> QED BY <1>0, <2>1, <3>1
  <2> QED BY <2>2, <2>3
<1>6. HeldIn(cut.item) = HeldIn(it)
  <2>1. s # End
    BY <1>1
  <2>2. \A x : x \in HeldIn(cut.item) <=> x \in HeldIn(it)
    BY <1>3 DEF HeldIn
  <2> QED BY <2>2
<1>7. Merged(cut.item, {s})
  <2> SUFFICES ASSUME NEW x \in DOMAIN cut.item \ {End}, x # s, cut.item[x].next # s,
                      cut.item[x].next # End
               PROVE  cut.item[x].used \/ cut.item[cut.item[x].next].used
    BY DEF Merged
  <2>1. x \in DOMAIN it \ {End} /\ cut.item[x].next = it[x].next /\ it[x].next \in DOMAIN it
    BY <1>0, <1>3 DEF Links
  <2>2. it[x].used \/ it[it[x].next].used
    BY <1>0, <2>1 DEF Merged
  <2> QED BY <1>3, <2>1, <2>2
<1>8. u = Cardinality(Bytes(cut.item))
  <2>1. Cardinality(Bytes(it)) = Cardinality(Bytes(cut.item)) + (n - cut.item[p].next)
    <3>1. p \in HeldIn(it) /\ cut.item[p].next = s
      BY <1>0, <1>3
    <3>2. \A x \in HeldIn(it) : x # p => cut.item[x].next = it[x].next
      BY <1>3 DEF HeldIn
    <3>3. p < cut.item[p].next /\ cut.item[p].next <= it[p].next
      BY <1>0, <1>1, <1>3, <3>1
    <3> QED BY <1>0, <1>3, <1>6, <3>1, <3>2, <3>3, BytesShrink
  <2>2. Cardinality(Bytes(cut.item)) \in Nat
    BY <1>3, BytesFinite, HeapSizes
  <2>3. n - cut.item[p].next = Data(h, p) - size
    BY <1>0, <1>3 DEF Data
  <2>4. Data(h, p) - size \in Int
    BY <1>0 DEF Data
  <2> QED BY <1>0, <2>1, <2>2, <2>3, <2>4
<1> HIDE DEF u, l, g
<1>9. HeapFits(g, {s}) /\ s \in DOMAIN g.item \ {End} /\ ~g.item[s].used
  <2>1. s # End
    BY <1>1
  <2> QED BY <1>3, <1>4, <1>5, <1>7, <1>8, <2>1 DEF HeapFits, Lowest
<1>10. HeapFits(r, {}) /\ SameHeld(r.item, cut.item)
  BY <1>2, <1>4, <1>9, PlugHolesFits
<1> HIDE DEF r
<1>11. HeldIn(r.item) = HeldIn(it) /\ \A x \in HeldIn(it) : r.item[x].next = cut.item[x].next
  BY <1>6, <1>10 DEF SameHeld
<1>12. Data(r, p) = size
  <2>1. r.item[p].next = s
    BY <1>0, <1>3, <1>11
  <2> QED BY <1>0, <2>1 DEF Data
<1>13. \A x \in HeldIn(it) : x # p => r.item[x].next = it[x].next
  BY <1>3, <1>11 DEF HeldIn
<1> QED
  BY <1>10, <1>11, <1>12, <1>13 DEF r

-----------------------------------------------------------------------------
(* The heap of the module *)

HeapInv == HeapFits(heap, {})

LEMMA HeapFields == heap.item = item /\ heap.lfree = lfree /\ heap.used = used
BY DEF heap

LEMMA BecomesFits ==
  ASSUME NEW h, HeapFits(h, {}), Becomes(h)
  PROVE  HeapInv' /\ item' = h.item
<1> DEFINE k == [item |-> item', lfree |-> lfree', used |-> used']
<1>1. item' = h.item /\ lfree' = h.lfree /\ used' = h.used
  BY DEF Becomes
<1>2. k \in HeapState
  <2>1. h.item \in Chains /\ h.lfree \in Offset /\ h.used \in Int
    BY DEF HeapFits, HeapState
  <2> QED BY <1>1, <2>1 DEF HeapState
<1>3. k.item = h.item /\ k.lfree = h.lfree /\ k.used = h.used
  BY <1>1
<1> HIDE DEF k
<1>4. HeapFits(k, {})
  BY <1>2, <1>3 DEF HeapFits, Lowest
<1> QED
  BY <1>1, <1>4 DEF k, HeapInv, heap

LEMMA InitFits == HeapInit => HeapInv
<1> SUFFICES ASSUME HeapInit PROVE HeapInv
  OBVIOUS
<1>1. 0 \in Offset /\ End \in Offset /\ End \in Nat /\ 0 + Header < End /\ Header \in Nat
  BY HeapSizes
<1>2. /\ item \in [{0, End} -> Item] /\ DOMAIN item = {0, End} /\ lfree = 0 /\ used = 0
      /\ item[0].next = End /\ item[0].prev = 0 /\ item[End].used /\ ~item[0].used
  <2>1. item = [p \in {0, End} |-> [next |-> End, prev |-> p, used |-> p = End]] /\ lfree = 0
        /\ used = 0
    BY DEF HeapInit
  <2>2. 0 # End
    BY <1>1
  <2> DEFINE b(p) == p = End
  <2>3. \A p \in {0, End} : b(p) \in BOOLEAN /\ (b(p) <=> p = End)
    OBVIOUS
  <2>4. \A p \in {0, End} : item[p] = [next |-> End, prev |-> p, used |-> b(p)]
    BY <2>1
  <2> HIDE DEF b
  <2>6. \A p \in {0, End} : /\ item[p].next = End /\ item[p].prev = p
                            /\ item[p].used = b(p) /\ item[p] \in Item
    <3> TAKE p \in {0, End}
    <3> DEFINE c == b(p)
    <3>1. c \in BOOLEAN /\ End \in Offset /\ p \in Offset
      BY <1>1, <2>3
    <3>2. item[p] = [next |-> End, prev |-> p, used |-> c]
      BY <2>4
    <3> HIDE DEF c
    <3>3. item[p].next = End /\ item[p].prev = p /\ item[p].used = c /\ item[p] \in Item
      BY <3>1, <3>2 DEF Item
    <3> QED BY <3>3 DEF c
  <2>5. item \in [{0, End} -> Item]
    BY <2>1, <2>6
  <2> QED BY <2>1, <2>2, <2>3, <2>6, <2>5
<1>3. Links(item)
  BY <1>1, <1>2 DEF Links
<1>4. HeldIn(item) = {}
  BY <1>2 DEF HeldIn
<1>5. Bytes(item) = {}
  BY <1>4 DEF Bytes
<1>6. Cardinality(Bytes(item)) = 0
  BY <1>5, FS_EmptySet
<1>7. heap \in HeapState
  BY <1>1, <1>2, <1>3, ChainType DEF HeapState, heap
<1>8. Merged(item, {}) /\ Lowest(heap)
  BY <1>1, <1>2, HeapFields DEF Merged, Lowest
<1> QED
  BY <1>2, <1>3, <1>6, <1>7, <1>8, HeapFields DEF HeapInv, HeapFits

\* What an allocation, a free and a resize do to the items callers hold.
Given(q) ==
  /\ Held' = Held \union {q} /\ q \notin Held
  /\ \A x \in Held : item'[x].next = item[x].next

Taken(p) ==
  /\ Held' = Held \ {p} /\ p \in Held
  /\ \A x \in Held' : item'[x].next = item[x].next

Shortened(p) ==
  /\ Held' = Held /\ p \in Held
  /\ p + Header < item'[p].next /\ item'[p].next < item[p].next
  /\ \A x \in Held : x # p => item'[x].next = item[x].next

\* The item q is held before p is given back, in a heap in between.
Replaced(p, q) ==
  \E mid :
    /\ Links(mid) /\ HeldIn(mid) = Held \union {q} /\ q \notin Held /\ p \in Held
    /\ \A x \in Held : mid[x].next = item[x].next
    /\ Held' = HeldIn(mid) \ {p}
    /\ \A x \in Held' : item'[x].next = mid[x].next

LEMMA HeldIs == Held = HeldIn(item) /\ Held' = HeldIn(item')
BY DEF Held, HeldIn

LEMMA AllocStep ==
  ASSUME HeapInv, NEW n \in Nat, Alloc(n)
  PROVE  HeapInv' /\ \E q : Given(q)
<1> DEFINE w == Wanted(n)
           q == FirstFit(heap, w)
           r == AllocAt(heap, q, w)
<1>1. q # Nowhere /\ Becomes(r)
  BY DEF Alloc
<1>2. w \in Aligned /\ w \in Nat \ {0}
  BY WantedSize
<1> HIDE DEF w
<1>3. q \in DOMAIN heap.item \ {End} /\ ~heap.item[q].used /\ Data(heap, q) >= w
  BY <1>1, <1>2, FirstFitFacts DEF HeapInv, HeapFits
<1> HIDE DEF q
<1>4. /\ HeapFits(r, {})
      /\ HeldIn(r.item) = HeldIn(heap.item) \union {q} /\ q \notin HeldIn(heap.item)
      /\ \A x \in HeldIn(heap.item) : r.item[x].next = heap.item[x].next
  BY <1>2, <1>3, AllocAtFits DEF HeapInv
<1>5. HeapInv' /\ item' = r.item
  BY <1>1, <1>4, BecomesFits
<1> HIDE DEF r
<1> QED
  BY <1>4, <1>5, HeldIs, HeapFields DEF Given

LEMMA FreeStep ==
  ASSUME HeapInv, NEW p \in Held, Free(p)
  PROVE  HeapInv' /\ Taken(p)
<1> DEFINE r == Freed(heap, p)
<1>1. Becomes(r) /\ p \in HeldIn(heap.item)
  BY HeldIs, HeapFields DEF Free
<1>2. /\ HeapFits(r, {}) /\ HeldIn(r.item) = HeldIn(heap.item) \ {p}
      /\ \A x \in HeldIn(r.item) : r.item[x].next = heap.item[x].next
  BY <1>1, FreedFits DEF HeapInv
<1>3. HeapInv' /\ item' = r.item
  BY <1>1, <1>2, BecomesFits
<1> HIDE DEF r
<1> QED
  BY <1>2, <1>3, HeldIs, HeapFields DEF Taken

LEMMA ReallocStep ==
  ASSUME HeapInv, NEW p \in Held, NEW n \in Nat, Realloc(p, n)
  PROVE  HeapInv' /\ (Taken(p) \/ Shortened(p) \/ \E q : Replaced(p, q))
<1> DEFINE size == RT_ALIGN(n)
           w == Wanted(size)
           q == FirstFit(heap, w)
<1>1. size \in Aligned /\ size \in Nat
  BY AlignUp
<1>2. w \in Aligned /\ w \in Nat \ {0}
  BY <1>1, WantedSize
<1>3. HeapFits(heap, {}) /\ p \in HeldIn(heap.item) /\ p \in HeldIn(item) /\ Links(item)
      /\ Header \in Nat /\ MinSize \in Nat \ {0}
  BY HeldIs, HeapFields, HeapSizes, SmallMemAssumption DEF HeapInv, HeapFits
<1>4. CASE size = 0 /\ Free(p)
  BY <1>4, FreeStep
<1>5. CASE /\ size \in 1..Size /\ size + Header + MinSize < Data(heap, p)
           /\ Becomes(Shrunk(heap, p, size))
  <2> DEFINE r == Shrunk(heap, p, size)
  <2>1. Becomes(r) /\ size \in Nat \ {0}
    BY <1>1, <1>5
  <2> HIDE DEF size
  <2>2. /\ HeapFits(r, {}) /\ HeldIn(r.item) = HeldIn(heap.item) /\ Data(r, p) = size
        /\ \A x \in HeldIn(heap.item) : x # p => r.item[x].next = heap.item[x].next
    BY <1>1, <1>3, <1>5, <2>1, ShrunkFits
  <2>3. HeapInv' /\ item' = r.item
    BY <2>1, <2>2, BecomesFits
  <2> HIDE DEF r
  <2>4. Links(r.item) /\ p \in HeldIn(r.item)
    BY <1>3, <2>2 DEF HeapFits
  <2>5. /\ p \in Nat /\ item[p].next \in Nat /\ r.item[p].next \in Nat
    BY <1>3, <2>4, LinkFacts DEF HeldIn
  <2>6. r.item[p].next = p + Header + size /\ p + Header + size < item[p].next
    BY <1>3, <1>5, <2>1, <2>2, <2>5, HeapFields DEF Data
  <2>7. p + Header < r.item[p].next /\ r.item[p].next < item[p].next
    BY <1>3, <2>1, <2>5, <2>6
  <2> QED BY <2>2, <2>3, <2>7, HeldIs, HeapFields DEF Shortened
<1>6. CASE q # Nowhere /\ Becomes(Freed(AllocAt(heap, q, w), p))
  <2> DEFINE m == AllocAt(heap, q, w)
             r == Freed(m, p)
  <2>1. q # Nowhere /\ Becomes(r)
    BY <1>6
  <2> HIDE DEF w
  <2>2. q \in DOMAIN heap.item \ {End} /\ ~heap.item[q].used /\ Data(heap, q) >= w
    BY <1>2, <1>3, <2>1, FirstFitFacts DEF HeapFits
  <2> HIDE DEF q
  <2>3. /\ HeapFits(m, {})
        /\ HeldIn(m.item) = HeldIn(heap.item) \union {q} /\ q \notin HeldIn(heap.item)
        /\ \A x \in HeldIn(heap.item) : m.item[x].next = heap.item[x].next
    BY <1>2, <1>3, <2>2, AllocAtFits
  <2> HIDE DEF m
  <2>4. p \in HeldIn(m.item) /\ Links(m.item)
    BY <1>3, <2>3 DEF HeapFits
  <2>5. /\ HeapFits(r, {}) /\ HeldIn(r.item) = HeldIn(m.item) \ {p}
        /\ \A x \in HeldIn(r.item) : r.item[x].next = m.item[x].next
    BY <2>3, <2>4, FreedFits
  <2>6. HeapInv' /\ item' = r.item
    BY <2>1, <2>5, BecomesFits
  <2> HIDE DEF r
  <2>7. Replaced(p, q)
    BY <2>3, <2>4, <2>5, <2>6, HeldIs, HeapFields DEF Replaced
  <2> QED BY <2>6, <2>7
<1> QED
  BY <1>4, <1>5, <1>6 DEF Realloc

LEMMA HeapSteps ==
  ASSUME HeapInv, HeapNext
  PROVE  /\ HeapInv'
         /\ \/ \E q : Given(q)
            \/ \E p : Taken(p) \/ Shortened(p) \/ \E q : Replaced(p, q)
<1>1. Sizes \subseteq Nat
  BY SmallMemAssumption
<1>2. ASSUME NEW n \in Sizes, Alloc(n)
      PROVE  HeapInv' /\ \E q : Given(q)
  BY <1>1, <1>2, AllocStep
<1>3. ASSUME NEW p \in Held, Free(p)
      PROVE  HeapInv' /\ Taken(p)
  BY <1>3, FreeStep
<1>4. ASSUME NEW p \in Held, NEW n \in Sizes, Realloc(p, n)
      PROVE  HeapInv' /\ (Taken(p) \/ Shortened(p) \/ \E q : Replaced(p, q))
  BY <1>1, <1>4, ReallocStep
<1> QED
  BY <1>2, <1>3, <1>4 DEF HeapNext

-----------------------------------------------------------------------------
(* The heap keeps its promise *)

\* The bytes of the item p, and of all the items held.
RegionIn(it, p) == [at |-> p + Header, size |-> it[p].next - p - Header]
RegionsOf(it) == {RegionIn(it, p) : p \in HeldIn(it)}

LEMMA RegionsAre ==
  /\ {Region(p) : p \in Held} = RegionsOf(item)
  /\ {Region(p) : p \in Held}' = RegionsOf(item')
<1>1. {Region(p) : p \in Held} = RegionsOf(item)
  BY HeldIs, HeapFields DEF RegionsOf, RegionIn, Region, Data
<1>2. {Region(p) : p \in Held}' = RegionsOf(item')
  BY HeldIs DEF RegionsOf, RegionIn, Region, Data, heap
<1> QED
  BY <1>1, <1>2

\* An item taken out of free ones fits beside those that are held.
LEMMA GivenFits ==
  ASSUME NEW a, NEW b, Links(a), Links(b), NEW q, q \notin HeldIn(b),
         HeldIn(a) = HeldIn(b) \union {q}, \A x \in HeldIn(b) : a[x].next = b[x].next
  PROVE  /\ RegionsOf(a) = RegionsOf(b) \union {RegionIn(a, q)}
         /\ Regions!Fits(RegionIn(a, q), RegionsOf(b))
<1>1. \A x \in HeldIn(b) : RegionIn(a, x) = RegionIn(b, x)
  BY DEF RegionIn
<1>2. RegionsOf(a) = RegionsOf(b) \union {RegionIn(a, q)}
  <2>1. \A r : r \in RegionsOf(a) <=> r \in RegionsOf(b) \/ r = RegionIn(a, q)
    <3>1. \A r : r \in RegionsOf(a) <=> \E x \in HeldIn(b) \union {q} : r = RegionIn(a, x)
      BY DEF RegionsOf
    <3>2. \A r : r \in RegionsOf(b) <=> \E x \in HeldIn(b) : r = RegionIn(b, x)
      BY DEF RegionsOf
    <3> QED BY <1>1, <3>1, <3>2
  <2> QED BY <2>1
<1>3. \A x \in HeldIn(a) :
        /\ x \in DOMAIN a \ {End} /\ x \in Nat /\ a[x].next \in Nat
        /\ x + Header < a[x].next /\ a[x].next <= End
        /\ \A y \in HeldIn(a) : y <= x \/ y >= a[x].next
  <2> SUFFICES ASSUME NEW x \in HeldIn(a)
               PROVE  /\ x \in DOMAIN a \ {End} /\ x \in Nat /\ a[x].next \in Nat
                      /\ x + Header < a[x].next /\ a[x].next <= End
                      /\ \A y \in HeldIn(a) : y <= x \/ y >= a[x].next
    OBVIOUS
  <2>1. x \in DOMAIN a \ {End} /\ HeldIn(a) \subseteq DOMAIN a
    BY DEF HeldIn
  <2>2. x \in Nat /\ a[x].next \in 0..End
    BY <2>1, LinkFacts, HeapSizes
  <2>3. /\ x + Header < a[x].next
        /\ \A y \in DOMAIN a : y <= x \/ y >= a[x].next
    BY <2>1 DEF Links
  <2>4. End \in Nat
    BY HeapSizes
  <2> QED BY <2>1, <2>2, <2>3, <2>4
<1>4. Header \in Nat /\ End \in Nat
  BY HeapSizes
<1>5. Regions!Fits(RegionIn(a, q), RegionsOf(b))
  <2> DEFINE r == RegionIn(a, q)
  <2>1. r.at = q + Header /\ r.size = a[q].next - q - Header
    BY DEF RegionIn
  <2>2. q \in Nat /\ a[q].next \in Nat /\ q + Header < a[q].next /\ a[q].next <= End
    BY <1>3
  <2>3. ASSUME NEW x \in HeldIn(b)
        PROVE  Regions!Apart(r, RegionIn(b, x))
    <3>1. RegionIn(b, x).at = x + Header /\ RegionIn(b, x).size = a[x].next - x - Header
      BY <1>1 DEF RegionIn
    <3>2. /\ x \in Nat /\ a[x].next \in Nat /\ x # q
          /\ q <= x \/ q >= a[x].next
          /\ x <= q \/ x >= a[q].next
      BY <1>3
    <3> HIDE DEF r
    <3> QED BY <1>4, <2>1, <2>2, <3>1, <3>2 DEF Regions!Apart
  <2>4. r.size > 0 /\ r.at >= Header /\ r.at + r.size <= End
    <3> HIDE DEF r
    <3> QED BY <1>4, <2>1, <2>2
  <2>5. \A s \in RegionsOf(b) : Regions!Apart(r, s)
    BY <2>3 DEF RegionsOf
  <2> HIDE DEF r
  <2> QED BY <2>4, <2>5 DEF Regions!Fits, r
<1> QED
  BY <1>2, <1>5

\* An item given back takes its region along, and no other.
LEMMA TakenBack ==
  ASSUME NEW a, NEW b, Links(b), NEW p \in HeldIn(b), HeldIn(a) = HeldIn(b) \ {p},
         \A x \in HeldIn(a) : a[x].next = b[x].next
  PROVE  RegionsOf(a) = RegionsOf(b) \ {RegionIn(b, p)}
<1>1. \A x \in HeldIn(a) : RegionIn(a, x) = RegionIn(b, x)
  BY DEF RegionIn
<1>2. \A x, y \in HeldIn(b) : RegionIn(b, x) = RegionIn(b, y) => x = y
  <2> SUFFICES ASSUME NEW x \in HeldIn(b), NEW y \in HeldIn(b),
                      RegionIn(b, x) = RegionIn(b, y)
               PROVE  x = y
    OBVIOUS
  <2>1. x \in Nat /\ y \in Nat /\ Header \in Nat
    BY LinkFacts, HeapSizes DEF HeldIn
  <2>2. RegionIn(b, x).at = x + Header /\ RegionIn(b, y).at = y + Header
    BY DEF RegionIn
  <2> QED BY <2>1, <2>2
<1>3. \A r : r \in RegionsOf(a) <=> \E x \in HeldIn(a) : r = RegionIn(a, x)
  BY DEF RegionsOf
<1>4. \A r : r \in RegionsOf(b) <=> \E x \in HeldIn(b) : r = RegionIn(b, x)
  BY DEF RegionsOf
<1>5. \A r : r \in RegionsOf(a) <=> r \in RegionsOf(b) /\ r # RegionIn(b, p)
  BY <1>1, <1>2, <1>3, <1>4
<1> QED
  BY <1>5

LEMMA HeapKeptStep ==
  ASSUME HeapInv, HeapInv',
         \/ \E q : Given(q)
         \/ \E p : Taken(p) \/ Shortened(p) \/ \E q : Replaced(p, q)
  PROVE  Regions!Next
<1> DEFINE G == RegionsOf(item)
           H == RegionsOf(item')
<1>1. Links(item) /\ Links(item')
  BY DEF HeapInv, HeapFits, heap
<1>2. ASSUME NEW q, Given(q)
      PROVE  Regions!Give
  <2> DEFINE r == RegionIn(item', q)
  <2>1. H = G \union {r} /\ Regions!Fits(r, G)
    BY <1>1, <1>2, HeldIs, GivenFits DEF Given
  <2>2. r \in H
    BY <2>1
  <2> HIDE DEF r, G, H
  <2>3. \E s \in H : H = G \union {s} /\ Regions!Fits(s, G)
    BY <2>1, <2>2
  <2> QED BY <2>3, RegionsAre DEF Regions!Give, G, H
<1>3. ASSUME NEW p, Taken(p)
      PROVE  Regions!TakeBack
  <2> DEFINE r == RegionIn(item, p)
  <2>1. H = G \ {r}
    BY <1>1, <1>3, HeldIs, TakenBack DEF Taken
  <2>2. r \in G
    BY <1>3, HeldIs DEF RegionsOf, Taken
  <2> HIDE DEF r, G, H
  <2>3. \E s \in G : H = G \ {s}
    BY <2>1, <2>2
  <2> QED BY <2>3, RegionsAre DEF Regions!TakeBack, G, H
<1>4. ASSUME NEW p, Shortened(p)
      PROVE  Regions!Resize
  <2> DEFINE r == RegionIn(item, p)
             s == RegionIn(item', p)
  <2>1. r \in G /\ s \in H
    BY <1>4, HeldIs DEF RegionsOf, Shortened
  <2>2. H = (G \ {r}) \union {s}
    <3>1. \A x \in HeldIn(item) : x # p => RegionIn(item', x) = RegionIn(item, x)
      BY <1>4, HeldIs DEF RegionIn, Shortened
    <3>2. \A x \in HeldIn(item) : RegionIn(item, x) = r => x = p
      <4> SUFFICES ASSUME NEW x \in HeldIn(item), RegionIn(item, x) = r PROVE x = p
        OBVIOUS
      <4>1. x \in Nat /\ p \in Nat /\ Header \in Nat
        BY <1>1, <1>4, LinkFacts, HeapSizes, HeldIs DEF HeldIn, Shortened
      <4>2. RegionIn(item, x).at = x + Header /\ r.at = p + Header
        BY DEF RegionIn
      <4> QED BY <4>1, <4>2
    <3>3. HeldIn(item') = HeldIn(item) /\ p \in HeldIn(item)
      BY <1>4, HeldIs DEF Shortened
    <3>4. \A t : t \in H <=> \E x \in HeldIn(item) : t = RegionIn(item', x)
      BY <3>3 DEF RegionsOf
    <3>5. \A t : t \in G <=> \E x \in HeldIn(item) : t = RegionIn(item, x)
      BY DEF RegionsOf
    <3> HIDE DEF G, H
    <3>6. \A t : t \in H <=> (t \in G /\ t # r) \/ t = s
      BY <3>1, <3>2, <3>3, <3>4, <3>5
    <3> QED BY <3>6
  <2>3. s.at = r.at /\ s.size < r.size /\ s.size > 0
    <3>1. /\ s.at = p + Header /\ r.at = p + Header
          /\ s.size = item'[p].next - p - Header /\ r.size = item[p].next - p - Header
      BY DEF RegionIn
    <3>2. p \in Nat /\ Header \in Nat /\ item'[p].next \in Nat /\ item[p].next \in Nat
      BY <1>1, <1>4, LinkFacts, HeapSizes, HeldIs DEF HeldIn, Shortened
    <3>3. p + Header < item'[p].next /\ item'[p].next < item[p].next
      BY <1>4 DEF Shortened
    <3> HIDE DEF r, s
    <3> QED BY <3>1, <3>2, <3>3
  <2> HIDE DEF r, s, G, H
  <2>4. \E x \in G, y \in H : /\ H = (G \ {x}) \union {y}
                              /\ \/ y.at = x.at /\ y.size < x.size /\ y.size > 0
                                 \/ Regions!Fits(y, G)
    BY <2>1, <2>2, <2>3
  <2> QED BY <2>4, RegionsAre DEF Regions!Resize, G, H
<1>5. ASSUME NEW p, NEW q, Replaced(p, q)
      PROVE  Regions!Resize
  <2>1. PICK mid :
          /\ Links(mid) /\ HeldIn(mid) = HeldIn(item) \union {q} /\ q \notin HeldIn(item)
          /\ p \in HeldIn(item)
          /\ \A x \in HeldIn(item) : mid[x].next = item[x].next
          /\ HeldIn(item') = HeldIn(mid) \ {p}
          /\ \A x \in HeldIn(item') : item'[x].next = mid[x].next
    BY <1>5, HeldIs DEF Replaced
  <2> DEFINE M == RegionsOf(mid)
             r == RegionIn(item, p)
             s == RegionIn(item', q)
  <2>2. q \in HeldIn(item') /\ p # q
    BY <2>1
  <2>3. RegionIn(mid, p) = r /\ RegionIn(mid, q) = s
    BY <2>1, <2>2 DEF RegionIn
  <2>4. M = G \union {s} /\ Regions!Fits(s, G)
    BY <1>1, <2>1, <2>3, GivenFits
  <2>5. H = M \ {r}
    <3>1. p \in HeldIn(mid)
      BY <2>1
    <3> QED BY <1>1, <2>1, <2>3, <3>1, TakenBack
  <2>6. r \in G /\ s \in H
    BY <2>1, <2>2 DEF RegionsOf
  <2> HIDE DEF r, s, G, H, M
  <2>7. H = (G \ {r}) \union {s}
    BY <2>4, <2>5, <2>6
  <2>8. \E x \in G, y \in H : /\ H = (G \ {x}) \union {y}
                              /\ \/ y.at = x.at /\ y.size < x.size /\ y.size > 0
                                 \/ Regions!Fits(y, G)
    BY <2>4, <2>6, <2>7
  <2> QED BY <2>8, RegionsAre DEF Regions!Resize, G, H
<1> QED
  BY <1>2, <1>3, <1>4, <1>5 DEF Regions!Next

-----------------------------------------------------------------------------
(* Theorems about the heap *)

\* The chain of items is whole in both directions, no two free items are
\* neighbours, no free item is below lfree, and the count of bytes in use is
\* that of the used items, for every size of the heap, every alignment and
\* every sequence of rt_malloc, rt_realloc and rt_free.
THEOREM HeapInvHolds == HeapSpec => []HeapInv
<1>1. HeapInit => HeapInv
  BY InitFits
<1>2. HeapInv /\ [HeapNext]_heapVars => HeapInv'
  <2> SUFFICES ASSUME HeapInv, [HeapNext]_heapVars PROVE HeapInv'
    OBVIOUS
  <2>1. CASE HeapNext
    BY <2>1, HeapSteps
  <2>2. CASE UNCHANGED heapVars
    BY <2>2 DEF heapVars, HeapInv, heap, HeapFits, Lowest
  <2> QED BY <2>1, <2>2
<1> QED
  BY <1>1, <1>2, PTL DEF HeapSpec

\* The items and the counters of mem.c stay within their ranges.
THEOREM HeapTypeCorrect == HeapSpec => []HeapTypeOK
<1>1. HeapInv => HeapTypeOK
  <2> SUFFICES ASSUME HeapInv PROVE HeapTypeOK
    OBVIOUS
  <2>1. Links(item) /\ lfree \in DOMAIN item /\ used = Cardinality(Bytes(item))
    BY HeapFields DEF HeapInv, HeapFits, Lowest
  <2>2. used \in 0..End
    BY <2>1, BytesFinite
  <2> QED BY <2>1, <2>2 DEF HeapTypeOK, Links, Item
<1> QED
  BY <1>1, HeapInvHolds, PTL

\* Splitting and merging leave no hole in the chain and no two free neighbours,
\* and rt_memory_info reports the bytes that are really in use.
THEOREM HeapSoundHolds == HeapSpec => []HeapSound
<1>1. HeapInv => HeapSound
  <2> SUFFICES ASSUME HeapInv PROVE HeapSound
    OBVIOUS
  <2>1. Links(item) /\ Merged(item, {}) /\ used = Cardinality(Bytes(item))
    BY HeapFields DEF HeapInv, HeapFits
  <2>2. used = Cardinality(UNION {p..(item[p].next - 1) : p \in Held})
    BY <2>1, HeldIs DEF Bytes
  <2>3. \A p \in DOMAIN item \ {End} :
          LET n == item[p].next
          IN  /\ n \in DOMAIN item /\ p + Header < n
              /\ \A q \in DOMAIN item : q <= p \/ q >= n
              /\ n # End => item[n].prev = p /\ (item[p].used \/ item[n].used)
              /\ p = 0 => item[p].prev = 0
    BY <2>1 DEF Links, Merged
  <2> QED BY <2>2, <2>3 DEF HeapSound
<1> QED
  BY <1>1, HeapInvHolds, PTL

\* rt_smem_alloc finds room whenever some free item has it, although it looks
\* from lfree on only.
THEOREM RoomIsFoundHolds == HeapSpec => []RoomIsFound
<1>1. HeapInv => RoomIsFound
  <2> SUFFICES ASSUME HeapInv, NEW n \in Sizes \ {0},
                      \E p \in DOMAIN item : ~item[p].used /\ Data(heap, p) >= Wanted(n)
               PROVE  FirstFit(heap, Wanted(n)) # Nowhere
    BY DEF RoomIsFound
  <2>1. Wanted(n) \in Nat \ {0}
    BY WantedSize, SmallMemAssumption
  <2>2. Links(heap.item) /\ Lowest(heap)
    BY DEF HeapInv, HeapFits
  <2>3. \E p \in DOMAIN heap.item : ~heap.item[p].used /\ Data(heap, p) >= Wanted(n)
    BY HeapFields
  <2> QED BY <2>1, <2>2, <2>3, FirstFitFacts
<1> QED
  BY <1>1, HeapInvHolds, PTL

\* The heap implements what AbstractHeap promises: regions within the heap and
\* apart from each other, changed only by a call of the one that holds them.
THEOREM HeapKeptHolds == HeapSpec => HeapKept
<1>1. HeapInit => Regions!Init
  <2> SUFFICES ASSUME HeapInit PROVE Regions!Init
    OBVIOUS
  <2>1. \A p \in DOMAIN item \ {End} : ~item[p].used
    BY HeapSizes DEF HeapInit
  <2>2. Held = {}
    BY <2>1 DEF Held
  <2> QED BY <2>2 DEF Regions!Init
<1>2. HeapInv /\ HeapInv' /\ [HeapNext]_heapVars
        => [Regions!Next]_({Region(p) : p \in Held})
  <2> SUFFICES ASSUME HeapInv, HeapInv', [HeapNext]_heapVars
               PROVE  [Regions!Next]_({Region(p) : p \in Held})
    OBVIOUS
  <2>1. CASE HeapNext
    BY <2>1, HeapSteps, HeapKeptStep
  <2>2. CASE UNCHANGED heapVars
    <3>1. item' = item
      BY <2>2 DEF heapVars
    <3> QED BY <3>1, RegionsAre
  <2> QED BY <2>1, <2>2
<1> QED
  BY <1>1, <1>2, HeapInvHolds, PTL DEF HeapKept, HeapSpec, Regions!Spec
=============================================================================
