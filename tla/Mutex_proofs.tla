---------------------------- MODULE Mutex_proofs ----------------------------
(***************************************************************************)
(* Theorems about the mutexes of ipc.c: who owns a mutex, who waits for it *)
(* in which order, what a thread that comes back from rt_mutex_take has,   *)
(* and that every owner is as urgent as the threads that wait for it,      *)
(* however long the chain of owners is that a priority travels along.      *)
(***************************************************************************)
EXTENDS Mutex, Kernel_proofs

-----------------------------------------------------------------------------
(* A change of priorities moves threads within their lists only. *)

Shuffled(r, s) ==
  /\ ListFacts(r)
  /\ r.stat = s.stat /\ r.err = s.err /\ r.armed = s.armed
  /\ r.cur = s.cur /\ r.lock = s.lock
  /\ \A x : InReadyList(r, x) <=> InReadyList(s, x)
  /\ \A x : Dead(r, x) <=> Dead(s, x)
  /\ \A w \in WaitList : \A x : On(r, w, x) <=> On(s, w, x)

\* What the lists say of the threads on them; a thread that is being closed need
\* not be on the list of the dead yet.
Linked(s) ==
  /\ ListFacts(s) /\ WaitFacts(s)
  /\ \A t \in Thread : InReadyList(s, t) => s.stat[t] = "ready" /\ t # s.cur
  /\ \A t \in Thread : Dead(s, t) => s.stat[t] = "close"

LEMMA ShuffledSelf ==
  ASSUME NEW s, ListFacts(s)
  PROVE  Shuffled(s, s)
  BY DEF Shuffled

LEMMA ShuffledOn ==
  ASSUME NEW r, NEW s, NEW q, Shuffled(r, s), Shuffled(s, q)
  PROVE  Shuffled(r, q)
  BY DEF Shuffled

LEMMA IpcLinked ==
  ASSUME NEW s, IpcInv(s)
  PROVE  Linked(s)
  BY DEF IpcInv, KernelInv, StatFacts, Linked

LEMMA LinkedKept ==
  ASSUME NEW r, NEW s, Shuffled(r, s), Linked(s)
  PROVE  Linked(r)
  BY DEF Shuffled, Linked, WaitFacts

\* RT_THREAD_CTRL_CHANGE_PRIORITY, of a thread that is queued when it is ready.
LEMMA ChangeShuffles ==
  ASSUME NEW s, Linked(s), NEW t \in Thread, s.stat[t] = "ready" => InReadyList(s, t),
         NEW q \in Prio
  PROVE  Shuffled(ChangePriority(s, t, q), s)
<1>1. s.prio \in [Thread -> Prio] /\ s \in KernelState /\ ListFacts(s)
  BY DEF Linked, ListFacts, KernelState
<1>2. CASE s.stat[t] = "ready"
  <2> DEFINE a == rt_schedule_remove_thread(s, t)
             b == [a EXCEPT !.prio[t] = q]
             r == rt_schedule_insert_thread(b, t)
  <2>1. ~WaitsSomewhere(s, t) /\ ~Dead(s, t) /\ InReadyList(s, t) /\ t # s.cur
    BY <1>2 DEF Linked, WaitFacts, WaitsSomewhere, On
  <2>2. /\ ListFacts(a) /\ SameFields(a, s)
        /\ \A x : InReadyList(a, x) <=> InReadyList(s, x) /\ x # t
        /\ \A x : Dead(a, x) <=> Dead(s, x) /\ x # t
    BY <1>1, ScheduleRemove
  <2>3. a.wait = s.wait
    BY <1>1, <2>1, RemoveKeepsWaits
  <2>4. ChangePriority(s, t, q) = r
    BY <1>2 DEF ChangePriority
  <2> HIDE DEF a
  <2>5. /\ ListFacts(b) /\ SameLists(b, a) /\ b.stat = a.stat /\ b.err = a.err
        /\ b.armed = a.armed /\ b.cur = a.cur /\ b.lock = a.lock
        /\ \A x : InReadyList(b, x) <=> InReadyList(a, x)
        /\ \A x : Dead(b, x) <=> Dead(a, x)
    <3> DEFINE c == b
    <3>1. c = [a EXCEPT !.prio[t] = q] /\ ~InReadyList(a, t)
      BY <2>2
    <3> HIDE DEF c
    <3>2. /\ ListFacts(c) /\ SameLists(c, a) /\ c.stat = a.stat /\ c.err = a.err
          /\ c.armed = a.armed /\ c.cur = a.cur /\ c.lock = a.lock
          /\ \A x : InReadyList(c, x) <=> InReadyList(a, x)
          /\ \A x : Dead(c, x) <=> Dead(a, x)
      BY <2>2, <3>1, PriorityChange
    <3> QED BY <3>2 DEF c
  <2> HIDE DEF b
  <2>6. t # b.cur /\ ~InReadyList(b, t)
    BY <2>1, <2>2, <2>5 DEF SameFields
  <2>7. /\ ListFacts(r) /\ r.stat = [b.stat EXCEPT ![t] = "ready"] /\ r.err = b.err
        /\ r.armed = b.armed /\ r.cur = b.cur /\ r.lock = b.lock
        /\ \A x : InReadyList(r, x) <=> InReadyList(b, x) \/ x = t
        /\ \A x : Dead(r, x) <=> Dead(b, x)
    BY <2>5, <2>6, ScheduleInsert
  <2>8. r.wait = b.wait
    BY <2>6 DEF rt_schedule_insert_thread
  <2> HIDE DEF r
  <2>9. r.stat = s.stat
    BY <1>1, <1>2, <2>2, <2>5, <2>7 DEF SameFields, KernelState
  <2>10. r.wait = s.wait
    BY <2>3, <2>5, <2>8 DEF SameLists
  <2> QED BY <2>1, <2>2, <2>4, <2>5, <2>7, <2>9, <2>10 DEF Shuffled, SameFields, On
<1>3. CASE s.stat[t] # "ready"
  <2> DEFINE r == [s EXCEPT !.prio[t] = q]
  <2>1. ChangePriority(s, t, q) = r /\ ~InReadyList(s, t)
    BY <1>3 DEF ChangePriority, Linked
  <2> DEFINE c == r
  <2>2. c = [s EXCEPT !.prio[t] = q]
    OBVIOUS
  <2> HIDE DEF c
  <2>3. /\ ListFacts(c) /\ SameLists(c, s) /\ c.stat = s.stat /\ c.err = s.err
        /\ c.armed = s.armed /\ c.cur = s.cur /\ c.lock = s.lock
        /\ \A x : InReadyList(c, x) <=> InReadyList(s, x)
        /\ \A x : Dead(c, x) <=> Dead(s, x)
    BY <1>1, <2>1, <2>2, PriorityChange
  <2>4. Shuffled(c, s)
    BY <2>3 DEF Shuffled, SameLists, On
  <2> QED BY <2>1, <2>4 DEF c
<1> QED
  BY <1>2, <1>3

\* A waiter that is linked anew is on the list it was on.
LEMMA RepositionShuffles ==
  ASSUME NEW s, Linked(s), NEW t \in Thread, NEW x \in WaitList, On(s, x, t)
  PROVE  Shuffled(Reposition(s, t, x), s)
<1> DEFINE u == rt_list_remove(s, t)
           at == PrioPosition(u.wait[x], t, u.prio)
           r == [u EXCEPT !.wait[x] = InsertAt(@, at, t)]
<1>1. /\ ListFacts(s) /\ s.stat[t] = "suspend" /\ ~InReadyList(s, t) /\ ~Dead(s, t)
      /\ \A w \in WaitList : On(s, w, t) => w = x
  BY DEF Linked, WaitFacts
<1>2. /\ ListFacts(u) /\ SameFields(u, s)
      /\ \A y : InReadyList(u, y) <=> InReadyList(s, y)
      /\ \A y : Dead(u, y) <=> Dead(s, y) /\ y # t
  BY <1>1, UnlinkUnqueued
<1>3. \A w \in WaitList : \A y : Contains(u.wait[w], y) <=> Contains(s.wait[w], y) /\ y # t
  BY <1>1, ListRemove
<1>4. Reposition(s, t, x) = r
  <2>1. rt_thread_suspend(u, t) = u
    BY <1>1, <1>2 DEF rt_thread_suspend, SameFields
  <2> QED BY <2>1 DEF Reposition, SuspendOnPrio
<1> HIDE DEF u
<1>5. u \in KernelState /\ u.wait \in [WaitList -> Seq(Thread)] /\ u.prio \in [Thread -> Prio]
  BY <1>2 DEF ListFacts, KernelState
<1>6. at \in 1..(Len(u.wait[x]) + 1)
  BY <1>5, PrioPlace
<1> HIDE DEF at
<1> DEFINE q == InsertAt(u.wait[x], at, t)
<1>7. q \in Seq(Thread)
  BY <1>5, <1>6, InsertAtProperties
<1>8. NoRepeat(u.wait[x]) /\ ~Contains(u.wait[x], t)
  BY <1>2, <1>3 DEF ListFacts
<1>9. NoRepeat(q) /\ \A y : Contains(q, y) <=> Contains(u.wait[x], y) \/ y = t
  BY <1>5, <1>6, <1>8, InsertAtMembers
<1> HIDE DEF q
<1>10. r = [u EXCEPT !.wait[x] = q]
  BY DEF q
<1> HIDE DEF r
<1>11. /\ r \in KernelState /\ r.wait = [u.wait EXCEPT ![x] = q]
       /\ r.stat = u.stat /\ r.err = u.err /\ r.armed = u.armed /\ r.cur = u.cur
       /\ r.lock = u.lock /\ r.ready = u.ready /\ r.group = u.group
       /\ r.defunct = u.defunct /\ r.prio = u.prio
  BY <1>5, <1>7, <1>10 DEF KernelState
<1>12. \A w \in WaitList : \A y : On(r, w, y) <=> On(s, w, y)
  <2> SUFFICES ASSUME NEW w \in WaitList, NEW y PROVE On(r, w, y) <=> On(s, w, y)
    OBVIOUS
  <2>1. CASE w = x
    <3>1. r.wait[w] = q
      BY <1>5, <1>11, <2>1
    <3> QED BY <1>3, <1>9, <2>1, <3>1 DEF On
  <2>2. CASE w # x
    <3>1. r.wait[w] = u.wait[w] /\ ~On(s, w, t)
      BY <1>1, <1>5, <1>11, <2>2
    <3> QED BY <1>3, <3>1 DEF On
  <2> QED BY <2>1, <2>2
<1>13. ListFacts(r)
  <2>1. \A w \in WaitList : NoRepeat(r.wait[w])
    BY <1>2, <1>5, <1>9, <1>11 DEF ListFacts
  <2> QED BY <1>2, <1>11, <2>1 DEF ListFacts, GroupOK
<1>14. \A y : (InReadyList(r, y) <=> InReadyList(u, y)) /\ (Dead(r, y) <=> Dead(u, y))
  BY <1>11 DEF InReadyList, Dead
<1> QED
  BY <1>1, <1>2, <1>4, <1>11, <1>12, <1>13, <1>14 DEF Shuffled, SameFields

-----------------------------------------------------------------------------
(* A change that travels along a chain of owners. *)

MutexState ==
  [ owner    : [Mutexes -> Thread \union {None}],
    hold     : [Mutexes -> 0..MaxHold],
    priority : [Mutexes -> Prio \union {NoPrio}],
    ceiling  : [Mutexes -> Prio \union {NoPrio}] ]

Taken == taken \in [Thread -> SUBSET Mutexes]

\* What the threads P of a chain have in common: they are queued when they are
\* ready, and when they wait for a mutex its owner is one of them.
ChainFits(s, mm, pd, P) ==
  /\ Linked(s) /\ mm \in MutexState /\ P \subseteq Thread
  /\ \A t \in P : s.stat[t] = "ready" => InReadyList(s, t)
  /\ \A t \in P : s.stat[t] = "suspend" /\ pd[t] # None =>
                    pd[t] \in Mutexes /\ On(s, pd[t], t)
  /\ \A x \in Mutexes, t \in Thread : On(s, x, t) => mm.owner[x] \in P

\* What a change of priorities leaves alone.
Spreads(s1, m1, s, mm) ==
  /\ Shuffled(s1, s)
  /\ m1 \in MutexState
  /\ m1.owner = mm.owner /\ m1.hold = mm.hold /\ m1.ceiling = mm.ceiling
  /\ \A x \in Mutexes : mm.owner[x] = None => m1.priority[x] = mm.priority[x]

LEMMA MutexStateFields ==
  ASSUME NEW mm
  PROVE  mm \in MutexState <=>
           /\ mm = [ owner |-> mm.owner, hold |-> mm.hold,
                     priority |-> mm.priority, ceiling |-> mm.ceiling ]
           /\ mm.owner \in [Mutexes -> Thread \union {None}]
           /\ mm.hold \in [Mutexes -> 0..MaxHold]
           /\ mm.priority \in [Mutexes -> Prio \union {NoPrio}]
           /\ mm.ceiling \in [Mutexes -> Prio \union {NoPrio}]
  BY DEF MutexState

LEMMA FirstPrioType ==
  ASSUME NEW s, ListFacts(s), NEW x \in WaitList
  PROVE  /\ FirstPrio(s, x) \in Prio \union {NoPrio}
         /\ s.wait[x] = <<>> => FirstPrio(s, x) = NoPrio
<1>1. s.wait[x] \in Seq(Thread) /\ s.prio \in [Thread -> Prio]
  BY DEF ListFacts, KernelState
<1>2. s.wait[x] # <<>> => Head(s.wait[x]) \in Thread
  BY <1>1, HeadList
<1> QED
  BY <1>1, <1>2 DEF FirstPrio

LEMMA MutexPrioType ==
  ASSUME NEW mm \in MutexState, NEW tk \in [Thread -> SUBSET Mutexes], NEW t \in Thread
  PROVE  MutexPrio(mm, tk, t) \in Prio
<1> DEFINE S == {InitPrio[t]} \union {mm.priority[x] : x \in tk[t]}
                              \union {mm.ceiling[x] : x \in tk[t]}
<1>1. InitPrio[t] \in Prio /\ InitPrio[t] \in S
  BY InitPrioAssumption
<1>2. S \subseteq Prio \union {NoPrio}
  <2>1. tk[t] \subseteq Mutexes
    OBVIOUS
  <2>2. \A x \in Mutexes : mm.priority[x] \in Prio \union {NoPrio}
                           /\ mm.ceiling[x] \in Prio \union {NoPrio}
    BY DEF MutexState
  <2> QED BY <1>1, <2>1, <2>2
<1>3. MutexPrio(mm, tk, t) = Min(S)
  BY DEF MutexPrio
<1> HIDE DEF S
<1>4. S \in SUBSET Nat /\ S # {}
  BY <1>1, <1>2, PrioAssumption, MutexAssumption
<1>5. Min(S) \in S /\ Min(S) <= InitPrio[t]
  BY <1>1, <1>4, MinProperties
<1>6. InitPrio[t] < NoPrio /\ NoPrio \in Nat /\ InitPrio[t] \in Nat
  BY <1>1, PrioAssumption, MutexAssumption
<1>7. Min(S) # NoPrio
  BY <1>5, <1>6
<1> QED
  BY <1>2, <1>3, <1>5, <1>7

\* The state of the loop after some of its turns.
OnChain(c, s, mm, P) ==
  /\ c = [k |-> c.k, m |-> c.m, thread |-> c.thread]
  /\ c.thread \in P \union {None}
  /\ Spreads(c.k, c.m, s, mm)

LEMMA PropagateStep ==
  ASSUME NEW s, NEW mm, NEW pd, NEW P, ChainFits(s, mm, pd, P), Taken,
         NEW c, OnChain(c, s, mm, P)
  PROVE  OnChain(Propagate(pd, c), s, mm, P)
<1> DEFINE t == c.thread
           x == pd[t]
           moved == Reposition(c.k, t, x)
           mn == [c.m EXCEPT !.priority[x] = FirstPrio(moved, x)]
           owner == mn.owner[x]
           p == MutexPrio(mn, taken, owner)
<1>1. /\ c = [k |-> c.k, m |-> c.m, thread |-> t]
      /\ t \in P \union {None} /\ Spreads(c.k, c.m, s, mm) /\ Shuffled(c.k, s)
  BY DEF OnChain, Spreads
<1>2. CASE t = None \/ c.k.stat[t] # "suspend" \/ x = None
  <2> DEFINE r == Propagate(pd, c)
  <2>1. r = [c EXCEPT !.thread = None]
    BY <1>2 DEF Propagate
  <2> HIDE DEF t, x, r
  <2>2. r = [k |-> c.k, m |-> c.m, thread |-> None]
    BY <1>1, <2>1
  <2>3. OnChain(r, s, mm, P)
    BY <1>1, <2>2 DEF OnChain
  <2> QED BY <2>3 DEF r
<1>3. CASE t # None /\ c.k.stat[t] = "suspend" /\ x # None
  <2>1. t \in P /\ t \in Thread
    BY <1>1, <1>3 DEF ChainFits
  <2>2. x \in Mutexes /\ x \in WaitList /\ On(s, x, t) /\ mm.owner[x] \in P
    BY <1>1, <1>3, <2>1, MutexAssumption DEF ChainFits, Shuffled
  <2>3. On(c.k, x, t) /\ Linked(c.k)
    BY <1>1, <2>2, LinkedKept DEF Shuffled, ChainFits
  <2>4. Shuffled(moved, c.k) /\ Linked(moved) /\ ListFacts(moved)
    BY <2>1, <2>2, <2>3, RepositionShuffles, LinkedKept DEF Linked
  <2>5. c.m \in MutexState /\ c.m.owner = mm.owner /\ c.m.hold = mm.hold
        /\ c.m.ceiling = mm.ceiling
        /\ \A y \in Mutexes : mm.owner[y] = None => c.m.priority[y] = mm.priority[y]
    BY <1>1 DEF Spreads
  <2>6. FirstPrio(moved, x) \in Prio \union {NoPrio}
    BY <2>2, <2>4, FirstPrioType
  <2> HIDE DEF x, moved, t
  <2>7. mn \in MutexState /\ mn.owner = mm.owner /\ mn.hold = mm.hold
        /\ mn.ceiling = mm.ceiling
        /\ \A y \in Mutexes : y # x => mn.priority[y] = c.m.priority[y]
    BY <2>2, <2>5, <2>6 DEF MutexState
  <2> HIDE DEF mn
  <2>8. owner \in P /\ owner \in Thread /\ owner # None
    BY <2>2, <2>7, MutexAssumption DEF ChainFits
  <2>9. p \in Prio
    BY <2>7, <2>8, MutexPrioType DEF Taken
  <2>10. Shuffled(moved, s)
    BY <1>1, <2>4, ShuffledOn
  <2>11. \A y \in Mutexes : mm.owner[y] = None => mn.priority[y] = mm.priority[y]
    BY <2>5, <2>7, <2>8
  <2> DEFINE r == Propagate(pd, c)
  <2> HIDE DEF p
  <2>12. CASE p = moved.prio[owner]
    <3>1. r = [k |-> moved, m |-> mn, thread |-> None]
      BY <1>3, <2>12 DEF Propagate, p, mn, moved, x, t
    <3> HIDE DEF r
    <3>2. OnChain(r, s, mm, P)
      BY <2>7, <2>10, <2>11, <3>1 DEF OnChain, Spreads
    <3> QED BY <3>2 DEF r
  <2>13. CASE p # moved.prio[owner]
    <3> DEFINE n == ChangePriority(moved, owner, p)
    <3>1. r = [k |-> n, m |-> mn, thread |-> owner]
      BY <1>3, <2>13 DEF Propagate, p, mn, moved, x, t
    <3>2. moved.stat[owner] = "ready" => InReadyList(moved, owner)
      BY <2>8, <2>10 DEF ChainFits, Shuffled
    <3>3. Shuffled(n, moved)
      BY <2>4, <2>8, <2>9, <3>2, ChangeShuffles
    <3>4. Shuffled(n, s)
      BY <2>10, <3>3, ShuffledOn
    <3> HIDE DEF n, owner, r
    <3>5. OnChain(r, s, mm, P)
      BY <2>7, <2>8, <2>11, <3>1, <3>4 DEF OnChain, Spreads
    <3> QED BY <3>5 DEF r
  <2> QED BY <2>12, <2>13
<1> QED
  BY <1>2, <1>3

\* The turns of the loop, as a function.
LEMMA PriorityTurnsExist ==
  ASSUME NEW start, NEW pd, NEW n \in Nat
  PROVE  \E g : g = [i \in 0..n |-> IF i = 0 THEN start ELSE Propagate(pd, g[i - 1])]
<1> DEFINE IsTurns(g, j) ==
             g = [i \in 0..j |-> IF i = 0 THEN start ELSE Propagate(pd, g[i - 1])]
           Missing == {j \in Nat : ~ \E g : IsTurns(g, j)}
<1> SUFFICES ASSUME Missing # {} PROVE FALSE
  OBVIOUS
<1> DEFINE j == Min(Missing)
<1>1. j \in Nat /\ j \in Missing /\ \A i \in Missing : j <= i
  BY MinProperties
<1> HIDE DEF j
<1>2. j # 0
  <2>1. IsTurns([i \in 0..0 |-> start], 0)
    OBVIOUS
  <2> QED BY <1>1, <2>1
<1>3. j - 1 \in Nat /\ j - 1 \notin Missing
  <2> HIDE DEF Missing
  <2> QED BY <1>1, <1>2
<1>4. PICK g : IsTurns(g, j - 1)
  BY <1>3
<1> DEFINE h == [i \in 0..j |-> IF i = j THEN Propagate(pd, g[j - 1]) ELSE g[i]]
<1>5. \A i \in 0..(j-1) : h[i] = g[i]
  BY <1>1
<1>6. \A i \in 0..j : h[i] = IF i = 0 THEN start ELSE Propagate(pd, h[i - 1])
  <2> TAKE i \in 0..j
  <2>1. CASE i = j
    <3>1. h[i] = Propagate(pd, g[j - 1]) /\ h[j - 1] = g[j - 1]
      BY <1>1, <1>2, <2>1
    <3> QED BY <1>2, <2>1, <3>1
  <2>2. CASE i # j /\ i # 0
    <3>1. i \in 0..(j-1) /\ i - 1 \in 0..(j-1)
      BY <1>1, <2>2
    <3>2. g[i] = Propagate(pd, g[i - 1])
      BY <1>4, <2>2, <3>1
    <3> HIDE DEF h
    <3> QED BY <1>5, <2>2, <3>1, <3>2
  <2>3. CASE i # j /\ i = 0
    <3>1. i \in 0..(j-1) /\ g[i] = start
      BY <1>1, <1>4, <2>3
    <3> HIDE DEF h
    <3> QED BY <1>5, <2>3, <3>1
  <2> QED BY <2>1, <2>2, <2>3
<1>7. IsTurns(h, j)
  <2>1. h = [i \in 0..j |-> h[i]]
    OBVIOUS
  <2> HIDE DEF h
  <2> QED BY <1>6, <2>1
<1> QED
  BY <1>1, <1>7

\* However far it travels, a change of priority moves threads within their lists
\* and touches no owner.
LEMMA UpdateSpreads ==
  ASSUME NEW s, NEW mm, NEW pd, NEW P, ChainFits(s, mm, pd, P), Taken,
         NEW t \in P, NEW q \in Prio
  PROVE  LET c == UpdatePriority(s, mm, pd, t, q) IN Spreads(c.k, c.m, s, mm)
<1> DEFINE start == [k |-> ChangePriority(s, t, q), m |-> mm, thread |-> t]
           n == 2 * Cardinality(Thread)
           g == CHOOSE g : g = [i \in 0..n |-> IF i = 0 THEN start
                                               ELSE Propagate(pd, g[i - 1])]
<1>1. n \in Nat
  BY ThreadAssumption, FS_CardinalityType
<1>2. UpdatePriority(s, mm, pd, t, q) = g[n]
  BY DEF UpdatePriority
<1>3. OnChain(start, s, mm, P)
  <2>1. t \in Thread /\ Linked(s) /\ mm \in MutexState
    BY DEF ChainFits
  <2>2. s.stat[t] = "ready" => InReadyList(s, t)
    BY DEF ChainFits
  <2>3. Shuffled(ChangePriority(s, t, q), s)
    BY <2>1, <2>2, ChangeShuffles
  <2> QED BY <2>1, <2>3 DEF OnChain, Spreads
<1> HIDE DEF start, n
<1>4. g = [i \in 0..n |-> IF i = 0 THEN start ELSE Propagate(pd, g[i - 1])]
  BY <1>1, PriorityTurnsExist
<1> HIDE DEF g
<1>5. g[0] = start /\ \A i \in 1..n : g[i] = Propagate(pd, g[i - 1])
  BY <1>1, <1>4
<1> DEFINE Bad == {i \in 0..n : ~OnChain(g[i], s, mm, P)}
<1>6. Bad = {}
  <2> SUFFICES ASSUME Bad # {} PROVE FALSE
    OBVIOUS
  <2> DEFINE j == Min(Bad)
  <2>1. Bad \in SUBSET Nat
    BY <1>1
  <2>2. j \in Bad /\ \A i \in Bad : j <= i
    <3> HIDE DEF Bad
    <3> QED BY <2>1, MinProperties
  <2> HIDE DEF j
  <2>3. j \in 0..n /\ ~OnChain(g[j], s, mm, P)
    BY <2>2
  <2>4. j # 0
    BY <1>3, <1>5, <2>3
  <2>5. j \in 1..n /\ j - 1 \in 0..n /\ j - 1 \notin Bad
    <3> HIDE DEF Bad
    <3> QED BY <1>1, <2>2, <2>3, <2>4
  <2>6. OnChain(g[j - 1], s, mm, P) /\ g[j] = Propagate(pd, g[j - 1])
    BY <1>5, <2>5
  <2> QED BY <2>3, <2>6, PropagateStep
<1>7. OnChain(g[n], s, mm, P)
  BY <1>1, <1>6
<1> QED
  BY <1>2, <1>7 DEF OnChain

LEMMA SpreadsSelf ==
  ASSUME NEW s, Linked(s), NEW mm \in MutexState
  PROVE  Spreads(s, mm, s, mm)
  BY ShuffledSelf DEF Spreads, Linked

LEMMA RefreshSpreads ==
  ASSUME NEW s, NEW mm, NEW P, ChainFits(s, mm, pend, P), Taken,
         NEW x \in Mutexes, mm.owner[x] \in P
  PROVE  LET c == RefreshOwner(s, mm, x) IN Spreads(c.k, c.m, s, mm)
<1> DEFINE o == mm.owner[x]
           p == MutexPrio(mm, taken, o)
<1>1. o \in P /\ o \in Thread /\ mm \in MutexState /\ Linked(s)
  BY DEF ChainFits
<1>2. p \in Prio
  BY <1>1, MutexPrioType DEF Taken
<1>3. RefreshOwner(s, mm, x) = IF p # s.prio[o] THEN UpdatePriority(s, mm, pend, o, p)
                                               ELSE [k |-> s, m |-> mm]
  BY DEF RefreshOwner
<1> HIDE DEF o, p
<1>4. CASE p # s.prio[o]
  BY <1>1, <1>2, <1>3, <1>4, UpdateSpreads
<1>5. CASE p = s.prio[o]
  BY <1>1, <1>3, <1>5, SpreadsSelf
<1> QED
  BY <1>4, <1>5

\* What a waiter leaves behind that gave up, or was deleted.
LEMMA DropSpreads ==
  ASSUME NEW s, NEW P, ChainFits(s, m, pend, P), Taken,
         NEW x \in Mutexes, m.owner[x] \in P \union {None}, NEW t,
         m.owner[x] = None => s.wait[x] = <<>> /\ m.priority[x] = NoPrio
  PROVE  LET c == DropWaiter(s, x, t) IN Spreads(c.k, c.m, s, m)
<1> DEFINE mm == [m EXCEPT !.priority[x] = FirstPrio(s, x)]
           c == DropWaiter(s, x, t)
<1>1. Linked(s) /\ ListFacts(s) /\ m \in MutexState /\ x \in WaitList
  BY MutexAssumption DEF ChainFits, Linked
<1>2. /\ FirstPrio(s, x) \in Prio \union {NoPrio}
      /\ s.wait[x] = <<>> => FirstPrio(s, x) = NoPrio
  BY <1>1, FirstPrioType
<1>3. /\ mm \in MutexState /\ mm.owner = m.owner /\ mm.hold = m.hold /\ mm.ceiling = m.ceiling
      /\ \A y \in Mutexes : y # x => mm.priority[y] = m.priority[y]
      /\ mm.priority[x] = FirstPrio(s, x)
  BY <1>1, <1>2 DEF MutexState
<1>4. c = IF mm.owner[x] # None /\ s.prio[mm.owner[x]] = s.prio[t]
          THEN RefreshOwner(s, mm, x) ELSE [k |-> s, m |-> mm]
  BY DEF DropWaiter
<1> HIDE DEF mm
<1>5. ChainFits(s, mm, pend, P)
  BY <1>3 DEF ChainFits
<1>6. \A y \in Mutexes : m.owner[y] = None => mm.priority[y] = m.priority[y]
  BY <1>2, <1>3
<1>7. Spreads(c.k, c.m, s, mm)
  <2>1. CASE mm.owner[x] # None /\ s.prio[mm.owner[x]] = s.prio[t]
    <3>1. mm.owner[x] \in P
      BY <1>3, <2>1
    <3> QED BY <1>4, <1>5, <2>1, <3>1, RefreshSpreads
  <2>2. CASE ~(mm.owner[x] # None /\ s.prio[mm.owner[x]] = s.prio[t])
    <3>1. c.k = s /\ c.m = mm
      BY <1>4, <2>2
    <3> HIDE DEF c
    <3> QED BY <1>1, <1>3, <3>1, SpreadsSelf
  <2> QED BY <2>1, <2>2
<1> HIDE DEF c
<1>8. Spreads(c.k, c.m, s, m)
  BY <1>3, <1>6, <1>7 DEF Spreads
<1> QED
  BY <1>8 DEF c

-----------------------------------------------------------------------------
(* The kernel while the threads D are being deleted: off every list, never *)
(* to be queued or run again.                                              *)

KernelFits(s, D) ==
  /\ IpcInv(s) /\ s.lock = 0 /\ D \subseteq Thread \ {Idle}
  /\ \A t \in Thread : s.stat[t] = "ready" => InReadyList(s, t) \/ t \in D
  /\ \A u \in D : /\ u # s.cur /\ s.stat[u] # "close" /\ u \notin s.armed
                  /\ ~InReadyList(s, u) /\ ~WaitsSomewhere(s, u)

\* No thread starts or stops waiting.
Unmoved(r, s) ==
  /\ \A w \in WaitList : \A x : On(r, w, x) <=> On(s, w, x)
  /\ r.err = s.err
  /\ \A t \in Thread : /\ r.stat[t] = "suspend" <=> s.stat[t] = "suspend"
                       /\ r.stat[t] = "close" <=> s.stat[t] = "close"

\* Thread t stops waiting; the others go on as they are.
Unblocked(r, s, t) ==
  /\ \A w \in WaitList : \A x \in Thread : On(r, w, x) <=> On(s, w, x) /\ x # t
  /\ \A x \in Thread : x # t => r.err[x] = s.err[x]
  /\ \A x \in Thread : /\ r.stat[x] = "suspend" <=> s.stat[x] = "suspend" /\ x # t
                       /\ r.stat[x] = "close" <=> s.stat[x] = "close"

LEMMA UnmovedOn ==
  ASSUME NEW r, NEW s, NEW q, Unmoved(r, s), Unmoved(s, q)
  PROVE  Unmoved(r, q)
  BY DEF Unmoved

LEMMA ShuffledUnmoved ==
  ASSUME NEW r, NEW s, Shuffled(r, s)
  PROVE  Unmoved(r, s)
  BY DEF Shuffled, Unmoved

LEMMA ShuffledFits ==
  ASSUME NEW s, NEW D, KernelFits(s, D), NEW r, Shuffled(r, s)
  PROVE  KernelFits(r, D)
<1>1. KernelInv(r)
  BY DEF KernelFits, IpcInv, KernelInv, StatFacts, Shuffled
<1>2. WaitFacts(r) /\ (r.lock # 0 => r.stat[r.cur] = "running")
  BY DEF KernelFits, IpcInv, WaitFacts, Shuffled
<1>3. \A t : WaitsSomewhere(r, t) <=> WaitsSomewhere(s, t)
  BY DEF Shuffled, WaitsSomewhere, On
<1> QED
  BY <1>1, <1>2, <1>3 DEF KernelFits, IpcInv, Shuffled

LEMMA SchedulesFits ==
  ASSUME NEW s, NEW D, KernelFits(s, D)
  PROVE  LET r == rt_schedule(s)
         IN  KernelFits(r, D) /\ Unmoved(r, s) /\ r.stat[r.cur] = "running"
<1> DEFINE r == rt_schedule(s)
<1>1. IpcInv(s) /\ KernelInv(s)
  BY DEF KernelFits, IpcInv
<1>2. KernelInv(r) /\ Scheduled(r, s) /\ Rescheduled(r, s)
  BY <1>1, ScheduleStep, Reschedules
<1> HIDE DEF r
<1>3. \A t \in Thread : r.stat[t] = "close" <=> s.stat[t] = "close"
  BY <1>2 DEF Scheduled
<1>4. Unmoved(r, s)
  BY <1>2, <1>3 DEF Rescheduled, Unmoved, On
<1>5. \A t \in Thread : r.stat[t] = "ready" => InReadyList(r, t) \/ t \in D
  BY <1>2 DEF Scheduled, KernelFits
<1>6. ASSUME NEW u \in D
      PROVE  /\ u # r.cur /\ r.stat[u] # "close" /\ u \notin r.armed
             /\ ~InReadyList(r, u) /\ ~WaitsSomewhere(r, u)
  <2>1. /\ u \in Thread /\ u # s.cur /\ s.stat[u] # "close" /\ u \notin s.armed
        /\ ~InReadyList(s, u) /\ ~WaitsSomewhere(s, u)
    BY <1>6 DEF KernelFits
  <2>2. u # r.cur /\ u \notin r.armed /\ ~InReadyList(r, u) /\ ~WaitsSomewhere(r, u)
    BY <1>2, <2>1 DEF Scheduled
  <2> QED BY <1>3, <2>1, <2>2
<1>7. IpcInv(r) /\ r.lock = 0 /\ r.stat[r.cur] = "running"
  BY <1>2 DEF Rescheduled, KernelFits
<1> QED
  BY <1>4, <1>5, <1>6, <1>7 DEF KernelFits, r

LEMMA FieldsFit ==
  ASSUME NEW s, NEW D, KernelFits(s, D), NEW r \in KernelState, SameLists(r, s),
         r.stat = s.stat, r.armed = s.armed, r.cur = s.cur, r.prio = s.prio, r.lock = s.lock
  PROVE  KernelFits(r, D)
<1>1. IpcInv(s) /\ ListFacts(s)
  BY DEF KernelFits, IpcInv, KernelInv
<1>2. IpcInv(r)
  BY <1>1, IpcFieldsChange
<1>3. /\ \A x : InReadyList(r, x) <=> InReadyList(s, x)
      /\ \A x : WaitsSomewhere(r, x) <=> WaitsSomewhere(s, x)
  BY <1>1, FieldsChange
<1> QED
  BY <1>2, <1>3 DEF KernelFits

LEMMA SliceFits ==
  ASSUME NEW s, NEW D, KernelFits(s, D)
  PROVE  LET r == rt_schedule([s EXCEPT !.yield = @ \union {s.cur}])
         IN  KernelFits(r, D) /\ Unmoved(r, s) /\ r.stat[r.cur] = "running"
<1> DEFINE a == [s EXCEPT !.yield = @ \union {s.cur}]
<1>1. s \in KernelState
  BY DEF KernelFits, IpcInv, KernelInv, ListFacts
<1>2. /\ a \in KernelState /\ SameLists(a, s) /\ a.stat = s.stat /\ a.armed = s.armed
      /\ a.cur = s.cur /\ a.prio = s.prio /\ a.lock = s.lock /\ a.err = s.err
  BY <1>1 DEF KernelState, SameLists
<1> HIDE DEF a
<1>3. KernelFits(a, D)
  BY <1>2, FieldsFit
<1>4. Unmoved(a, s)
  BY <1>2 DEF Unmoved, SameLists, On
<1> DEFINE r == rt_schedule(a)
<1>5. KernelFits(r, D) /\ Unmoved(r, a) /\ r.stat[r.cur] = "running"
  BY <1>3, SchedulesFits
<1>6. Unmoved(r, s)
  BY <1>4, <1>5, UnmovedOn
<1> QED
  BY <1>5, <1>6 DEF a

LEMMA ResumedFits ==
  ASSUME NEW s, NEW D, KernelFits(s, D), NEW t \in Thread, t \notin D,
         s.stat[t] = "suspend", NEW r, NEW e, Resumed(r, s, t), Woke(r, s, t, e)
  PROVE  KernelFits(r, D) /\ Unblocked(r, s, t)
<1>1. /\ s.stat \in [Thread -> Stat] /\ s.err \in [Thread -> Error] /\ s.cur \in Thread
  BY DEF KernelFits, IpcInv, KernelInv, ListFacts, KernelState
<1>2. r.stat = [s.stat EXCEPT ![t] = IF t = s.cur THEN "running" ELSE "ready"]
  BY DEF Resumed
<1>3. /\ r.stat[t] \in {"running", "ready"} /\ (r.stat[t] = "ready" => t # s.cur)
      /\ \A x \in Thread : x # t => r.stat[x] = s.stat[x]
  BY <1>1, <1>2
<1>4. \A x \in Thread : x # t => r.err[x] = s.err[x]
  <2>1. r.err = [s.err EXCEPT ![t] = e]
    BY DEF Woke
  <2> QED BY <1>1, <2>1
<1>5. Unblocked(r, s, t)
  <2>1. \A w \in WaitList, x \in Thread : On(r, w, x) <=> On(s, w, x) /\ x # t
    BY DEF Woke
  <2> QED BY <1>3, <1>4, <2>1 DEF Unblocked
<1>6. IpcInv(r) /\ r.lock = s.lock /\ r.cur = s.cur /\ r.armed = s.armed \ {t}
  BY DEF Woke
<1>7. /\ \A x : InReadyList(r, x) <=> InReadyList(s, x) \/ (x = t /\ t # s.cur)
      /\ \A x : WaitsSomewhere(r, x) => WaitsSomewhere(s, x)
  BY DEF Resumed
<1>8. KernelFits(r, D)
  BY <1>3, <1>6, <1>7 DEF KernelFits
<1> QED
  BY <1>5, <1>8

LEMMA ResumeFits ==
  ASSUME NEW s, NEW D, KernelFits(s, D), NEW t \in Thread, t \notin D, s.stat[t] = "suspend"
  PROVE  LET r == rt_thread_resume(s, t)
         IN  /\ KernelFits(r, D) /\ Unblocked(r, s, t)
             /\ r.err = s.err /\ r.cur = s.cur
<1> DEFINE r == rt_thread_resume(s, t)
<1>1. s \in KernelState /\ IpcInv(s) /\ KernelInv(s) /\ s.err[t] \in Error
      /\ s.err \in [Thread -> Error]
  BY DEF KernelFits, IpcInv, KernelInv, ListFacts, KernelState
<1>2. [s EXCEPT !.err[t] = s.err[t]] = s
  BY <1>1 DEF KernelState
<1>3. Woke(r, s, t, s.err[t])
  BY <1>1, <1>2, ResumeWakes
<1>4. Resumed(r, s, t)
  BY <1>1, ResumeSuspended
<1> HIDE DEF r
<1>5. KernelFits(r, D) /\ Unblocked(r, s, t)
  BY <1>3, <1>4, ResumedFits
<1>6. r.err = s.err /\ r.cur = s.cur
  BY <1>1, <1>3 DEF Woke
<1> QED
  BY <1>5, <1>6 DEF r

LEMMA TimeoutFits ==
  ASSUME NEW s, NEW D, KernelFits(s, D), NEW t \in s.armed
  PROVE  LET r == _thread_timeout(s, t)
         IN  /\ KernelFits(r, D) /\ Unblocked(r, s, t) /\ r.err[t] = "ETIMEOUT"
             /\ r.stat[r.cur] = "running" /\ t \in Thread /\ t \notin D
<1> DEFINE late == [s EXCEPT !.armed = @ \ {t}, !.err[t] = "ETIMEOUT"]
           told == [s EXCEPT !.err[t] = "ETIMEOUT"]
           w == rt_thread_resume(told, t)
           r == rt_schedule(w)
<1>1. /\ s \in KernelState /\ t \in Thread /\ t \notin D
      /\ s.stat[t] = "suspend" /\ "ETIMEOUT" \in Error /\ s.err \in [Thread -> Error]
  BY DEF KernelFits, IpcInv, KernelInv, StatFacts, ListFacts, KernelState, Error
<1>2. _thread_timeout(s, t) = r
  <2>1. ResumeUnlink(told, t) = rt_list_remove(late, t)
    BY <1>1 DEF ResumeUnlink, rt_list_remove, KernelState
  <2>2. w = rt_schedule_insert_thread(ResumeUnlink(told, t), t)
    BY <1>1 DEF rt_thread_resume, KernelState
  <2> QED BY <2>1, <2>2 DEF _thread_timeout
<1>3. /\ told \in KernelState /\ SameLists(told, s) /\ told.stat = s.stat
      /\ told.armed = s.armed /\ told.cur = s.cur /\ told.prio = s.prio
      /\ told.lock = s.lock /\ told.err = [s.err EXCEPT ![t] = "ETIMEOUT"]
  BY <1>1 DEF KernelState, SameLists
<1> HIDE DEF told
<1>4. KernelFits(told, D)
  BY <1>3, FieldsFit
<1>5. KernelFits(w, D) /\ Unblocked(w, told, t) /\ w.err = told.err
  BY <1>1, <1>3, <1>4, ResumeFits
<1> HIDE DEF w
<1>6. KernelFits(r, D) /\ Unmoved(r, w) /\ r.stat[r.cur] = "running"
  BY <1>5, SchedulesFits
<1> HIDE DEF r
<1>7. \A x \in Thread : r.err[x] = IF x = t THEN "ETIMEOUT" ELSE s.err[x]
  BY <1>1, <1>3, <1>5, <1>6 DEF Unmoved
<1>8. Unblocked(r, s, t)
  BY <1>3, <1>5, <1>6, <1>7 DEF Unblocked, Unmoved, SameLists, On
<1> QED
  BY <1>1, <1>2, <1>6, <1>7, <1>8 DEF r

\* A thread that suspends itself leaves the ready threads as they are.
LEMMA SuspendKeepsReady ==
  ASSUME NEW s, IpcInv(s), s.stat[s.cur] = "running", s.cur # Idle
  PROVE  \A x : InReadyList(rt_thread_suspend(s, s.cur), x) <=> InReadyList(s, x)
<1>1. KernelInv(s)
  BY DEF IpcInv
<1> QED
  BY <1>1, SuspendCurrent

LEMMA SuspendedFits ==
  ASSUME NEW s, NEW D, KernelFits(s, D), NEW t \in Thread, t = s.cur, NEW r,
         IpcInv(r), r.cur = s.cur, r.lock = s.lock, r.stat = [s.stat EXCEPT ![t] = "suspend"],
         r.armed \subseteq s.armed \union {t},
         \A x : InReadyList(r, x) <=> InReadyList(s, x),
         \A w \in WaitList, x \in Thread : On(r, w, x) => On(s, w, x) \/ x = t
  PROVE  KernelFits(r, D)
<1>1. s.stat \in [Thread -> Stat]
  BY DEF KernelFits, IpcInv, KernelInv, ListFacts, KernelState
<1>2. \A x \in Thread : r.stat[x] = IF x = t THEN "suspend" ELSE s.stat[x]
  BY <1>1
<1>3. \A x \in Thread \ {t} : WaitsSomewhere(r, x) => WaitsSomewhere(s, x)
  BY DEF WaitsSomewhere, On
<1>4. t \notin D /\ D \subseteq Thread
  BY DEF KernelFits
<1> QED
  BY <1>2, <1>3, <1>4 DEF KernelFits

LEMMA EokGiven ==
  ASSUME NEW s, IpcInv(s), NEW t \in Thread, NEW a, GivenError(a, s, t, "EOK")
  PROVE  /\ IpcInv(a) /\ SameLists(a, s) /\ a.stat = s.stat /\ a.armed = s.armed
         /\ a.cur = s.cur /\ a.prio = s.prio /\ a.lock = s.lock
         /\ a.err = [s.err EXCEPT ![t] = "EOK"]
<1>1. "EOK" \in Error
  BY DEF Error
<1> QED
  BY <1>1, ErrorGiven

LEMMA UnlinkedWaits ==
  ASSUME NEW s, ListFacts(s), NEW t \in Thread
  PROVE  \A w \in WaitList : \A x : On(rt_list_remove(s, t), w, x) <=> On(s, w, x) /\ x # t
  BY ListRemove DEF On

LEMMA WaitFits ==
  ASSUME NEW s, NEW D, KernelFits(s, D), NEW t \in Thread, t = s.cur, t # Idle,
         s.stat[t] = "running", NEW x \in WaitList
  PROVE  LET r == SuspendOnPrio([s EXCEPT !.err[t] = "EOK"], x, t)
         IN  KernelFits(r, D) /\ Waits(r, s, x, t, "EOK", FALSE)
<1> DEFINE a == [s EXCEPT !.err[t] = "EOK"]
           u == rt_thread_suspend(a, t)
           r == SuspendOnPrio(a, x, t)
<1>1. /\ IpcInv(s) /\ s \in KernelState /\ s.lock = 0 /\ "EOK" \in Error
      /\ s.stat \in [Thread -> Stat]
  BY DEF KernelFits, IpcInv, KernelInv, ListFacts, KernelState, Error
<1>2. Waits(r, s, x, t, "EOK", FALSE)
  <2>1. Waits(SuspendTimed(a, x, "PRIO", t, FALSE), s, x, t, "EOK", FALSE)
    BY <1>1, SuspendWaits
  <2>2. SuspendTimed(a, x, "PRIO", t, FALSE) = r
    BY DEF SuspendTimed
  <2> QED BY <2>1, <2>2
<1>3. IpcInv(a) /\ a.stat = s.stat /\ a.cur = s.cur /\ a.ready = s.ready
  <2>1. GivenError(a, s, t, "EOK")
    BY DEF GivenError
  <2> HIDE DEF a
  <2>2. IpcInv(a) /\ SameLists(a, s) /\ a.stat = s.stat /\ a.cur = s.cur
    BY <1>1, <2>1, EokGiven, ZenonT(60)
  <2> QED BY <2>2 DEF SameLists
<1>4. r.ready = u.ready
  BY DEF SuspendOnPrio
<1> HIDE DEF r, a
<1>5. \A y : InReadyList(u, y) <=> InReadyList(a, y)
  BY <1>3, SuspendKeepsReady
<1> HIDE DEF u
<1>6. \A y : InReadyList(r, y) <=> InReadyList(s, y)
  BY <1>3, <1>4, <1>5 DEF InReadyList
<1>7. KernelFits(r, D)
  BY <1>2, <1>6, SuspendedFits DEF Waits
<1> QED
  BY <1>2, <1>7 DEF r, a

LEMMA SleepFits ==
  ASSUME NEW s, NEW D, KernelFits(s, D), NEW t \in Thread, t = s.cur, t # Idle,
         s.stat[t] = "running"
  PROVE  LET r == [rt_thread_suspend(s, t) EXCEPT !.armed = @ \union {t}, !.err[t] = "EINTR"]
         IN  KernelFits(r, D) /\ Slept(r, s, t, "EINTR")
<1> DEFINE u == rt_thread_suspend(s, t)
           r == [u EXCEPT !.armed = @ \union {t}, !.err[t] = "EINTR"]
<1>1. IpcInv(s) /\ s.lock = 0 /\ "EINTR" \in Error
  BY DEF KernelFits, Error
<1>2. Slept(r, s, t, "EINTR")
  BY <1>1, SleepWaits
<1>3. \A y : InReadyList(u, y) <=> InReadyList(s, y)
  BY <1>1, SuspendKeepsReady
<1>4. r.ready = u.ready
  OBVIOUS
<1> HIDE DEF r, u
<1>5. \A y : InReadyList(r, y) <=> InReadyList(s, y)
  BY <1>3, <1>4 DEF InReadyList
<1>6. \A w \in WaitList, x \in Thread : On(r, w, x) => On(s, w, x)
  BY <1>2 DEF Slept, On
<1>7. KernelFits(r, D)
  BY <1>2, <1>5, <1>6, SuspendedFits DEF Slept
<1> QED
  BY <1>2, <1>7 DEF r, u

\* The thread timer of a thread that waits is started.
LEMMA ArmedFits ==
  ASSUME NEW s, NEW D, KernelFits(s, D), NEW t \in Thread, t \notin D, s.stat[t] = "suspend"
  PROVE  LET r == [s EXCEPT !.armed = @ \union {t}]
         IN  KernelFits(r, D) /\ Unmoved(r, s) /\ r.cur = s.cur
<1> DEFINE r == [s EXCEPT !.armed = @ \union {t}]
<1>1. s \in KernelState /\ IpcInv(s) /\ KernelInv(s) /\ StatFacts(s) /\ ListFacts(s)
  BY DEF KernelFits, IpcInv, KernelInv, ListFacts
<1>2. /\ r \in KernelState /\ SameLists(r, s) /\ r.stat = s.stat /\ r.err = s.err
      /\ r.armed = s.armed \union {t} /\ r.cur = s.cur /\ r.prio = s.prio /\ r.lock = s.lock
  BY <1>1 DEF KernelState, SameLists
<1> HIDE DEF r
<1>3. /\ ListFacts(r)
      /\ \A x : InReadyList(r, x) <=> InReadyList(s, x)
      /\ \A x : WaitsSomewhere(r, x) <=> WaitsSomewhere(s, x)
      /\ \A x : Dead(r, x) <=> Dead(s, x)
  BY <1>1, <1>2, FieldsChange
<1>4. StatFacts(r)
  <2>1. \A x \in r.armed : r.stat[x] = "suspend"
    BY <1>1, <1>2 DEF StatFacts
  <2>2. Idle \in Thread
    BY ThreadAssumption
  <2> QED BY <1>1, <1>2, <1>3, <2>1, <2>2 DEF StatFacts
<1>5. \A w \in WaitList : \A x : On(r, w, x) <=> On(s, w, x)
  BY <1>2 DEF On, SameLists
<1>6. IpcInv(r)
  BY <1>1, <1>2, <1>3, <1>4, <1>5 DEF IpcInv, KernelInv, WaitFacts
<1>7. Unmoved(r, s)
  BY <1>2, <1>5 DEF Unmoved
<1>8. KernelFits(r, D)
  BY <1>2, <1>3, <1>6 DEF KernelFits
<1> QED
  BY <1>2, <1>7, <1>8 DEF r

\* The first half of a deletion: thread u is off every list.
LEMMA RemovedFits ==
  ASSUME NEW s, NEW D, KernelFits(s, D), NEW u \in Thread \ {Idle}, u # s.cur,
         s.stat[u] # "close", u \notin s.armed
  PROVE  LET r == rt_schedule_remove_thread(s, u)
         IN  /\ KernelFits(r, D \union {u}) /\ SameFields(r, s)
             /\ \A w \in WaitList : \A x \in Thread : On(r, w, x) <=> On(s, w, x) /\ x # u
<1> DEFINE r == rt_schedule_remove_thread(s, u)
<1>1. /\ KernelInv(s) /\ ListFacts(s) /\ StatFacts(s) /\ WaitFacts(s) /\ ~Dead(s, u)
      /\ IpcInv(s) /\ u \in Thread
  BY DEF KernelFits, IpcInv, KernelInv, StatFacts
<1>2. /\ KernelInv(r) /\ SameFields(r, s)
      /\ \A x : InReadyList(r, x) <=> InReadyList(s, x) /\ x # u
  BY <1>1, UnqueueThread
<1>3. \A x : WaitsSomewhere(r, x) <=> WaitsSomewhere(s, x) /\ x # u
  BY <1>1, ScheduleRemove
<1>4. \A w \in WaitList : \A x : On(r, w, x) <=> On(s, w, x) /\ x # u
  <2>1. \A w \in WaitList : \A x :
          Contains(rt_list_remove(s, u).wait[w], x) <=> Contains(s.wait[w], x) /\ x # u
    BY <1>1, ListRemove
  <2>2. r.wait = rt_list_remove(s, u).wait
    BY DEF rt_schedule_remove_thread
  <2> QED BY <2>1, <2>2 DEF On
<1> HIDE DEF r
<1>5. IpcInv(r)
  BY <1>1, <1>2, <1>4 DEF IpcInv, WaitFacts, SameFields
<1>6. KernelFits(r, D \union {u})
  <2>1. D \union {u} \subseteq Thread \ {Idle} /\ r.lock = 0
    BY <1>2 DEF KernelFits, SameFields
  <2>2. \A t \in Thread : r.stat[t] = "ready" => InReadyList(r, t) \/ t \in D \union {u}
    BY <1>2 DEF KernelFits, SameFields
  <2>3. \A v \in D \union {u} : /\ v # r.cur /\ r.stat[v] # "close" /\ v \notin r.armed
                               /\ ~InReadyList(r, v) /\ ~WaitsSomewhere(r, v)
    BY <1>2, <1>3 DEF KernelFits, SameFields
  <2> QED BY <1>5, <2>1, <2>2, <2>3 DEF KernelFits
<1> QED
  BY <1>2, <1>4, <1>6 DEF r

\* Thread u is closed, and not yet on the list of the dead.
ClosedBy(r, s, u) ==
  /\ Linked(r)
  /\ r.stat = [s.stat EXCEPT ![u] = "close"] /\ r.err = s.err
  /\ r.armed = s.armed /\ r.cur = s.cur /\ r.lock = s.lock
  /\ \A x : InReadyList(r, x) <=> InReadyList(s, x)
  /\ \A x : Dead(r, x) <=> Dead(s, x)
  /\ \A w \in WaitList : \A x \in Thread : On(r, w, x) <=> On(s, w, x)

LEMMA ShuffledClosed ==
  ASSUME NEW s, NEW u, NEW c, ClosedBy(c, s, u), NEW r, Shuffled(r, c)
  PROVE  ClosedBy(r, s, u)
  BY LinkedKept DEF ClosedBy, Shuffled

LEMMA CloseFits ==
  ASSUME NEW s, NEW D, KernelFits(s, D), NEW u \in D,
         NEW c, c = [s EXCEPT !.armed = @ \ {u}, !.stat[u] = "close", !.yield = @ \ {u}]
  PROVE  ClosedBy(c, s, u) /\ ClosedBy(rt_list_remove(c, u), s, u)
<1>1. /\ s \in KernelState /\ ListFacts(s) /\ StatFacts(s) /\ WaitFacts(s)
      /\ u \in Thread /\ s.stat \in [Thread -> Stat] /\ "close" \in Stat
  BY DEF KernelFits, IpcInv, KernelInv, ListFacts, KernelState, Stat
<1>2. /\ u # s.cur /\ s.stat[u] # "close" /\ u \notin s.armed
      /\ ~InReadyList(s, u) /\ ~WaitsSomewhere(s, u) /\ ~Dead(s, u)
  BY <1>1 DEF KernelFits, StatFacts
<1>3. /\ c \in KernelState /\ SameLists(c, s) /\ c.prio = s.prio
      /\ c.stat = [s.stat EXCEPT ![u] = "close"] /\ c.err = s.err
      /\ c.armed = s.armed /\ c.cur = s.cur /\ c.lock = s.lock
  BY <1>1, <1>2 DEF KernelState, SameLists
<1>4. /\ ListFacts(c)
      /\ \A x : InReadyList(c, x) <=> InReadyList(s, x)
      /\ \A x : Dead(c, x) <=> Dead(s, x)
  BY <1>1, <1>3, FieldsChange
<1>5. \A w \in WaitList : \A x : On(c, w, x) <=> On(s, w, x)
  BY <1>3 DEF On, SameLists
<1>6. \A x \in Thread : x # u => c.stat[x] = s.stat[x]
  BY <1>1, <1>3
<1>7. \A w \in WaitList : ~On(s, w, u)
  BY <1>2 DEF WaitsSomewhere, On
<1>8. Linked(c)
  <2>1. WaitFacts(c)
    BY <1>1, <1>5, <1>6, <1>7 DEF WaitFacts
  <2>2. \A t \in Thread : InReadyList(c, t) => c.stat[t] = "ready" /\ t # c.cur
    BY <1>1, <1>2, <1>3, <1>4, <1>6 DEF StatFacts
  <2>3. \A t \in Thread : Dead(c, t) => c.stat[t] = "close"
    BY <1>1, <1>2, <1>4, <1>6 DEF StatFacts
  <2> QED BY <1>4, <2>1, <2>2, <2>3 DEF Linked
<1>9. ClosedBy(c, s, u)
  BY <1>3, <1>4, <1>5, <1>8 DEF ClosedBy
<1> DEFINE r == rt_list_remove(c, u)
<1>10. /\ ListFacts(r) /\ SameFields(r, c)
       /\ \A x : InReadyList(r, x) <=> InReadyList(c, x)
       /\ \A x : Dead(r, x) <=> Dead(c, x) /\ x # u
  BY <1>1, <1>2, <1>4, UnlinkUnqueued
<1>11. \A w \in WaitList : \A x : On(r, w, x) <=> On(c, w, x) /\ x # u
  BY <1>1, <1>4, UnlinkedWaits
<1> HIDE DEF r
<1>12. Shuffled(r, c)
  BY <1>2, <1>4, <1>5, <1>7, <1>10, <1>11 DEF Shuffled, SameFields
<1>13. ClosedBy(r, s, u)
  BY <1>9, <1>12, ShuffledClosed
<1> QED
  BY <1>9, <1>13 DEF r

LEMMA EnqueuedFits ==
  ASSUME NEW s, NEW D, KernelFits(s, D), NEW u \in D, NEW r, ClosedBy(r, s, u)
  PROVE  LET n == rt_thread_defunct_enqueue(r, u)
         IN  /\ KernelFits(n, D \ {u})
             /\ n.stat = [s.stat EXCEPT ![u] = "close"] /\ n.err = s.err /\ n.cur = s.cur
             /\ \A w \in WaitList : \A x \in Thread : On(n, w, x) <=> On(s, w, x)
<1> DEFINE n == rt_thread_defunct_enqueue(r, u)
<1>1. /\ KernelInv(s) /\ StatFacts(s) /\ WaitFacts(s) /\ u \in Thread \ {Idle}
      /\ s.stat \in [Thread -> Stat] /\ Idle \in Thread /\ s.cur \in Thread
  BY ThreadAssumption DEF KernelFits, IpcInv, KernelInv, ListFacts, KernelState
<1>2. /\ u # s.cur /\ s.stat[u] # "close" /\ u \notin s.armed
      /\ ~InReadyList(s, u) /\ ~WaitsSomewhere(s, u) /\ ~Dead(s, u)
  BY <1>1 DEF KernelFits, StatFacts
<1>3. ListFacts(r) /\ ~Dead(r, u)
  BY <1>2 DEF ClosedBy, Linked
<1>4. /\ ListFacts(n) /\ SameFields(n, r)
      /\ \A x : InReadyList(n, x) <=> InReadyList(r, x)
      /\ \A x : Dead(n, x) <=> Dead(r, x) \/ x = u
  BY <1>1, <1>3, DefunctEnqueue
<1>5. n.wait = r.wait
  BY DEF rt_thread_defunct_enqueue
<1> HIDE DEF n
<1>6. /\ n.stat = [s.stat EXCEPT ![u] = "close"] /\ n.err = s.err /\ n.cur = s.cur
      /\ n.armed = s.armed /\ n.lock = s.lock
      /\ \A x : InReadyList(n, x) <=> InReadyList(s, x)
      /\ \A x : Dead(n, x) <=> Dead(s, x) \/ x = u
      /\ \A w \in WaitList : \A x \in Thread : On(n, w, x) <=> On(s, w, x)
  BY <1>4, <1>5 DEF ClosedBy, SameFields, On
<1>7. \A x \in Thread : n.stat[x] = IF x = u THEN "close" ELSE s.stat[x]
  BY <1>1, <1>6
<1>8. StatFacts(n)
  <2>1. \A t \in n.armed : n.stat[t] = "suspend"
    BY <1>1, <1>2, <1>6, <1>7 DEF StatFacts, KernelInv, ListFacts, KernelState
  <2>2. /\ \A t \in Thread : InReadyList(n, t) => n.stat[t] = "ready" /\ t # n.cur
        /\ \A t \in Thread : Dead(n, t) <=> n.stat[t] = "close"
        /\ \A t \in Thread : n.stat[t] = "running" => t = n.cur
    BY <1>1, <1>2, <1>6, <1>7 DEF StatFacts
  <2>3. /\ n.stat[n.cur] \in {"running", "suspend", "close"}
        /\ n.stat[Idle] \in {"ready", "running"}
        /\ Idle # n.cur => InReadyList(n, Idle)
    BY <1>1, <1>2, <1>6, <1>7 DEF StatFacts
  <2> QED BY <2>1, <2>2, <2>3 DEF StatFacts
<1>9. \A w \in WaitList : ~On(s, w, u)
  BY <1>2 DEF WaitsSomewhere, On
<1>10. WaitFacts(n)
  BY <1>1, <1>6, <1>7, <1>9 DEF WaitFacts
<1>11. IpcInv(n)
  BY <1>4, <1>6, <1>8, <1>10 DEF IpcInv, KernelInv, KernelFits
<1>12. \A x \in Thread : WaitsSomewhere(n, x) => WaitsSomewhere(s, x)
  BY <1>6 DEF WaitsSomewhere, On
<1>13. KernelFits(n, D \ {u})
  BY <1>6, <1>7, <1>11, <1>12 DEF KernelFits
<1> QED
  BY <1>6, <1>13 DEF n

-----------------------------------------------------------------------------
(* What the calls keep while they interleave. *)

\* Threads between the two critical sections of rt_thread_delete.
Deleted == {u \in Thread : \E v \in Thread : pc[v] = "detach" /\ arg[v] = u}

\* Threads that will never run again.
Gone(t) == t \in Deleted \/ k.stat[t] = "close"

Live == {t \in Thread : ~Gone(t)}

InCall(t) == pc[t] \in {"taking", "woken"}

KernelPart ==
  /\ KernelFits(k, Deleted)
  /\ pc[k.cur] \notin {"taking", "resched"} => k.stat[k.cur] = "running"

ArgPart ==
  /\ \A t \in Thread : InCall(t) => arg[t] \in Mutexes
  /\ \A v \in Thread : pc[v] = "detach" => arg[v] \in Thread
  /\ \A v, w \in Thread : pc[v] = "detach" /\ pc[w] = "detach" /\ arg[v] = arg[w] => v = w

OwnerOK(x) ==
  /\ m.owner[x] = None <=> m.hold[x] = 0
  /\ m.owner[x] = None => m.priority[x] = NoPrio
  /\ \A t \in Thread : /\ x \in taken[t] <=> m.owner[x] = t
                       /\ m.owner[x] = t => t # Idle /\ ~Gone(t)

\* A waiter is in the call it waits in, has its links, and another thread owns
\* the mutex.
WaitOK(t) ==
  \A x \in Mutexes : On(k, x, t) =>
    /\ InCall(t) /\ arg[t] = x /\ pend[t] = x /\ k.err[t] = "EOK" /\ t # Idle
    /\ m.owner[x] # None /\ m.owner[x] # t

\* A thread in rt_mutex_take that waits no longer, and will run again, has been
\* told that it failed or has been given the mutex.
CallOK(t) ==
  /\ InCall(t) => \/ On(k, arg[t], t) \/ Gone(t) \/ k.err[t] # "EOK"
                  \/ m.owner[arg[t]] = t /\ pend[t] = None
  /\ pend[t] # None => InCall(t) \/ pc[t] = "clear"
  /\ k.stat[t] = "suspend" /\ pend[t] # None => On(k, pend[t], t) \/ t \in Deleted

OwnerPart == \A x \in Mutexes : OwnerOK(x)
WaitPart == \A t \in Thread : WaitOK(t)
CallPart == \A t \in Thread : CallOK(t)

MutexInv == TypeOK /\ KernelPart /\ ArgPart /\ OwnerPart /\ WaitPart /\ CallPart

LEMMA MutexTypes ==
  ASSUME TypeOK
  PROVE  /\ k \in KernelState /\ k.cur \in Thread /\ k.stat \in [Thread -> Stat]
         /\ k.err \in [Thread -> Error] /\ k.prio \in [Thread -> Prio]
         /\ pc \in [Thread -> Label] /\ m \in MutexState /\ Taken
         /\ pend \in [Thread -> Mutexes \union {None}]
         /\ arg \in [Thread -> Mutexes \union Thread \union {None}]
         /\ m.owner \in [Mutexes -> Thread \union {None}]
         /\ WaitList = Mutexes /\ None \notin Thread \union Mutexes
  BY MutexAssumption DEF TypeOK, MutexState, Taken, KernelState

\* The threads that will run again are those a chain of owners can reach.
LEMMA LiveChain ==
  ASSUME MutexInv
  PROVE  ChainFits(k, m, pend, Live)
<1> USE DEF MutexInv
<1>1. Linked(k) /\ m \in MutexState /\ Live \subseteq Thread
  BY MutexTypes, IpcLinked DEF KernelPart, KernelFits, Live
<1>2. \A t \in Live : k.stat[t] = "ready" => InReadyList(k, t)
  BY DEF KernelPart, KernelFits, Live, Gone
<1>3. \A t \in Live : k.stat[t] = "suspend" /\ pend[t] # None =>
                        pend[t] \in Mutexes /\ On(k, pend[t], t)
  BY MutexTypes DEF CallPart, CallOK, Live, Gone
<1>4. \A x \in Mutexes, t \in Thread : On(k, x, t) => m.owner[x] \in Live
  <2> SUFFICES ASSUME NEW x \in Mutexes, NEW t \in Thread, On(k, x, t)
               PROVE  m.owner[x] \in Live
    OBVIOUS
  <2>1. m.owner[x] \in Thread
    BY MutexTypes DEF WaitPart, WaitOK
  <2> QED BY <2>1 DEF OwnerPart, OwnerOK, Live
<1> QED
  BY <1>1, <1>2, <1>3, <1>4 DEF ChainFits

\* Thread u goes on as it is.
SameThread(u) ==
  /\ \A x \in Mutexes : On(k', x, u) <=> On(k, x, u)
  /\ InCall(u) => k'.err[u] = k.err[u]
  /\ k'.stat[u] = "suspend" <=> k.stat[u] = "suspend"
  /\ k'.stat[u] = "close" <=> k.stat[u] = "close"
  /\ InCall(u)' <=> InCall(u)
  /\ pc'[u] = "clear" <=> pc[u] = "clear"
  /\ arg'[u] = arg[u] /\ pend'[u] = pend[u]
  /\ u \in Deleted' <=> u \in Deleted
  /\ \A x \in Mutexes : m'.owner[x] = u <=> m.owner[x] = u
  /\ \A x \in Mutexes : On(k, x, u) => m'.owner[x] # None

LEMMA ThreadKept ==
  ASSUME MutexInv, NEW u \in Thread, SameThread(u)
  PROVE  WaitOK(u)' /\ CallOK(u)'
<1>1. WaitOK(u) /\ CallOK(u)
  BY DEF MutexInv, WaitPart, CallPart
<1>2. InCall(u) => arg[u] \in Mutexes
  BY DEF MutexInv, ArgPart
<1>3. pend[u] \in Mutexes \union {None}
  BY MutexTypes DEF MutexInv
<1>4. WaitOK(u)'
  BY <1>1 DEF WaitOK, SameThread
<1>5. Gone(u) <=> Gone(u)'
  BY DEF Gone, SameThread
<1>6. CallOK(u)'
  BY <1>1, <1>2, <1>3, <1>5 DEF CallOK, SameThread
<1> QED
  BY <1>4, <1>6

\* No mutex changes hands.
SameOwners ==
  /\ m'.owner = m.owner /\ taken' = taken
  /\ \A x \in Mutexes : /\ m'.hold[x] = 0 <=> m.hold[x] = 0
                        /\ m.owner[x] = None => m'.priority[x] = m.priority[x]
  /\ \A u \in Thread : Gone(u)' => Gone(u) \/ taken[u] = {}

LEMMA OwnersKept ==
  ASSUME MutexInv, SameOwners
  PROVE  OwnerPart'
<1> SUFFICES ASSUME NEW x \in Mutexes PROVE OwnerOK(x)'
  BY DEF OwnerPart
<1>1. OwnerOK(x)
  BY DEF MutexInv, OwnerPart
<1> QED
  BY <1>1 DEF OwnerOK, SameOwners

\* A step after which every thread waits, or does not, as before.
QuietMove ==
  /\ pc' \in [Thread -> Label] /\ m' \in MutexState
  /\ taken' = taken /\ pend' = pend /\ arg' = arg
  /\ m'.owner = m.owner
  /\ \A x \in Mutexes : /\ m'.hold[x] = 0 <=> m.hold[x] = 0
                        /\ m.owner[x] = None => m'.priority[x] = m.priority[x]
  /\ \A u \in Thread : /\ InCall(u)' <=> InCall(u)
                       /\ pc'[u] = "clear" <=> pc[u] = "clear"
                       /\ pc'[u] = "detach" <=> pc[u] = "detach"
  /\ KernelFits(k', Deleted)
  /\ pc'[k'.cur] \notin {"taking", "resched"} => k'.stat[k'.cur] = "running"
  /\ \A x \in Mutexes, u \in Thread : On(k', x, u) <=> On(k, x, u)
  /\ \A u \in Thread : /\ InCall(u) => k'.err[u] = k.err[u]
                       /\ k'.stat[u] = "suspend" <=> k.stat[u] = "suspend"
                       /\ k'.stat[u] = "close" <=> k.stat[u] = "close"

LEMMA QuietKeeps ==
  ASSUME MutexInv, QuietMove
  PROVE  MutexInv'
<1>1. TypeOK /\ ArgPart /\ OwnerPart /\ WaitPart /\ KernelPart
  BY DEF MutexInv
<1>2. Deleted' = Deleted
  BY DEF Deleted, QuietMove
<1>3. KernelPart'
  BY <1>2 DEF KernelPart, QuietMove
<1>4. TypeOK'
  <2>1. k' \in KernelState
    BY DEF QuietMove, KernelFits, IpcInv, KernelInv, ListFacts
  <2> QED BY <1>1, <2>1 DEF TypeOK, QuietMove, MutexState
<1>5. ArgPart'
  BY <1>1 DEF ArgPart, QuietMove
<1>6. \A u \in Thread : Gone(u)' <=> Gone(u)
  BY <1>2 DEF Gone, QuietMove
<1>7. SameOwners
  BY <1>6 DEF SameOwners, QuietMove
<1>8. ASSUME NEW u \in Thread PROVE SameThread(u)
  <2>1. \A x \in Mutexes : On(k, x, u) => m.owner[x] # None
    BY <1>1 DEF WaitPart, WaitOK
  <2> QED BY <1>2, <2>1 DEF SameThread, QuietMove
<1>9. WaitPart' /\ CallPart'
  BY <1>8, ThreadKept DEF WaitPart, CallPart
<1> QED
  BY <1>3, <1>4, <1>5, <1>7, <1>9, OwnersKept DEF MutexInv

\* The running thread, at a label where it runs.
LEMMA RunnerFacts ==
  ASSUME MutexInv, NEW t \in Thread, k.cur = t, pc[t] \notin {"taking", "resched"}
  PROVE  /\ k.stat[t] = "running" /\ ~Gone(t) /\ t \in Live
         /\ \A x \in Mutexes : ~On(k, x, t)
         /\ KernelFits(k, Deleted) /\ t \notin Deleted /\ ~WaitsSomewhere(k, t)
<1>1. KernelFits(k, Deleted) /\ k.stat[t] = "running"
  BY DEF MutexInv, KernelPart
<1>2. t \notin Deleted
  BY <1>1 DEF KernelFits
<1>3. \A w \in WaitList : ~On(k, w, t)
  BY <1>1 DEF KernelFits, IpcInv, WaitFacts
<1> QED
  BY <1>1, <1>2, <1>3, MutexAssumption DEF Gone, Live, WaitsSomewhere, On

\* Thread t moves from one label to another of the same kind.
LEMMA MovesQuietly ==
  ASSUME MutexInv, NEW t \in Thread, NEW l \in Label, pc' = [pc EXCEPT ![t] = l],
         \/ {pc[t], l} \subseteq {"taking", "woken"}
         \/ {pc[t], l} \subseteq {"run", "resched"}
  PROVE  /\ pc' \in [Thread -> Label]
         /\ \A u \in Thread : /\ InCall(u)' <=> InCall(u)
                              /\ pc'[u] = "clear" <=> pc[u] = "clear"
                              /\ pc'[u] = "detach" <=> pc[u] = "detach"
<1>1. pc \in [Thread -> Label]
  BY MutexTypes DEF MutexInv
<1>2. \A u \in Thread : pc'[u] = IF u = t THEN l ELSE pc[u]
  BY <1>1
<1> QED
  BY <1>1, <1>2 DEF InCall

LEMMA ScheduleStepKeeps ==
  ASSUME MutexInv, NEW t \in Thread, NEW l \in Label, k' = rt_schedule(k),
         pc' = [pc EXCEPT ![t] = l],
         \/ {pc[t], l} \subseteq {"taking", "woken"}
         \/ {pc[t], l} \subseteq {"run", "resched"},
         UNCHANGED <<m, taken, pend, arg>>
  PROVE  MutexInv'
<1>1. KernelFits(k, Deleted) /\ m \in MutexState /\ WaitList = Mutexes
  BY MutexTypes DEF MutexInv, KernelPart
<1>2. KernelFits(k', Deleted) /\ Unmoved(k', k) /\ k'.stat[k'.cur] = "running"
  BY <1>1, SchedulesFits
<1>3. /\ pc' \in [Thread -> Label]
      /\ \A u \in Thread : /\ InCall(u)' <=> InCall(u)
                           /\ pc'[u] = "clear" <=> pc[u] = "clear"
                           /\ pc'[u] = "detach" <=> pc[u] = "detach"
  BY MovesQuietly
<1>4. QuietMove
  BY <1>1, <1>2, <1>3 DEF QuietMove, Unmoved
<1> QED
  BY <1>4, QuietKeeps

LEMMA TakeScheduleKeeps ==
  ASSUME MutexInv, NEW t \in Thread, TakeSchedule(t)
  PROVE  MutexInv'
<1>1. "woken" \in Label
  BY DEF Label
<1> QED
  BY <1>1, ScheduleStepKeeps DEF TakeSchedule, ScheduleThen, At, Goto

LEMMA RescheduleKeeps ==
  ASSUME MutexInv, NEW t \in Thread, Reschedule(t)
  PROVE  MutexInv'
<1>1. "run" \in Label
  BY DEF Label
<1> QED
  BY <1>1, ScheduleStepKeeps DEF Reschedule, ScheduleThen, At, Goto

LEMMA TickKeeps ==
  ASSUME MutexInv, Tick
  PROVE  MutexInv'
<1>1. KernelFits(k, Deleted) /\ m \in MutexState /\ WaitList = Mutexes /\ pc \in [Thread -> Label]
  BY MutexTypes DEF MutexInv, KernelPart
<1>2. KernelFits(k', Deleted) /\ Unmoved(k', k) /\ k'.stat[k'.cur] = "running"
  BY <1>1, SliceFits DEF Tick, SliceEnd
<1>3. QuietMove
  BY <1>1, <1>2 DEF QuietMove, Unmoved, Tick, SliceEnd, InCall
<1> QED
  BY <1>3, QuietKeeps

LEMMA TakeAgainKeeps ==
  ASSUME MutexInv, NEW t \in Thread, NEW x \in Mutexes, TakeAgain(t, x)
  PROVE  MutexInv'
<1>1. k.cur = t /\ pc[t] = "run" /\ m.owner[x] = t /\ m.hold[x] < MaxHold
  BY DEF TakeAgain, At
<1>2. KernelFits(k, Deleted) /\ k.stat[t] = "running"
  BY <1>1, RunnerFacts
<1>3. m \in MutexState /\ pc \in [Thread -> Label] /\ WaitList = Mutexes /\ k \in KernelState
      /\ None \notin Thread
  BY MutexTypes DEF MutexInv
<1>4. m.hold[x] # 0 /\ m.hold[x] + 1 \in 0..MaxHold /\ m.hold[x] + 1 # 0
  <2>1. m.hold[x] \in 0..MaxHold /\ MaxHold \in Nat
    BY <1>3, MutexAssumption DEF MutexState
  <2>2. m.hold[x] # 0
    BY <1>1, <1>3 DEF MutexInv, OwnerPart, OwnerOK
  <2> QED BY <1>1, <2>1, <2>2
<1> DEFINE h == m.hold[x] + 1
<1>5. m' = [m EXCEPT !.hold[x] = h]
  BY DEF TakeAgain
<1> HIDE DEF h
<1>6. /\ m' \in MutexState /\ m'.owner = m.owner /\ m'.priority = m.priority
      /\ \A y \in Mutexes : m'.hold[y] = 0 <=> m.hold[y] = 0
  BY <1>3, <1>4, <1>5 DEF MutexState, h
<1>7. /\ IpcInv(k') /\ SameLists(k', k) /\ k'.stat = k.stat /\ k'.armed = k.armed
      /\ k'.cur = k.cur /\ k'.prio = k.prio /\ k'.lock = k.lock
      /\ k'.err = [k.err EXCEPT ![t] = "EOK"]
  <2>1. GivenError(k', k, t, "EOK")
    BY DEF TakeAgain, GivenError
  <2>2. IpcInv(k)
    BY <1>2 DEF KernelFits
  <2> QED BY <2>1, <2>2, EokGiven
<1>8. KernelFits(k', Deleted)
  <2>1. k' \in KernelState
    BY <1>7 DEF IpcInv, KernelInv, ListFacts
  <2> QED BY <1>2, <1>7, <2>1, FieldsFit
<1>9. \A y \in Mutexes, u \in Thread : On(k', y, u) <=> On(k, y, u)
  BY <1>7 DEF On, SameLists
<1>10. \A u \in Thread : InCall(u) => k'.err[u] = k.err[u]
  <2>1. \A u \in Thread : u # t => k'.err[u] = k.err[u]
    BY <1>3, <1>7 DEF KernelState
  <2> QED BY <1>1, <2>1 DEF InCall
<1>11. pc' = pc /\ taken' = taken /\ pend' = pend /\ arg' = arg
  BY DEF TakeAgain
<1>12. QuietMove
  BY <1>1, <1>2, <1>3, <1>6, <1>7, <1>8, <1>9, <1>10, <1>11 DEF QuietMove, InCall
<1> QED
  BY <1>12, QuietKeeps

LEMMA ReleaseInnerKeeps ==
  ASSUME MutexInv, NEW t \in Thread, NEW x \in Mutexes, ReleaseInner(t, x)
  PROVE  MutexInv'
<1>1. k.cur = t /\ pc[t] = "run" /\ m.owner[x] = t /\ m.hold[x] > 1 /\ k' = k /\ pc' = pc
      /\ taken' = taken /\ pend' = pend /\ arg' = arg
  BY DEF ReleaseInner, At
<1>2. KernelFits(k, Deleted) /\ k.stat[t] = "running"
  BY <1>1, RunnerFacts
<1>3. m \in MutexState /\ pc \in [Thread -> Label]
  BY MutexTypes DEF MutexInv
<1>4. m.hold[x] - 1 \in 0..MaxHold /\ m.hold[x] - 1 # 0 /\ m.hold[x] # 0
  <2>1. m.hold[x] \in 0..MaxHold /\ MaxHold \in Nat
    BY <1>3, MutexAssumption DEF MutexState
  <2> QED BY <1>1, <2>1
<1> DEFINE h == m.hold[x] - 1
<1>5. m' = [m EXCEPT !.hold[x] = h]
  BY DEF ReleaseInner
<1> HIDE DEF h
<1>6. /\ m' \in MutexState /\ m'.owner = m.owner /\ m'.priority = m.priority
      /\ \A y \in Mutexes : m'.hold[y] = 0 <=> m.hold[y] = 0
  BY <1>3, <1>4, <1>5 DEF MutexState, h
<1>7. QuietMove
  BY <1>1, <1>2, <1>3, <1>6 DEF QuietMove, InCall
<1> QED
  BY <1>7, QuietKeeps

LEMMA SetCeilingKeeps ==
  ASSUME MutexInv, NEW t \in Thread, NEW x \in Mutexes, NEW p \in Ceiling, SetCeiling(t, x, p)
  PROVE  MutexInv'
<1> DEFINE mm == [m EXCEPT !.ceiling[x] = p]
           c == IF m.owner[x] = None THEN [k |-> k, m |-> mm] ELSE RefreshOwner(k, mm, x)
<1>1. k.cur = t /\ pc[t] = "run" /\ k' = c.k /\ m' = c.m /\ pc' = pc
      /\ taken' = taken /\ pend' = pend /\ arg' = arg
  BY DEF SetCeiling, At, Become
<1>2. KernelFits(k, Deleted) /\ k.stat[t] = "running"
  BY <1>1, RunnerFacts
<1>3. m \in MutexState /\ pc \in [Thread -> Label] /\ Taken /\ p \in Prio /\ WaitList = Mutexes
  BY MutexTypes, MutexAssumption DEF MutexInv
<1>4. mm \in MutexState /\ mm.owner = m.owner /\ mm.hold = m.hold /\ mm.priority = m.priority
  BY <1>3 DEF MutexState
<1> HIDE DEF mm
<1>5. ChainFits(k, mm, pend, Live)
  BY <1>4, LiveChain DEF ChainFits
<1>6. Spreads(c.k, c.m, k, mm)
  <2>1. CASE m.owner[x] = None
    <3>1. c.k = k /\ c.m = mm
      BY <2>1
    <3>2. Linked(k)
      BY <1>5 DEF ChainFits
    <3> HIDE DEF c
    <3> QED BY <1>4, <3>1, <3>2, SpreadsSelf
  <2>2. CASE m.owner[x] # None
    <3>1. mm.owner[x] \in Live
      <4>1. m.owner[x] \in Thread
        BY <1>3, <2>2 DEF MutexState
      <4> QED BY <1>4, <4>1 DEF MutexInv, OwnerPart, OwnerOK, Live
    <3> QED BY <1>3, <1>5, <2>2, <3>1, RefreshSpreads
  <2> QED BY <2>1, <2>2
<1> HIDE DEF c
<1>7. /\ Shuffled(k', k) /\ m' \in MutexState /\ m'.owner = m.owner /\ m'.hold = m.hold
      /\ \A y \in Mutexes : m.owner[y] = None => m'.priority[y] = m.priority[y]
  BY <1>1, <1>4, <1>6 DEF Spreads
<1>8. KernelFits(k', Deleted) /\ Unmoved(k', k) /\ k'.cur = k.cur /\ k'.stat = k.stat
  BY <1>2, <1>7, ShuffledFits, ShuffledUnmoved DEF Shuffled
<1>9. QuietMove
  BY <1>1, <1>2, <1>3, <1>7, <1>8 DEF QuietMove, InCall, Unmoved
<1> QED
  BY <1>9, QuietKeeps

\* The parts of the invariant, one thread at a time.
LEMMA MutexAssembled ==
  ASSUME MutexInv, m' \in MutexState, Taken', pc' \in [Thread -> Label],
         pend' \in [Thread -> Mutexes \union {None}],
         arg' \in [Thread -> Mutexes \union Thread \union {None}],
         KernelFits(k', Deleted'), ArgPart', OwnerPart',
         pc'[k'.cur] \notin {"taking", "resched"} => k'.stat[k'.cur] = "running",
         \A u \in Thread : SameThread(u) \/ (WaitOK(u)' /\ CallOK(u)')
  PROVE  MutexInv'
<1>1. k' \in KernelState
  BY DEF KernelFits, IpcInv, KernelInv, ListFacts
<1>2. TypeOK'
  BY <1>1 DEF TypeOK, MutexState, Taken
<1>3. KernelPart'
  BY DEF KernelPart
<1>4. WaitPart' /\ CallPart'
  BY ThreadKept DEF WaitPart, CallPart
<1> QED
  BY <1>2, <1>3, <1>4 DEF MutexInv

\* Thread t goes from one label to another and begins or ends no deletion.
LEMMA OneMoves ==
  ASSUME MutexInv, NEW t \in Thread, NEW l \in Label \ {"detach"}, pc[t] # "detach",
         pc' = [pc EXCEPT ![t] = l], \A u \in Thread : u # t => arg'[u] = arg[u],
         l \in {"taking", "woken"} => arg'[t] \in Mutexes
  PROVE  /\ Deleted' = Deleted /\ ArgPart' /\ pc' \in [Thread -> Label] /\ pc'[t] = l
         /\ \A u \in Thread : u # t => pc'[u] = pc[u]
<1>1. pc \in [Thread -> Label] /\ ArgPart
  BY MutexTypes DEF MutexInv
<1>2. /\ pc' \in [Thread -> Label] /\ pc'[t] = l
      /\ \A u \in Thread : u # t => pc'[u] = pc[u]
  BY <1>1
<1>3. \A u \in Thread : pc'[u] = "detach" <=> pc[u] = "detach"
  BY <1>2
<1>4. \A u \in Thread : pc[u] = "detach" => arg'[u] = arg[u]
  OBVIOUS
<1>5. Deleted' = Deleted
  BY <1>3, <1>4 DEF Deleted
<1>6. ArgPart'
  <2>1. \A u \in Thread : InCall(u)' => arg'[u] \in Mutexes
    BY <1>1, <1>2 DEF ArgPart, InCall
  <2>2. \A u \in Thread : pc'[u] = "detach" => arg'[u] \in Thread
    BY <1>1, <1>3, <1>4 DEF ArgPart
  <2>3. \A v, w \in Thread : pc'[v] = "detach" /\ pc'[w] = "detach" /\ arg'[v] = arg'[w] => v = w
    BY <1>1, <1>3, <1>4 DEF ArgPart
  <2> QED BY <2>1, <2>2, <2>3 DEF ArgPart
<1> QED
  BY <1>2, <1>5, <1>6

\* A running thread outside rt_mutex_take has no pending object.
LEMMA NothingPends ==
  ASSUME MutexInv, NEW t \in Thread, pc[t] \in {"run", "resched", "detach"}
  PROVE  pend[t] = None
BY DEF MutexInv, CallPart, CallOK, InCall

LEMMA TakeFreeKeeps ==
  ASSUME MutexInv, NEW t \in Thread, NEW x \in Mutexes, TakeFree(t, x)
  PROVE  MutexInv'
<1> DEFINE mine == [m EXCEPT !.owner[x] = t, !.priority[x] = NoPrio, !.hold[x] = 1]
           s == [k EXCEPT !.err[t] = "EOK"]
           c == UpdatePriority(s, mine, pend, t, m.ceiling[x])
<1>1. /\ k.cur = t /\ pc[t] = "run" /\ t # Idle /\ m.owner[x] = None
      /\ IF m.ceiling[x] < k.prio[t] THEN k' = c.k /\ m' = c.m ELSE k' = s /\ m' = mine
      /\ taken' = Listed(taken, t, x) /\ pc' = pc /\ pend' = pend /\ arg' = arg
  BY DEF TakeFree, At, Become
<1>2. /\ KernelFits(k, Deleted) /\ k.stat[t] = "running" /\ t \in Live /\ ~Gone(t)
      /\ \A y \in Mutexes : ~On(k, y, t)
  BY <1>1, RunnerFacts
<1>3. /\ m \in MutexState /\ pc \in [Thread -> Label] /\ Taken /\ WaitList = Mutexes
      /\ k \in KernelState /\ None \notin Thread /\ ArgPart /\ OwnerPart
      /\ pend \in [Thread -> Mutexes \union {None}] /\ k.prio[t] \in Prio
      /\ arg \in [Thread -> Mutexes \union Thread \union {None}]
  BY MutexTypes DEF MutexInv
<1>4. /\ mine \in MutexState /\ mine.ceiling = m.ceiling
      /\ mine.owner = [m.owner EXCEPT ![x] = t] /\ mine.hold = [m.hold EXCEPT ![x] = 1]
      /\ \A y \in Mutexes : y # x => mine.priority[y] = m.priority[y]
  <2>1. 1 \in 0..MaxHold
    BY MutexAssumption
  <2> QED BY <1>3, <2>1 DEF MutexState
<1>5. /\ IpcInv(s) /\ SameLists(s, k) /\ s.stat = k.stat /\ s.armed = k.armed
      /\ s.cur = k.cur /\ s.prio = k.prio /\ s.lock = k.lock
      /\ s.err = [k.err EXCEPT ![t] = "EOK"]
  <2>1. GivenError(s, k, t, "EOK")
    BY DEF GivenError
  <2>2. IpcInv(k)
    BY <1>2 DEF KernelFits
  <2> HIDE DEF s
  <2> QED BY <2>1, <2>2, EokGiven
<1> HIDE DEF s, mine
<1>6. KernelFits(s, Deleted)
  <2>1. s \in KernelState
    BY <1>5 DEF IpcInv, KernelInv, ListFacts
  <2> QED BY <1>2, <1>5, <2>1, FieldsFit
<1>7. \A y \in Mutexes : \A u : On(s, y, u) <=> On(k, y, u)
  BY <1>5 DEF On, SameLists
<1>8. ChainFits(s, mine, pend, Live)
  <2>1. ChainFits(k, m, pend, Live)
    BY LiveChain
  <2>2. Linked(s)
    BY <1>5, IpcLinked
  <2>3. \A u : InReadyList(s, u) <=> InReadyList(k, u)
    BY <1>5 DEF InReadyList, SameLists
  <2>4. \A y \in Mutexes, u \in Thread : On(s, y, u) => mine.owner[y] \in Live
    BY <1>2, <1>3, <1>4, <1>7, <2>1 DEF ChainFits, MutexState
  <2>5. \A u \in Live : s.stat[u] = "suspend" /\ pend[u] # None =>
                          pend[u] \in Mutexes /\ On(s, pend[u], u)
    BY <1>5, <1>7, <2>1 DEF ChainFits
  <2>6. Live \subseteq Thread /\ \A u \in Live : s.stat[u] = "ready" => InReadyList(s, u)
    BY <1>5, <2>1, <2>3 DEF ChainFits
  <2> QED BY <1>4, <2>2, <2>4, <2>5, <2>6 DEF ChainFits
<1>9. Spreads(k', m', s, mine)
  <2>1. CASE m.ceiling[x] < k.prio[t]
    <3>1. m.ceiling[x] \in Prio
      <4>1. m.ceiling[x] \in Prio \union {NoPrio}
        BY <1>3 DEF MutexState
      <4>2. m.ceiling[x] # NoPrio
        <5>1. k.prio[t] \in Nat /\ NoPrio \in Nat /\ k.prio[t] < NoPrio
          BY <1>3, MutexAssumption, PrioAssumption
        <5>2. ~(NoPrio < k.prio[t])
          BY <5>1
        <5> QED BY <2>1, <5>2
      <4> QED BY <4>1, <4>2
    <3>2. Spreads(c.k, c.m, s, mine)
      BY <1>2, <1>3, <1>8, <3>1, UpdateSpreads
    <3> QED BY <1>1, <2>1, <3>2
  <2>2. CASE ~(m.ceiling[x] < k.prio[t])
    <3>1. k' = s /\ m' = mine /\ Linked(s)
      BY <1>1, <1>8, <2>2 DEF ChainFits
    <3> QED BY <1>4, <3>1, SpreadsSelf
  <2> QED BY <2>1, <2>2
<1> HIDE DEF c
<1>10. /\ Shuffled(k', s) /\ m' \in MutexState
       /\ m'.owner = [m.owner EXCEPT ![x] = t] /\ m'.hold = [m.hold EXCEPT ![x] = 1]
       /\ \A y \in Mutexes : y # x /\ m.owner[y] = None => m'.priority[y] = m.priority[y]
  BY <1>3, <1>4, <1>9 DEF Spreads, MutexState
<1>11. /\ KernelFits(k', Deleted) /\ k'.stat = k.stat /\ k'.cur = t
       /\ k'.err = [k.err EXCEPT ![t] = "EOK"]
       /\ \A y \in Mutexes : \A u : On(k', y, u) <=> On(k, y, u)
  BY <1>1, <1>3, <1>5, <1>6, <1>7, <1>10, ShuffledFits DEF Shuffled
<1>12. Deleted' = Deleted /\ ArgPart'
  BY <1>1, <1>3 DEF Deleted, ArgPart, InCall
<1>13. Taken' /\ \A y \in Mutexes, u \in Thread :
         y \in taken'[u] <=> y \in taken[u] \/ (y = x /\ u = t)
  BY <1>1, <1>3 DEF Taken, Listed
<1>14. OwnerPart'
  <2> SUFFICES ASSUME NEW y \in Mutexes PROVE OwnerOK(y)'
    BY DEF OwnerPart
  <2>1. OwnerOK(y) /\ OwnerOK(x)
    BY <1>3 DEF OwnerPart
  <2>2. \A u \in Thread : Gone(u)' <=> Gone(u)
    BY <1>11, <1>12 DEF Gone
  <2>3. m'.owner[y] = (IF y = x THEN t ELSE m.owner[y]) /\ m'.hold[y] = IF y = x THEN 1 ELSE m.hold[y]
    BY <1>3, <1>10 DEF MutexState
  <2>4. CASE y = x
    BY <1>1, <1>2, <1>3, <1>13, <2>1, <2>2, <2>3, <2>4 DEF OwnerOK
  <2>5. CASE y # x
    BY <1>10, <1>13, <2>1, <2>2, <2>3, <2>5 DEF OwnerOK
  <2> QED BY <2>4, <2>5
<1>15. ASSUME NEW u \in Thread, u # t PROVE SameThread(u)
  <2>1. k'.err[u] = k.err[u]
    BY <1>3, <1>11, <1>15 DEF KernelState
  <2>2. \A y \in Mutexes : m'.owner[y] = IF y = x THEN t ELSE m.owner[y]
    BY <1>3, <1>10 DEF MutexState
  <2>3. \A y \in Mutexes : On(k, y, u) => m.owner[y] # None
    BY DEF MutexInv, WaitPart, WaitOK
  <2> QED BY <1>1, <1>3, <1>11, <1>12, <1>15, <2>1, <2>2, <2>3 DEF SameThread, InCall
<1>16. WaitOK(t)' /\ CallOK(t)'
  BY <1>1, <1>2, <1>11, NothingPends DEF WaitOK, CallOK, InCall
<1> QED
  BY <1>1, <1>2, <1>3, <1>10, <1>11, <1>12, <1>13, <1>14, <1>15, <1>16, MutexAssembled

LEMMA TakeSucceedsKeeps ==
  ASSUME MutexInv, NEW t \in Thread, TakeSucceeds(t)
  PROVE  MutexInv'
<1>1. /\ k.cur = t /\ pc[t] = "woken" /\ k.err[t] = "EOK" /\ pc' = [pc EXCEPT ![t] = "run"]
      /\ arg' = [arg EXCEPT ![t] = None]
      /\ k' = k /\ m' = m /\ taken' = taken /\ pend' = pend
  BY DEF TakeSucceeds, At, Goto
<1>2. /\ KernelFits(k, Deleted) /\ k.stat[t] = "running" /\ ~Gone(t)
      /\ \A y \in Mutexes : ~On(k, y, t)
  BY <1>1, RunnerFacts
<1>3. /\ m \in MutexState /\ pc \in [Thread -> Label] /\ Taken
      /\ pend \in [Thread -> Mutexes \union {None}]
      /\ arg \in [Thread -> Mutexes \union Thread \union {None}]
      /\ arg' \in [Thread -> Mutexes \union Thread \union {None}]
      /\ \A u \in Thread : u # t => arg'[u] = arg[u]
  BY <1>1, MutexTypes DEF MutexInv
<1>4. /\ Deleted' = Deleted /\ ArgPart' /\ pc' \in [Thread -> Label] /\ pc'[t] = "run"
      /\ \A u \in Thread : u # t => pc'[u] = pc[u]
  BY <1>1, <1>3, OneMoves DEF Label
<1>5. pend[t] = None
  <2>1. arg[t] \in Mutexes /\ CallOK(t)
    BY <1>1 DEF MutexInv, ArgPart, CallPart, InCall
  <2> QED BY <1>1, <1>2, <2>1 DEF CallOK, InCall
<1>6. OwnerPart'
  <2>1. SameOwners
    BY <1>1, <1>4 DEF SameOwners, Gone
  <2> QED BY <2>1, OwnersKept
<1>7. ASSUME NEW u \in Thread, u # t PROVE SameThread(u)
  <2>1. \A y \in Mutexes : On(k, y, u) => m.owner[y] # None
    BY DEF MutexInv, WaitPart, WaitOK
  <2> QED BY <1>1, <1>3, <1>4, <1>7, <2>1 DEF SameThread, InCall
<1>8. WaitOK(t)' /\ CallOK(t)'
  BY <1>1, <1>2, <1>4, <1>5 DEF WaitOK, CallOK, InCall
<1> QED
  BY <1>1, <1>2, <1>3, <1>4, <1>6, <1>7, <1>8, MutexAssembled DEF Taken

LEMMA ClearPendingKeeps ==
  ASSUME MutexInv, NEW t \in Thread, ClearPending(t)
  PROVE  MutexInv'
<1>1. /\ k.cur = t /\ pc[t] = "clear" /\ pc' = [pc EXCEPT ![t] = "run"]
      /\ pend' = [pend EXCEPT ![t] = None]
      /\ k' = k /\ m' = m /\ taken' = taken /\ arg' = arg
  BY DEF ClearPending, At, Goto
<1>2. /\ KernelFits(k, Deleted) /\ k.stat[t] = "running" /\ ~Gone(t)
      /\ \A y \in Mutexes : ~On(k, y, t)
  BY <1>1, RunnerFacts
<1>3. /\ m \in MutexState /\ pc \in [Thread -> Label] /\ Taken
      /\ pend \in [Thread -> Mutexes \union {None}]
      /\ arg \in [Thread -> Mutexes \union Thread \union {None}]
      /\ pend' \in [Thread -> Mutexes \union {None}] /\ pend'[t] = None
      /\ \A u \in Thread : u # t => pend'[u] = pend[u]
  BY <1>1, MutexTypes DEF MutexInv
<1>4. /\ Deleted' = Deleted /\ ArgPart' /\ pc' \in [Thread -> Label] /\ pc'[t] = "run"
      /\ \A u \in Thread : u # t => pc'[u] = pc[u]
  BY <1>1, <1>3, OneMoves DEF Label
<1>5. OwnerPart'
  <2>1. SameOwners
    BY <1>1, <1>4 DEF SameOwners, Gone
  <2> QED BY <2>1, OwnersKept
<1>6. ASSUME NEW u \in Thread, u # t PROVE SameThread(u)
  <2>1. \A y \in Mutexes : On(k, y, u) => m.owner[y] # None
    BY DEF MutexInv, WaitPart, WaitOK
  <2> QED BY <1>1, <1>3, <1>4, <1>6, <2>1 DEF SameThread, InCall
<1>7. WaitOK(t)' /\ CallOK(t)'
  BY <1>1, <1>2, <1>3, <1>4 DEF WaitOK, CallOK, InCall
<1> QED
  BY <1>1, <1>2, <1>3, <1>4, <1>5, <1>6, <1>7, MutexAssembled DEF Taken

\* A mutex that nobody owns has no waiters.
LEMMA FreeHasNoWaiters ==
  ASSUME MutexInv, NEW s, ListFacts(s), NEW x \in Mutexes, m.owner[x] = None,
         \A u \in Thread : On(s, x, u) => On(k, x, u)
  PROVE  s.wait[x] = <<>> /\ m.priority[x] = NoPrio
<1>1. m.priority[x] = NoPrio
  BY DEF MutexInv, OwnerPart, OwnerOK
<1>2. \A u \in Thread : ~On(k, x, u)
  BY DEF MutexInv, WaitPart, WaitOK
<1>3. s.wait[x] \in Seq(Thread)
  BY MutexAssumption DEF ListFacts, KernelState
<1>4. \A u : ~Contains(s.wait[x], u)
  BY <1>2, <1>3 DEF On, Contains
<1> QED
  BY <1>1, <1>3, <1>4, HeadList

LEMMA TakeFailsKeeps ==
  ASSUME MutexInv, NEW t \in Thread, TakeFails(t)
  PROVE  MutexInv'
<1> DEFINE x == arg[t]
           c == DropWaiter(k, x, t)
<1>1. /\ k.cur = t /\ pc[t] = "woken" /\ k.err[t] # "EOK" /\ pc' = [pc EXCEPT ![t] = "clear"]
      /\ arg' = [arg EXCEPT ![t] = None]
      /\ k' = c.k /\ m' = c.m /\ taken' = taken /\ pend' = pend
  BY DEF TakeFails, At, Goto, Become
<1>2. /\ KernelFits(k, Deleted) /\ k.stat[t] = "running" /\ ~Gone(t)
      /\ \A y \in Mutexes : ~On(k, y, t)
  BY <1>1, RunnerFacts
<1>3. /\ m \in MutexState /\ pc \in [Thread -> Label] /\ Taken /\ WaitList = Mutexes
      /\ pend \in [Thread -> Mutexes \union {None}]
      /\ arg \in [Thread -> Mutexes \union Thread \union {None}]
      /\ arg' \in [Thread -> Mutexes \union Thread \union {None}]
      /\ \A u \in Thread : u # t => arg'[u] = arg[u]
  BY <1>1, MutexTypes DEF MutexInv
<1>4. /\ Deleted' = Deleted /\ ArgPart' /\ pc' \in [Thread -> Label] /\ pc'[t] = "clear"
      /\ \A u \in Thread : u # t => pc'[u] = pc[u]
  BY <1>1, <1>3, OneMoves DEF Label
<1>5. x \in Mutexes
  BY <1>1 DEF MutexInv, ArgPart, InCall
<1> HIDE DEF x
<1>6. m.owner[x] \in Live \union {None}
  <2>1. m.owner[x] \in Thread \union {None} /\ OwnerOK(x)
    BY <1>3, <1>5 DEF MutexState, MutexInv, OwnerPart
  <2> QED BY <2>1 DEF OwnerOK, Live
<1>7. m.owner[x] = None => k.wait[x] = <<>> /\ m.priority[x] = NoPrio
  <2>1. ListFacts(k)
    BY <1>2 DEF KernelFits, IpcInv, KernelInv
  <2> QED BY <1>5, <2>1, FreeHasNoWaiters
<1>8. Spreads(c.k, c.m, k, m)
  <2>1. ChainFits(k, m, pend, Live)
    BY LiveChain
  <2> QED BY <1>3, <1>5, <1>6, <1>7, <2>1, DropSpreads
<1> HIDE DEF c
<1>9. /\ Shuffled(k', k) /\ m' \in MutexState /\ m'.owner = m.owner /\ m'.hold = m.hold
      /\ \A y \in Mutexes : m.owner[y] = None => m'.priority[y] = m.priority[y]
  BY <1>1, <1>8 DEF Spreads
<1>10. KernelFits(k', Deleted) /\ Unmoved(k', k) /\ k'.cur = k.cur /\ k'.stat = k.stat
  BY <1>2, <1>9, ShuffledFits, ShuffledUnmoved DEF Shuffled
<1>11. OwnerPart'
  <2>1. SameOwners
    BY <1>1, <1>4, <1>9, <1>10 DEF SameOwners, Gone
  <2> QED BY <2>1, OwnersKept
<1>12. ASSUME NEW u \in Thread, u # t PROVE SameThread(u)
  <2>1. \A y \in Mutexes : On(k, y, u) => m.owner[y] # None
    BY DEF MutexInv, WaitPart, WaitOK
  <2> QED BY <1>1, <1>3, <1>4, <1>9, <1>10, <1>12, <2>1 DEF SameThread, InCall, Unmoved
<1>13. WaitOK(t)' /\ CallOK(t)'
  BY <1>1, <1>2, <1>3, <1>4, <1>10 DEF WaitOK, CallOK, InCall, Unmoved
<1> QED
  BY <1>1, <1>2, <1>3, <1>4, <1>9, <1>10, <1>11, <1>12, <1>13, MutexAssembled DEF Taken

LEMMA SleepKeeps ==
  ASSUME MutexInv, NEW t \in Thread, Sleep(t)
  PROVE  MutexInv'
<1>1. /\ k.cur = t /\ pc[t] = "run" /\ t # Idle /\ pc' = [pc EXCEPT ![t] = "resched"]
      /\ k' = [rt_thread_suspend(k, t) EXCEPT !.armed = @ \union {t}, !.err[t] = "EINTR"]
      /\ m' = m /\ taken' = taken /\ pend' = pend /\ arg' = arg
  BY DEF Sleep, SleepStart, At, Goto
<1>2. /\ KernelFits(k, Deleted) /\ k.stat[t] = "running" /\ ~Gone(t)
      /\ \A y \in Mutexes : ~On(k, y, t)
  BY <1>1, RunnerFacts
<1>3. /\ m \in MutexState /\ pc \in [Thread -> Label] /\ Taken /\ WaitList = Mutexes
      /\ pend \in [Thread -> Mutexes \union {None}] /\ pend[t] = None
      /\ arg \in [Thread -> Mutexes \union Thread \union {None}] /\ k \in KernelState
  BY <1>1, MutexTypes, NothingPends DEF MutexInv
<1>4. /\ Deleted' = Deleted /\ ArgPart' /\ pc' \in [Thread -> Label] /\ pc'[t] = "resched"
      /\ \A u \in Thread : u # t => pc'[u] = pc[u]
  BY <1>1, OneMoves DEF Label
<1>5. KernelFits(k', Deleted) /\ Slept(k', k, t, "EINTR")
  BY <1>1, <1>2, SleepFits
<1>6. /\ k'.cur = t /\ \A y \in Mutexes : \A u : On(k', y, u) <=> On(k, y, u)
      /\ k'.stat[t] = "suspend"
      /\ \A u \in Thread : u # t => k'.stat[u] = k.stat[u] /\ k'.err[u] = k.err[u]
  BY <1>1, <1>3, <1>5 DEF Slept, On, KernelState
<1>7. OwnerPart'
  <2>1. \A u \in Thread : Gone(u)' => Gone(u)
    BY <1>4, <1>6 DEF Gone
  <2>2. SameOwners
    BY <1>1, <2>1 DEF SameOwners
  <2> QED BY <2>2, OwnersKept
<1>8. ASSUME NEW u \in Thread, u # t PROVE SameThread(u)
  <2>1. \A y \in Mutexes : On(k, y, u) => m.owner[y] # None
    BY DEF MutexInv, WaitPart, WaitOK
  <2> QED BY <1>1, <1>4, <1>6, <1>8, <2>1 DEF SameThread, InCall
<1>9. WaitOK(t)' /\ CallOK(t)'
  BY <1>1, <1>2, <1>3, <1>4, <1>6 DEF WaitOK, CallOK, InCall
<1> QED
  BY <1>1, <1>3, <1>4, <1>5, <1>6, <1>7, <1>8, <1>9, MutexAssembled DEF Taken

LEMMA TimeoutKeeps ==
  ASSUME MutexInv, NEW t \in Thread, Timeout(t)
  PROVE  MutexInv'
<1>1. /\ t \in k.armed /\ k' = _thread_timeout(k, t) /\ pc' = pc
      /\ m' = m /\ taken' = taken /\ pend' = pend /\ arg' = arg
  BY DEF Timeout, TimerExpires
<1>2. /\ m \in MutexState /\ pc \in [Thread -> Label] /\ Taken /\ WaitList = Mutexes
      /\ pend \in [Thread -> Mutexes \union {None}] /\ ArgPart /\ KernelFits(k, Deleted)
      /\ arg \in [Thread -> Mutexes \union Thread \union {None}] /\ k \in KernelState
  BY MutexTypes DEF MutexInv, KernelPart
<1>3. /\ KernelFits(k', Deleted) /\ Unblocked(k', k, t) /\ k'.err[t] = "ETIMEOUT"
      /\ k'.stat[k'.cur] = "running" /\ t \notin Deleted
  BY <1>1, <1>2, TimeoutFits
<1>4. Deleted' = Deleted /\ ArgPart'
  BY <1>1, <1>2 DEF Deleted, ArgPart, InCall
<1>5. OwnerPart'
  <2>1. \A u \in Thread : Gone(u)' => Gone(u)
    BY <1>3, <1>4 DEF Gone, Unblocked
  <2>2. SameOwners
    BY <1>1, <2>1 DEF SameOwners
  <2> QED BY <2>2, OwnersKept
<1>6. ASSUME NEW u \in Thread, u # t PROVE SameThread(u)
  <2>1. \A y \in Mutexes : On(k, y, u) => m.owner[y] # None
    BY DEF MutexInv, WaitPart, WaitOK
  <2> QED BY <1>1, <1>2, <1>3, <1>4, <1>6, <2>1 DEF SameThread, InCall, Unblocked
<1>7. WaitOK(t)' /\ CallOK(t)'
  <2>1. \A y \in Mutexes : ~On(k', y, t)
    BY <1>2, <1>3 DEF Unblocked
  <2>2. CallOK(t)
    BY DEF MutexInv, CallPart
  <2> QED BY <1>1, <1>3, <2>1, <2>2 DEF WaitOK, CallOK, InCall, Unblocked
<1> QED
  BY <1>1, <1>2, <1>3, <1>4, <1>5, <1>6, <1>7, MutexAssembled DEF Taken

\* The threads a chain can reach, when the running thread has joined the waiters.
LEMMA WaitingChain ==
  ASSUME MutexInv, NEW t \in Thread, NEW x \in Mutexes, m.owner[x] \in Live,
         NEW pd, pd = [pend EXCEPT ![t] = x],
         NEW mm \in MutexState, mm.owner = m.owner, NEW s, Linked(s),
         \A u \in Thread : s.stat[u] = "ready" => InReadyList(s, u) \/ u \in Deleted,
         \A u \in Thread : u # t => s.stat[u] = k.stat[u],
         \A y \in Mutexes, u \in Thread : On(s, y, u) <=> On(k, y, u) \/ (y = x /\ u = t)
  PROVE  ChainFits(s, mm, pd, Live)
<1>1. ChainFits(k, m, pend, Live)
  BY LiveChain
<1>2. None \notin Mutexes /\ pd[t] = x /\ \A u \in Thread : u # t => pd[u] = pend[u]
  BY MutexTypes DEF MutexInv
<1>3. Live \subseteq Thread /\ \A u \in Live : s.stat[u] = "ready" => InReadyList(s, u)
  BY DEF Live, Gone
<1>4. \A u \in Live : s.stat[u] = "suspend" /\ pd[u] # None =>
                        pd[u] \in Mutexes /\ On(s, pd[u], u)
  <2> SUFFICES ASSUME NEW u \in Live, s.stat[u] = "suspend", pd[u] # None
               PROVE  pd[u] \in Mutexes /\ On(s, pd[u], u)
    OBVIOUS
  <2>1. CASE u = t
    BY <1>2, <2>1
  <2>2. CASE u # t
    <3>1. u \in Thread /\ k.stat[u] = "suspend" /\ pd[u] = pend[u]
      BY <1>2, <1>3, <2>2
    <3> QED BY <1>1, <3>1 DEF ChainFits
  <2> QED BY <2>1, <2>2
<1>5. \A y \in Mutexes, u \in Thread : On(s, y, u) => mm.owner[y] \in Live
  BY <1>1 DEF ChainFits
<1> QED
  BY <1>3, <1>4, <1>5 DEF ChainFits

LEMMA TakeWaitKeeps ==
  ASSUME MutexInv, NEW t \in Thread, NEW x \in Mutexes, NEW timed \in BOOLEAN,
         TakeWait(t, x, timed)
  PROVE  MutexInv'
<1> DEFINE p == k.prio[t]
           s == SuspendOnPrio([k EXCEPT !.err[t] = "EOK"], x, t)
           mm == IF p < m.priority[x] THEN [m EXCEPT !.priority[x] = p] ELSE m
           c == IF p < m.priority[x] /\ p < s.prio[m.owner[x]]
                THEN UpdatePriority(s, mm, pend', m.owner[x], p) ELSE [k |-> s, m |-> mm]
           a == [c.k EXCEPT !.armed = @ \union {t}]
<1>1. /\ k.cur = t /\ pc[t] = "run" /\ t # Idle /\ m.owner[x] \notin {None, t}
      /\ pend' = [pend EXCEPT ![t] = x] /\ arg' = [arg EXCEPT ![t] = x]
      /\ pc' = [pc EXCEPT ![t] = "taking"] /\ taken' = taken
      /\ m' = c.m /\ k' = IF timed THEN a ELSE c.k
  BY DEF TakeWait, At, Goto
<1>2. /\ KernelFits(k, Deleted) /\ k.stat[t] = "running" /\ t \in Live /\ ~Gone(t)
      /\ t \notin Deleted /\ \A y \in Mutexes : ~On(k, y, t)
  BY <1>1, RunnerFacts
<1>3. /\ m \in MutexState /\ pc \in [Thread -> Label] /\ Taken /\ WaitList = Mutexes
      /\ k \in KernelState /\ pend \in [Thread -> Mutexes \union {None}]
      /\ arg \in [Thread -> Mutexes \union Thread \union {None}] /\ p \in Prio
      /\ None \notin Mutexes
  BY MutexTypes DEF MutexInv
<1>4. /\ arg' \in [Thread -> Mutexes \union Thread \union {None}] /\ arg'[t] = x
      /\ pend' \in [Thread -> Mutexes \union {None}] /\ pend'[t] = x
      /\ \A u \in Thread : u # t => arg'[u] = arg[u] /\ pend'[u] = pend[u]
  BY <1>1, <1>3
<1>5. /\ Deleted' = Deleted /\ ArgPart' /\ pc' \in [Thread -> Label] /\ pc'[t] = "taking"
      /\ \A u \in Thread : u # t => pc'[u] = pc[u]
  BY <1>1, <1>4, OneMoves DEF Label
<1>6. m.owner[x] \in Live
  <2>1. m.owner[x] \in Thread /\ OwnerOK(x)
    BY <1>1, <1>3 DEF MutexState, MutexInv, OwnerPart
  <2> QED BY <2>1 DEF OwnerOK, Live
<1>7. KernelFits(s, Deleted) /\ Waits(s, k, x, t, "EOK", FALSE)
  BY <1>1, <1>2, <1>3, WaitFits
<1>8. /\ mm \in MutexState /\ mm.owner = m.owner /\ mm.hold = m.hold
      /\ \A y \in Mutexes : m.owner[y] = None => mm.priority[y] = m.priority[y]
  BY <1>1, <1>3 DEF MutexState
<1> HIDE DEF s, mm, p
<1>9. /\ s.cur = t /\ s.stat[t] = "suspend" /\ s.err[t] = "EOK"
      /\ \A u \in Thread : u # t => s.stat[u] = k.stat[u] /\ s.err[u] = k.err[u]
      /\ \A y \in Mutexes, u \in Thread : On(s, y, u) <=> On(k, y, u) \/ (y = x /\ u = t)
  BY <1>1, <1>3, <1>7 DEF Waits, KernelState
<1>10. ChainFits(s, mm, pend', Live)
  <2>1. Linked(s) /\ \A u \in Thread : s.stat[u] = "ready" => InReadyList(s, u) \/ u \in Deleted
    BY <1>7, IpcLinked DEF KernelFits
  <2> QED BY <1>1, <1>6, <1>8, <1>9, <2>1, WaitingChain
<1>11. Spreads(c.k, c.m, s, mm)
  <2>1. CASE p < m.priority[x] /\ p < s.prio[m.owner[x]]
    BY <1>3, <1>6, <1>10, <2>1, UpdateSpreads
  <2>2. CASE ~(p < m.priority[x] /\ p < s.prio[m.owner[x]])
    <3>1. c.k = s /\ c.m = mm /\ Linked(s)
      BY <1>10, <2>2 DEF ChainFits
    <3> HIDE DEF c
    <3> QED BY <1>8, <3>1, SpreadsSelf
  <2> QED BY <2>1, <2>2
<1> HIDE DEF c
<1>12. /\ Shuffled(c.k, s) /\ m' \in MutexState /\ m'.owner = m.owner /\ m'.hold = m.hold
       /\ \A y \in Mutexes : m.owner[y] = None => m'.priority[y] = m.priority[y]
  BY <1>1, <1>8, <1>11 DEF Spreads
<1>13. KernelFits(c.k, Deleted) /\ Unmoved(c.k, s) /\ c.k.cur = t /\ c.k.stat[t] = "suspend"
  BY <1>7, <1>9, <1>12, ShuffledFits, ShuffledUnmoved DEF Shuffled
<1>14. KernelFits(a, Deleted) /\ Unmoved(a, c.k) /\ a.cur = t
  BY <1>2, <1>13, ArmedFits
<1> HIDE DEF a
<1>15. KernelFits(k', Deleted) /\ Unmoved(k', s) /\ k'.cur = t
  BY <1>1, <1>13, <1>14, UnmovedOn
<1>16. /\ k'.err[t] = "EOK"
       /\ \A u \in Thread : u # t => /\ k'.stat[u] = "suspend" <=> k.stat[u] = "suspend"
                                     /\ k'.stat[u] = "close" <=> k.stat[u] = "close"
                                     /\ k'.err[u] = k.err[u]
       /\ k'.stat[t] # "close"
       /\ \A y \in Mutexes, u \in Thread : On(k', y, u) <=> On(k, y, u) \/ (y = x /\ u = t)
  BY <1>3, <1>9, <1>15 DEF Unmoved
<1>17. OwnerPart'
  <2>1. \A u \in Thread : Gone(u)' => Gone(u)
    BY <1>5, <1>16 DEF Gone
  <2>2. SameOwners
    BY <1>1, <1>12, <2>1 DEF SameOwners
  <2> QED BY <2>2, OwnersKept
<1>18. ASSUME NEW u \in Thread, u # t PROVE SameThread(u)
  <2>1. \A y \in Mutexes : On(k, y, u) => m.owner[y] # None
    BY DEF MutexInv, WaitPart, WaitOK
  <2> QED BY <1>4, <1>5, <1>12, <1>16, <1>18, <2>1 DEF SameThread, InCall
<1>19. WaitOK(t)' /\ CallOK(t)'
  BY <1>1, <1>2, <1>4, <1>5, <1>12, <1>16 DEF WaitOK, CallOK, InCall
<1> QED
  BY <1>1, <1>3, <1>4, <1>5, <1>12, <1>15, <1>17, <1>18, <1>19, MutexAssembled DEF Taken

LEMMA DetachKeeps ==
  ASSUME MutexInv, NEW t \in Thread, NEW u \in Thread, Detach(t, u)
  PROVE  MutexInv'
<1>1. /\ k.cur = t /\ pc[t] = "run" /\ u \in Victim \ {t} /\ taken[u] = {}
      /\ k.stat[u] # "close" /\ u \notin k.armed /\ Unattended(u)
      /\ k' = rt_schedule_remove_thread(k, u)
      /\ arg' = [arg EXCEPT ![t] = u] /\ pc' = [pc EXCEPT ![t] = "detach"]
      /\ m' = m /\ taken' = taken /\ pend' = pend
  BY DEF Detach, At, Goto
<1>2. /\ KernelFits(k, Deleted) /\ k.stat[t] = "running" /\ ~Gone(t)
      /\ t \notin Deleted /\ \A y \in Mutexes : ~On(k, y, t)
  BY <1>1, RunnerFacts
<1>3. /\ m \in MutexState /\ pc \in [Thread -> Label] /\ Taken /\ WaitList = Mutexes
      /\ pend \in [Thread -> Mutexes \union {None}] /\ ArgPart /\ pend[t] = None
      /\ arg \in [Thread -> Mutexes \union Thread \union {None}]
  BY <1>1, MutexTypes, NothingPends DEF MutexInv
<1>4. /\ arg' \in [Thread -> Mutexes \union Thread \union {None}] /\ arg'[t] = u
      /\ \A v \in Thread : v # t => arg'[v] = arg[v] /\ pc'[v] = pc[v]
      /\ pc' \in [Thread -> Label] /\ pc'[t] = "detach"
  BY <1>1, <1>3 DEF Label
<1>5. u \in Thread \ {Idle} /\ u # k.cur
  BY <1>1, MutexAssumption
<1>6. /\ KernelFits(k', Deleted \union {u}) /\ SameFields(k', k)
      /\ \A y \in Mutexes, v \in Thread : On(k', y, v) <=> On(k, y, v) /\ v # u
  BY <1>1, <1>2, <1>3, <1>5, RemovedFits
<1>7. Deleted' = Deleted \union {u}
  BY <1>1, <1>4 DEF Deleted
<1>8. ArgPart'
  <2>1. \A v \in Thread : InCall(v)' => arg'[v] \in Mutexes
    BY <1>3, <1>4 DEF ArgPart, InCall
  <2>2. \A v \in Thread : pc'[v] = "detach" => arg'[v] \in Thread
    BY <1>3, <1>4 DEF ArgPart
  <2>3. \A v, w \in Thread : pc'[v] = "detach" /\ pc'[w] = "detach" /\ arg'[v] = arg'[w] => v = w
    BY <1>1, <1>3, <1>4 DEF ArgPart, Unattended
  <2> QED BY <2>1, <2>2, <2>3 DEF ArgPart
<1>9. k'.stat = k.stat /\ k'.err = k.err /\ k'.cur = t
  BY <1>1, <1>6 DEF SameFields
<1>10. OwnerPart'
  <2>1. SameOwners
    BY <1>1, <1>7, <1>9 DEF SameOwners, Gone
  <2> QED BY <2>1, OwnersKept
<1>11. ASSUME NEW v \in Thread, v # t, v # u PROVE SameThread(v)
  <2>1. \A y \in Mutexes : On(k, y, v) => m.owner[y] # None
    BY DEF MutexInv, WaitPart, WaitOK
  <2> QED BY <1>1, <1>4, <1>6, <1>7, <1>9, <1>11, <2>1 DEF SameThread, InCall
<1>12. WaitOK(t)' /\ CallOK(t)'
  BY <1>1, <1>2, <1>3, <1>4, <1>6 DEF WaitOK, CallOK, InCall
<1>13. WaitOK(u)' /\ CallOK(u)'
  <2>1. CallOK(u) /\ pc'[u] = pc[u]
    BY <1>1, <1>4 DEF MutexInv, CallPart
  <2>2. u \in Deleted'
    BY <1>7
  <2> QED BY <1>1, <1>6, <2>1, <2>2 DEF WaitOK, CallOK, InCall, Gone
<1> QED
  BY <1>1, <1>2, <1>3, <1>4, <1>6, <1>7, <1>8, <1>9, <1>10, <1>11, <1>12, <1>13,
     MutexAssembled DEF Taken

\* The threads a chain can reach, when a deleted one has been closed.
LEMMA ClosedChain ==
  ASSUME MutexInv, NEW u \in Deleted, NEW s, ClosedBy(s, k, u)
  PROVE  ChainFits(s, m, pend, Live)
<1>1. ChainFits(k, m, pend, Live) /\ m \in MutexState /\ k.stat \in [Thread -> Stat]
      /\ WaitList = Mutexes /\ u \in Thread
  BY LiveChain, MutexTypes DEF MutexInv, Deleted
<1>2. \A v \in Live : v \in Thread /\ v # u
  BY DEF Live, Gone
<1>3. \A v \in Live : s.stat[v] = k.stat[v]
  BY <1>1, <1>2 DEF ClosedBy
<1>4. Linked(s) /\ \A y \in Mutexes, v \in Thread : On(s, y, v) <=> On(k, y, v)
  BY <1>1 DEF ClosedBy
<1>5. \A v \in Live : s.stat[v] = "ready" => InReadyList(s, v)
  BY <1>1, <1>3 DEF ChainFits, ClosedBy
<1>6. \A v \in Live : s.stat[v] = "suspend" /\ pend[v] # None =>
                        pend[v] \in Mutexes /\ On(s, pend[v], v)
  BY <1>1, <1>2, <1>3, <1>4 DEF ChainFits
<1>7. \A y \in Mutexes, v \in Thread : On(s, y, v) => m.owner[y] \in Live
  BY <1>1, <1>4 DEF ChainFits
<1>8. Live \subseteq Thread
  BY <1>2
<1> QED
  BY <1>1, <1>4, <1>5, <1>6, <1>7, <1>8 DEF ChainFits

LEMMA DetachCloseKeeps ==
  ASSUME MutexInv, NEW t \in Thread, DetachClose(t)
  PROVE  MutexInv'
<1>0. PICK u \in Thread : pc[t] = "detach" /\ u = arg[t]
  BY DEF DetachClose, At, MutexInv, ArgPart
<1> DEFINE closed == [k EXCEPT !.armed = @ \ {u}, !.stat[u] = "close", !.yield = @ \ {u}]
           s == rt_list_remove(closed, u)
           c == IF pend[u] = None THEN [k |-> closed, m |-> m] ELSE DropWaiter(s, pend[u], u)
<1>1. /\ k.cur = t /\ pc[t] = "detach"
      /\ k' = rt_thread_defunct_enqueue(c.k, u) /\ m' = c.m
      /\ pend' = [pend EXCEPT ![u] = None] /\ arg' = [arg EXCEPT ![t] = None]
      /\ pc' = [pc EXCEPT ![t] = "resched"] /\ taken' = taken
  BY <1>0 DEF DetachClose, At, Goto
<1>2. /\ KernelFits(k, Deleted) /\ k.stat[t] = "running" /\ ~Gone(t)
      /\ t \notin Deleted /\ \A y \in Mutexes : ~On(k, y, t)
  BY <1>1, RunnerFacts
<1>3. /\ m \in MutexState /\ pc \in [Thread -> Label] /\ Taken /\ WaitList = Mutexes
      /\ pend \in [Thread -> Mutexes \union {None}] /\ ArgPart /\ pend[t] = None
      /\ arg \in [Thread -> Mutexes \union Thread \union {None}] /\ k \in KernelState
  BY <1>1, MutexTypes, NothingPends DEF MutexInv
<1>4. u \in Deleted /\ u # t
  BY <1>0, <1>2 DEF Deleted
<1>5. ClosedBy(closed, k, u) /\ ClosedBy(s, k, u)
  BY <1>2, <1>4, CloseFits
<1> HIDE DEF closed, s
<1>6. /\ arg' \in [Thread -> Mutexes \union Thread \union {None}] /\ arg'[t] = None
      /\ pend' \in [Thread -> Mutexes \union {None}] /\ pend'[u] = None
      /\ \A v \in Thread : v # t => arg'[v] = arg[v] /\ pc'[v] = pc[v]
      /\ \A v \in Thread : v # u => pend'[v] = pend[v]
      /\ pc' \in [Thread -> Label] /\ pc'[t] = "resched"
  BY <1>1, <1>3, <1>4 DEF Label
<1>7. Deleted' = Deleted \ {u}
  BY <1>0, <1>3, <1>4, <1>6 DEF Deleted, ArgPart
<1>8. ArgPart'
  <2>1. \A v \in Thread : InCall(v)' => arg'[v] \in Mutexes
    BY <1>3, <1>6 DEF ArgPart, InCall
  <2>2. \A v \in Thread : pc'[v] = "detach" => arg'[v] \in Thread
    BY <1>3, <1>6 DEF ArgPart
  <2>3. \A v, w \in Thread : pc'[v] = "detach" /\ pc'[w] = "detach" /\ arg'[v] = arg'[w] => v = w
    BY <1>1, <1>3, <1>6 DEF ArgPart
  <2> QED BY <2>1, <2>2, <2>3 DEF ArgPart
<1>9. /\ ClosedBy(c.k, k, u) /\ m' \in MutexState /\ m'.owner = m.owner /\ m'.hold = m.hold
      /\ \A y \in Mutexes : m.owner[y] = None => m'.priority[y] = m.priority[y]
  <2>1. CASE pend[u] = None
    <3>1. c.k = closed /\ c.m = m
      BY <2>1
    <3> QED BY <1>1, <1>3, <1>5, <3>1
  <2>2. CASE pend[u] # None
    <3> DEFINE x == pend[u]
    <3>1. x \in Mutexes
      BY <1>3, <1>4, <2>2
    <3>2. c = DropWaiter(s, x, u)
      BY <2>2
    <3> HIDE DEF x, c
    <3>3. Linked(s) /\ ListFacts(s) /\ \A y \in Mutexes, v \in Thread : On(s, y, v) <=> On(k, y, v)
      BY <1>3, <1>5 DEF ClosedBy, Linked
    <3>4. m.owner[x] \in Live \union {None}
      <4>1. m.owner[x] \in Thread \union {None} /\ OwnerOK(x)
        BY <1>3, <3>1 DEF MutexState, MutexInv, OwnerPart
      <4> QED BY <4>1 DEF OwnerOK, Live
    <3>5. m.owner[x] = None => s.wait[x] = <<>> /\ m.priority[x] = NoPrio
      BY <3>1, <3>3, FreeHasNoWaiters
    <3>6. ChainFits(s, m, pend, Live)
      BY <1>4, <1>5, ClosedChain
    <3>7. Spreads(c.k, c.m, s, m)
      BY <1>3, <3>1, <3>2, <3>4, <3>5, <3>6, DropSpreads
    <3>8. Shuffled(c.k, s)
      BY <3>7 DEF Spreads
    <3>9. ClosedBy(c.k, k, u)
      BY <1>5, <3>8, ShuffledClosed
    <3> QED BY <1>1, <3>7, <3>9 DEF Spreads
  <2> QED BY <2>1, <2>2
<1> HIDE DEF c
<1>10. /\ KernelFits(k', Deleted \ {u})
       /\ k'.stat = [k.stat EXCEPT ![u] = "close"] /\ k'.err = k.err /\ k'.cur = k.cur
       /\ \A y \in Mutexes, v \in Thread : On(k', y, v) <=> On(k, y, v)
  <2> DEFINE n == rt_thread_defunct_enqueue(c.k, u)
  <2>1. /\ KernelFits(n, Deleted \ {u})
        /\ n.stat = [k.stat EXCEPT ![u] = "close"] /\ n.err = k.err /\ n.cur = k.cur
        /\ \A w \in WaitList : \A v \in Thread : On(n, w, v) <=> On(k, w, v)
    BY <1>2, <1>4, <1>9, EnqueuedFits
  <2> HIDE DEF n
  <2>2. k' = n
    BY <1>1 DEF n
  <2> QED BY <1>3, <2>1, <2>2
<1>11. /\ k'.stat[u] = "close" /\ \A v \in Thread : v # u => k'.stat[v] = k.stat[v]
       /\ \A y \in Mutexes : ~On(k', y, u) /\ ~On(k', y, t)
  <2>1. \A y \in Mutexes : ~On(k, y, u)
    BY <1>2, <1>3, <1>4 DEF KernelFits, WaitsSomewhere, On
  <2> QED BY <1>2, <1>3, <1>4, <1>10, <2>1 DEF KernelState
<1>12. OwnerPart'
  <2>1. \A v \in Thread : Gone(v)' => Gone(v)
    BY <1>4, <1>7, <1>11 DEF Gone
  <2>2. SameOwners
    BY <1>1, <1>9, <2>1 DEF SameOwners
  <2> QED BY <2>2, OwnersKept
<1>13. ASSUME NEW v \in Thread, v # t, v # u PROVE SameThread(v)
  <2>1. \A y \in Mutexes : On(k, y, v) => m.owner[y] # None
    BY DEF MutexInv, WaitPart, WaitOK
  <2> QED BY <1>6, <1>7, <1>9, <1>10, <1>11, <1>13, <2>1 DEF SameThread, InCall
<1>14. WaitOK(t)' /\ CallOK(t)'
  BY <1>3, <1>4, <1>6, <1>11 DEF WaitOK, CallOK, InCall
<1>15. WaitOK(u)' /\ CallOK(u)'
  BY <1>6, <1>11 DEF WaitOK, CallOK, Gone
<1> QED
  BY <1>1, <1>3, <1>6, <1>7, <1>8, <1>9, <1>10, <1>12, <1>13, <1>14, <1>15,
     MutexAssembled DEF Taken

\* What a release does to the kernel before it looks for a waiter.
LEMMA ReleaseLowers ==
  ASSUME MutexInv, NEW t \in Thread, NEW x \in Mutexes, k.cur = t, pc[t] = "run",
         NEW left, left = [taken EXCEPT ![t] = @ \ {x}],
         NEW s, s = k \/ s = ChangePriority(k, t, MutexPrio(m, left, t))
  PROVE  /\ KernelFits(s, Deleted) /\ ListFacts(s) /\ Unmoved(s, k) /\ s.cur = t
         /\ s.stat = k.stat
<1>1. /\ KernelFits(k, Deleted) /\ k.stat[t] = "running" /\ Linked(k) /\ ListFacts(k)
  BY RunnerFacts, IpcLinked DEF KernelFits, Linked
<1>2. MutexPrio(m, left, t) \in Prio
  <2>1. m \in MutexState /\ left \in [Thread -> SUBSET Mutexes]
    BY MutexTypes DEF MutexInv, Taken
  <2> QED BY <2>1, MutexPrioType
<1>3. Shuffled(s, k)
  <2>1. CASE s = k
    BY <1>1, <2>1, ShuffledSelf
  <2>2. CASE s = ChangePriority(k, t, MutexPrio(m, left, t))
    BY <1>1, <1>2, <2>2, ChangeShuffles
  <2> QED BY <2>1, <2>2
<1> QED
  BY <1>1, <1>3, ShuffledFits, ShuffledUnmoved DEF Shuffled

\* Mutex x gets the owner h, or none, and no other mutex changes hands.
NewOwner(x, h) ==
  /\ \A u \in Thread : Gone(u)' <=> Gone(u)
  /\ \A y \in Mutexes : y # x => /\ m'.owner[y] = m.owner[y] /\ m'.hold[y] = m.hold[y]
                                 /\ m'.priority[y] = m.priority[y]
  /\ m'.owner[x] = h
  /\ h = None <=> m'.hold[x] = 0
  /\ h = None => m'.priority[x] = NoPrio
  /\ \A y \in Mutexes, u \in Thread :
       y \in taken'[u] <=> IF y = x THEN u = h ELSE y \in taken[u]
  /\ h # None => h # Idle /\ ~Gone(h)

LEMMA OwnerChanges ==
  ASSUME OwnerPart, NEW x \in Mutexes, NEW h, NewOwner(x, h)
  PROVE  OwnerPart'
<1>1. SUFFICES ASSUME NEW y \in Mutexes PROVE OwnerOK(y)'
  BY DEF OwnerPart
<1>2. OwnerOK(y)
  BY DEF OwnerPart
<1>3. None \notin Thread
  BY MutexAssumption
<1>4. CASE y = x
  BY <1>3, <1>4 DEF OwnerOK, NewOwner
<1>5. CASE y # x
  BY <1>2, <1>5 DEF OwnerOK, NewOwner
<1> QED
  BY <1>4, <1>5

\* The mutex is free.
LEMMA ReleaseFreeKeeps ==
  ASSUME MutexInv, NEW t \in Thread, NEW x \in Mutexes, NEW l \in {"run", "resched"},
         k.cur = t, pc[t] = "run", m.owner[x] = t,
         KernelFits(k', Deleted), Unmoved(k', k), k'.cur = t, k'.stat = k.stat,
         k'.wait[x] = <<>>,
         m' = [m EXCEPT !.owner[x] = None, !.hold[x] = 0, !.priority[x] = NoPrio],
         taken' = [taken EXCEPT ![t] = @ \ {x}], pc' = [pc EXCEPT ![t] = l],
         pend' = pend, arg' = arg
  PROVE  MutexInv'
<1>1. /\ k.stat[t] = "running" /\ ~Gone(t) /\ \A y \in Mutexes : ~On(k, y, t)
  BY RunnerFacts
<1>2. /\ m \in MutexState /\ pc \in [Thread -> Label] /\ Taken /\ WaitList = Mutexes
      /\ k \in KernelState /\ None \notin Thread /\ OwnerPart
      /\ pend \in [Thread -> Mutexes \union {None}] /\ pend[t] = None
      /\ arg \in [Thread -> Mutexes \union Thread \union {None}]
  BY MutexTypes, NothingPends DEF MutexInv
<1>3. /\ Deleted' = Deleted /\ ArgPart' /\ pc' \in [Thread -> Label] /\ pc'[t] = l
      /\ \A u \in Thread : u # t => pc'[u] = pc[u]
  BY OneMoves DEF Label
<1>4. /\ m' \in MutexState
      /\ \A y \in Mutexes : /\ m'.owner[y] = IF y = x THEN None ELSE m.owner[y]
                            /\ m'.hold[y] = IF y = x THEN 0 ELSE m.hold[y]
                            /\ m'.priority[y] = IF y = x THEN NoPrio ELSE m.priority[y]
  <2>1. 0 \in 0..MaxHold
    BY MutexAssumption
  <2> QED BY <1>2, <2>1 DEF MutexState
<1>5. Taken' /\ \A y \in Mutexes, u \in Thread :
        y \in taken'[u] <=> y \in taken[u] /\ ~(y = x /\ u = t)
  BY <1>2 DEF Taken
<1>6. \A u \in Thread : ~On(k, x, u)
  <2>1. \A u : ~Contains(<<>>, u)
    BY DEF Contains
  <2>2. \A u \in Thread : ~On(k', x, u)
    BY <2>1 DEF On
  <2> QED BY <1>2, <2>2 DEF Unmoved
<1>7. OwnerPart'
  <2>1. \A u \in Thread : Gone(u)' <=> Gone(u)
    BY <1>3 DEF Gone
  <2>2. \A u \in Thread : x \in taken[u] <=> u = t
    BY <1>2 DEF OwnerPart, OwnerOK
  <2>3. \A y \in Mutexes, u \in Thread :
          y \in taken'[u] <=> IF y = x THEN u = None ELSE y \in taken[u]
    BY <1>2, <1>5, <2>2
  <2>4. NewOwner(x, None)
    BY <1>4, <2>1, <2>3 DEF NewOwner
  <2> QED BY <1>2, <2>4, OwnerChanges
<1>8. ASSUME NEW u \in Thread, u # t PROVE SameThread(u)
  <2>1. \A y \in Mutexes : On(k, y, u) => m.owner[y] # None
    BY DEF MutexInv, WaitPart, WaitOK
  <2>2. \A y \in Mutexes : m'.owner[y] = u <=> m.owner[y] = u
    BY <1>2, <1>4, <1>8
  <2>3. \A y \in Mutexes : On(k, y, u) => m'.owner[y] # None
    BY <1>4, <1>6, <2>1
  <2> QED BY <1>2, <1>3, <1>8, <2>2, <2>3 DEF SameThread, InCall, Unmoved
<1>9. WaitOK(t)' /\ CallOK(t)'
  BY <1>1, <1>2, <1>3 DEF WaitOK, CallOK, InCall, Unmoved
<1> QED
  BY <1>1, <1>2, <1>3, <1>4, <1>5, <1>7, <1>8, <1>9, MutexAssembled

\* The mutex passes to the waiter h.
LEMMA ReleaseHandsOver ==
  ASSUME MutexInv, NEW t \in Thread, NEW x \in Mutexes, NEW h \in Thread,
         k.cur = t, pc[t] = "run", m.owner[x] = t, On(k, x, h),
         KernelFits(k', Deleted), NEW s, Unmoved(s, k), Unblocked(k', s, h),
         k'.err = s.err, k'.cur = t, NEW q \in Prio \union {NoPrio},
         m' = [m EXCEPT !.owner[x] = h, !.hold[x] = 1, !.priority[x] = q],
         taken' = Listed([taken EXCEPT ![t] = @ \ {x}], h, x),
         pc' = [pc EXCEPT ![t] = "resched"], pend' = [pend EXCEPT ![h] = None], arg' = arg
  PROVE  MutexInv'
<1>1. /\ k.stat[t] = "running" /\ ~Gone(t) /\ \A y \in Mutexes : ~On(k, y, t)
  BY RunnerFacts
<1>2. /\ m \in MutexState /\ pc \in [Thread -> Label] /\ Taken /\ WaitList = Mutexes
      /\ None \notin Thread /\ OwnerPart
      /\ pend \in [Thread -> Mutexes \union {None}] /\ pend[t] = None
      /\ arg \in [Thread -> Mutexes \union Thread \union {None}]
  BY MutexTypes, NothingPends DEF MutexInv
<1>3. /\ Deleted' = Deleted /\ ArgPart' /\ pc' \in [Thread -> Label] /\ pc'[t] = "resched"
      /\ \A u \in Thread : u # t => pc'[u] = pc[u]
  <2>1. ArgPart /\ \A u \in Thread : u # t => arg'[u] = arg[u]
    BY DEF MutexInv
  <2> QED BY <2>1, OneMoves DEF Label
<1>4. /\ InCall(h) /\ arg[h] = x /\ k.err[h] = "EOK" /\ h # Idle /\ h # t
      /\ \A y \in Mutexes : On(k, y, h) => y = x
  BY <1>1 DEF MutexInv, WaitPart, WaitOK
<1>5. h \notin Deleted /\ k.stat[h] # "close"
  <2>1. KernelFits(k, Deleted)
    BY DEF MutexInv, KernelPart
  <2> QED BY <1>2, <2>1 DEF KernelFits, IpcInv, WaitFacts, WaitsSomewhere, On
<1>6. /\ m' \in MutexState
      /\ \A y \in Mutexes : /\ m'.owner[y] = IF y = x THEN h ELSE m.owner[y]
                            /\ m'.hold[y] = IF y = x THEN 1 ELSE m.hold[y]
                            /\ y # x => m'.priority[y] = m.priority[y]
  <2>1. 1 \in 0..MaxHold
    BY MutexAssumption
  <2> QED BY <1>2, <2>1 DEF MutexState
<1>7. Taken' /\ \A y \in Mutexes, u \in Thread :
        y \in taken'[u] <=> (y \in taken[u] /\ ~(y = x /\ u = t)) \/ (y = x /\ u = h)
  BY <1>2 DEF Taken, Listed
<1>8. /\ pend' \in [Thread -> Mutexes \union {None}] /\ pend'[h] = None
      /\ \A u \in Thread : u # h => pend'[u] = pend[u]
  BY <1>2
<1>9. /\ \A y \in Mutexes, u \in Thread : On(k', y, u) <=> On(k, y, u) /\ u # h
      /\ k'.err = k.err /\ k'.stat[h] # "suspend"
      /\ \A u \in Thread : k'.stat[u] = "close" <=> k.stat[u] = "close"
      /\ \A u \in Thread : u # h => (k'.stat[u] = "suspend" <=> k.stat[u] = "suspend")
  BY <1>2 DEF Unmoved, Unblocked
<1>10. OwnerPart'
  <2>1. \A u \in Thread : Gone(u)' <=> Gone(u)
    BY <1>3, <1>9 DEF Gone
  <2>2. \A u \in Thread : x \in taken[u] <=> u = t
    BY <1>2 DEF OwnerPart, OwnerOK
  <2>3. \A y \in Mutexes, u \in Thread :
          y \in taken'[u] <=> IF y = x THEN u = h ELSE y \in taken[u]
    <3> SUFFICES ASSUME NEW y \in Mutexes, NEW u \in Thread
                 PROVE  y \in taken'[u] <=> IF y = x THEN u = h ELSE y \in taken[u]
      OBVIOUS
    <3>1. y \in taken'[u] <=> (y \in taken[u] /\ ~(y = x /\ u = t)) \/ (y = x /\ u = h)
      BY <1>7
    <3>2. CASE y = x
      BY <2>2, <3>1, <3>2, Zenon
    <3>3. CASE y # x
      BY <3>1, <3>3, Zenon
    <3> QED BY <3>2, <3>3
  <2>4. ~Gone(h) /\ h # None
    BY <1>2, <1>5 DEF Gone
  <2>5. m'.owner[x] = h /\ m'.hold[x] # 0
    BY <1>6
  <2>6. \A y \in Mutexes : y # x => /\ m'.owner[y] = m.owner[y] /\ m'.hold[y] = m.hold[y]
                                    /\ m'.priority[y] = m.priority[y]
    BY <1>6
  <2>7. h # Idle
    BY <1>4
  <2>8. NewOwner(x, h)
    BY <2>1, <2>3, <2>4, <2>5, <2>6, <2>7, Zenon DEF NewOwner
  <2> QED BY <1>2, <2>8, OwnerChanges
<1>11. ASSUME NEW u \in Thread, u # t, u # h PROVE SameThread(u)
  <2>1. \A y \in Mutexes : On(k, y, u) => m.owner[y] # None
    BY DEF MutexInv, WaitPart, WaitOK
  <2>2. \A y \in Mutexes : m'.owner[y] = u <=> m.owner[y] = u
    BY <1>6, <1>11
  <2>3. \A y \in Mutexes : On(k, y, u) => m'.owner[y] # None
    BY <1>2, <1>6, <2>1
  <2> QED BY <1>3, <1>8, <1>9, <1>11, <2>2, <2>3 DEF SameThread, InCall
<1>12. WaitOK(t)' /\ CallOK(t)'
  BY <1>1, <1>2, <1>3, <1>4, <1>8, <1>9 DEF WaitOK, CallOK, InCall
<1>13. WaitOK(h)' /\ CallOK(h)'
  BY <1>3, <1>4, <1>6, <1>8, <1>9 DEF WaitOK, CallOK, InCall
<1> QED
  BY <1>2, <1>3, <1>6, <1>7, <1>8, <1>10, <1>11, <1>12, <1>13, MutexAssembled

LEMMA ReleaseKeeps ==
  ASSUME MutexInv, NEW t \in Thread, NEW x \in Mutexes, Release(t, x)
  PROVE  MutexInv'
<1> DEFINE left == [taken EXCEPT ![t] = @ \ {x}]
           lower == m.ceiling[x] # NoPrio \/ k.prio[t] = m.priority[x]
           s == IF lower THEN ChangePriority(k, t, MutexPrio(m, left, t)) ELSE k
           next == Head(s.wait[x])
           handed == rt_thread_resume(s, next)
           q == FirstPrio(handed, x)
<1>1. /\ k.cur = t /\ pc[t] = "run" /\ m.owner[x] = t /\ arg' = arg
      /\ s.wait[x] # <<>> => /\ k' = handed
                             /\ m' = [m EXCEPT !.owner[x] = next, !.hold[x] = 1, !.priority[x] = q]
                             /\ taken' = Listed(left, next, x)
                             /\ pend' = [pend EXCEPT ![next] = None]
                             /\ pc' = [pc EXCEPT ![t] = "resched"]
      /\ s.wait[x] = <<>> =>
           /\ k' = s
           /\ m' = [m EXCEPT !.owner[x] = None, !.hold[x] = 0, !.priority[x] = NoPrio]
           /\ taken' = left /\ pend' = pend
           /\ IF lower THEN pc' = [pc EXCEPT ![t] = "resched"] ELSE pc' = pc
  BY DEF Release, At, Goto
<1>2. s = k \/ s = ChangePriority(k, t, MutexPrio(m, left, t))
  OBVIOUS
<1> HIDE DEF s, lower
<1>3. /\ KernelFits(s, Deleted) /\ ListFacts(s) /\ Unmoved(s, k) /\ s.cur = t
      /\ s.stat = k.stat
  BY <1>1, <1>2, ReleaseLowers
<1>4. x \in WaitList /\ pc \in [Thread -> Label]
  BY MutexAssumption, MutexTypes DEF MutexInv
<1>5. CASE s.wait[x] = <<>>
  <2>1. pc = [pc EXCEPT ![t] = "run"]
    BY <1>1, <1>4
  <2>2. PICK l \in {"run", "resched"} : pc' = [pc EXCEPT ![t] = l]
    BY <1>1, <1>5, <2>1
  <2> QED BY <1>1, <1>3, <1>5, <2>2, ReleaseFreeKeeps, ZenonT(60)
<1>6. CASE s.wait[x] # <<>>
  <2>1. next \in Thread /\ On(s, x, next)
    <3>1. s.wait[x] \in Seq(Thread)
      BY <1>3, <1>4 DEF ListFacts, KernelState
    <3> QED BY <1>6, <3>1, HeadList DEF On
  <2>2. PICK h \in Thread : h = next
    BY <2>1
  <2>3. On(k, x, h) /\ On(s, x, h)
    BY <1>3, <1>4, <2>1, <2>2 DEF Unmoved
  <2>4. s.stat[h] = "suspend" /\ h \notin Deleted
    BY <1>3, <1>4, <2>3 DEF KernelFits, IpcInv, WaitFacts, WaitsSomewhere, On
  <2>5. /\ KernelFits(k', Deleted) /\ Unblocked(k', s, h) /\ k'.err = s.err /\ k'.cur = t
    <3>1. k' = rt_thread_resume(s, h)
      BY <1>1, <1>6, <2>2
    <3> QED BY <1>3, <2>4, <3>1, ResumeFits
  <2>6. PICK p \in Prio \union {NoPrio} : p = q
    <3>1. ListFacts(k') /\ k' = handed
      BY <1>1, <1>6, <2>5 DEF KernelFits, IpcInv, KernelInv
    <3> QED BY <1>4, <3>1, FirstPrioType
  <2>7. /\ m' = [m EXCEPT !.owner[x] = h, !.hold[x] = 1, !.priority[x] = p]
        /\ taken' = Listed(left, h, x)
        /\ pend' = [pend EXCEPT ![h] = None]
        /\ pc' = [pc EXCEPT ![t] = "resched"]
    BY <1>1, <1>6, <2>2, <2>6
  <2> HIDE DEF next, handed, q
  <2> QED BY <1>1, <1>3, <2>3, <2>5, <2>7, ReleaseHandsOver
<1> QED
  BY <1>5, <1>6

-----------------------------------------------------------------------------
(* From the start on. *)

LEMMA MutexStarts == Init => MutexInv
<1> SUFFICES ASSUME Init PROVE MutexInv
  OBVIOUS
<1>1. /\ k = StartedKernel /\ pc = [t \in Thread |-> "run"]
      /\ m = [ owner    |-> [x \in Mutexes |-> None],
               hold     |-> [x \in Mutexes |-> 0],
               priority |-> [x \in Mutexes |-> NoPrio],
               ceiling  |-> [x \in Mutexes |-> NoPrio] ]
      /\ taken = [t \in Thread |-> {}] /\ pend = [t \in Thread |-> None]
      /\ arg = [t \in Thread |-> None]
  BY DEF Init
<1>2. Main \in Thread /\ InitPrio \in [Thread -> Prio] /\ MaxHold \in Nat /\ None \notin Thread
  BY MainAssumption, InitPrioAssumption, MutexAssumption
<1>3. /\ IpcInv(k) /\ \A w \in WaitList, t \in Thread : ~On(k, w, t)
      /\ \A t \in Thread : InReadyList(k, t) <=> t # Main
  BY <1>1, <1>2, StartedInv DEF StartedKernel
<1>4. /\ k.lock = 0 /\ k.cur = Main
      /\ \A t \in Thread : k.stat[t] = IF t = Main THEN "running" ELSE "ready"
  BY <1>1 DEF StartedKernel, Started
<1>5. /\ \A x \in Mutexes : m.owner[x] = None /\ m.hold[x] = 0 /\ m.priority[x] = NoPrio
      /\ m \in MutexState
  <2>1. 0 \in 0..MaxHold
    BY <1>2
  <2> QED BY <1>1, <2>1 DEF MutexState
<1>6. \A t \in Thread : pc[t] = "run" /\ taken[t] = {} /\ pend[t] = None
  BY <1>1
<1>7. Deleted = {}
  BY <1>6 DEF Deleted
<1>8. TypeOK
  <2>1. k \in KernelState
    BY <1>3 DEF IpcInv, KernelInv, ListFacts
  <2>2. /\ pc \in [Thread -> Label] /\ taken \in [Thread -> SUBSET Mutexes]
        /\ pend \in [Thread -> Mutexes \union {None}]
        /\ arg \in [Thread -> Mutexes \union Thread \union {None}]
    BY <1>1 DEF Label
  <2> QED BY <1>5, <2>1, <2>2 DEF TypeOK, MutexState
<1>9. KernelPart
  BY <1>2, <1>3, <1>4, <1>7 DEF KernelPart, KernelFits
<1>10. ArgPart /\ CallPart
  BY <1>6 DEF ArgPart, CallPart, CallOK, InCall
<1>11. OwnerPart
  BY <1>2, <1>5, <1>6 DEF OwnerPart, OwnerOK
<1>12. WaitPart
  BY <1>3, MutexAssumption DEF WaitPart, WaitOK
<1> QED
  BY <1>8, <1>9, <1>10, <1>11, <1>12 DEF MutexInv

LEMMA MutexUnchanged ==
  ASSUME MutexInv, UNCHANGED vars
  PROVE  MutexInv'
<1>1. QuietMove
  <2>1. /\ k' = k /\ pc' = pc /\ m' = m /\ taken' = taken /\ pend' = pend /\ arg' = arg
    BY DEF vars
  <2>2. pc \in [Thread -> Label] /\ m \in MutexState /\ KernelPart
    BY MutexTypes DEF MutexInv
  <2> QED BY <2>1, <2>2 DEF QuietMove, KernelPart, InCall
<1> QED
  BY <1>1, QuietKeeps

LEMMA MutexStep ==
  ASSUME MutexInv, [Next]_vars
  PROVE  MutexInv'
<1>1. CASE UNCHANGED vars
  BY <1>1, MutexUnchanged
<1>2. CASE Tick
  BY <1>2, TickKeeps
<1>3. ASSUME NEW t \in Thread, NEW x \in Mutexes, Take(t, x)
      PROVE  MutexInv'
  BY <1>3, TakeAgainKeeps, TakeFreeKeeps, TakeWaitKeeps DEF Take
<1>4. ASSUME NEW t \in Thread, NEW x \in Mutexes,
             ReleaseInner(t, x) \/ Release(t, x) \/ \E p \in Ceiling : SetCeiling(t, x, p)
      PROVE  MutexInv'
  BY <1>4, ReleaseInnerKeeps, ReleaseKeeps, SetCeilingKeeps
<1>5. ASSUME NEW t \in Thread, Continue(t)
      PROVE  MutexInv'
  BY <1>5, TakeScheduleKeeps, TakeSucceedsKeeps, TakeFailsKeeps, ClearPendingKeeps,
     RescheduleKeeps, DetachCloseKeeps DEF Continue
<1>6. ASSUME NEW t \in Thread, Sleep(t) \/ Timeout(t)
      PROVE  MutexInv'
  BY <1>6, SleepKeeps, TimeoutKeeps
<1>7. ASSUME NEW t \in Thread, NEW u \in Thread, Detach(t, u)
      PROVE  MutexInv'
  BY <1>7, DetachKeeps
<1> QED
  BY <1>1, <1>2, <1>3, <1>4, <1>5, <1>6, <1>7 DEF Next

\* The links between mutexes, owners, waiters and the threads that delete others
\* are kept by every step: ipc.c and thread.c never leave a waiter behind that
\* does not know what it waits for, nor a mutex whose owner is gone.
THEOREM MutexInvHolds == Spec => []MutexInv
<1>1. Init => MutexInv
  BY MutexStarts
<1>2. MutexInv /\ [Next]_vars => MutexInv'
  BY MutexStep
<1> QED
  BY <1>1, <1>2, PTL DEF Spec

\* The kernel, the fields of each mutex, the taken lists and the pending objects
\* have their types, hold counts within RT_MUTEX_HOLD_MAX.
THEOREM MutexTypeCorrect == Spec => []TypeOK
<1>1. MutexInv => TypeOK
  BY DEF MutexInv
<1> QED
  BY <1>1, MutexInvHolds, PTL

LEMMA MutexHandsOver ==
  ASSUME MutexInv
  PROVE  HandOverSound /\ TakeGivesOwnership
<1>1. FreeMeansIdle
  <2> SUFFICES ASSUME NEW x \in Mutexes
               PROVE  /\ m.owner[x] = None <=> m.hold[x] = 0
                      /\ m.owner[x] = None => k.wait[x] = <<>> /\ m.priority[x] = NoPrio
                      /\ \A t \in Thread : x \in taken[t] <=> m.owner[x] = t
    BY DEF FreeMeansIdle
  <2>1. OwnerOK(x)
    BY DEF MutexInv, OwnerPart
  <2>2. ListFacts(k)
    BY DEF MutexInv, KernelPart, KernelFits, IpcInv, KernelInv
  <2>3. m.owner[x] = None => k.wait[x] = <<>> /\ m.priority[x] = NoPrio
    BY <2>2, FreeHasNoWaiters
  <2> QED BY <2>1, <2>3 DEF OwnerOK
<1>2. PendingAgrees
  <2> SUFFICES ASSUME NEW t \in Thread, NEW x \in Mutexes
               PROVE  /\ Waiting(t, x) => pend[t] = x
                      /\ pend[t] = x /\ k.stat[t] = "suspend" /\ pc[t] # "run" =>
                           Waiting(t, x) \/ \E u \in Thread : pc[u] = "detach" /\ arg[u] = t
    BY DEF PendingAgrees
  <2>1. Waiting(t, x) <=> On(k, x, t)
    BY DEF Waiting, On
  <2>2. WaitOK(t) /\ CallOK(t)
    BY DEF MutexInv, WaitPart, CallPart
  <2>3. x # None
    BY MutexAssumption
  <2> QED BY <2>1, <2>2, <2>3 DEF WaitOK, CallOK, Deleted
<1>3. TakeGivesOwnership
  <2> SUFFICES ASSUME NEW t \in Thread, pc[t] = "woken", k.cur = t, k.err[t] = "EOK"
               PROVE  m.owner[arg[t]] = t
    BY DEF TakeGivesOwnership
  <2>1. ~Gone(t) /\ \A x \in Mutexes : ~On(k, x, t)
    BY RunnerFacts
  <2>2. CallOK(t) /\ InCall(t) /\ arg[t] \in Mutexes
    BY DEF MutexInv, CallPart, ArgPart, InCall
  <2> QED BY <2>1, <2>2 DEF CallOK
<1> QED
  BY <1>1, <1>2, <1>3 DEF HandOverSound

\* Every release, timeout and deletion of rt_mutex_release, _thread_timeout and
\* rt_mutex_drop_thread leaves a mutex with its owner, or free and with no waiter,
\* and every waiter with the pending object it waits for.
THEOREM HandOverSoundHolds == Spec => []HandOverSound
<1>1. MutexInv => HandOverSound
  BY MutexHandsOver
<1> QED
  BY <1>1, MutexInvHolds, PTL

\* rt_mutex_take returns RT_EOK only to the owner: a timeout cannot slip between
\* the hand-over and the return, nor be overwritten by it.
THEOREM TakeGivesOwnershipHolds == Spec => []TakeGivesOwnership
<1>1. MutexInv => TakeGivesOwnership
  BY MutexHandsOver
<1> QED
  BY <1>1, MutexInvHolds, PTL

-----------------------------------------------------------------------------
(* Priority inheritance.  A change of priority leaves the lists in order,  *)
(* the priority of each mutex at that of its first waiter or above, and    *)
(* the owner at that of the mutex or above.                                *)

\* The mutex x is in order, as far as waiters other than t are concerned.
Inherits(s, mm, x, t) ==
  /\ \A u, v \in Thread \ {t} : Precedes(s.wait[x], u, v) => s.prio[u] <= s.prio[v]
  /\ \A u \in Thread \ {t} : On(s, x, u) => mm.priority[x] <= s.prio[u]
  /\ mm.owner[x] # None => s.prio[mm.owner[x]] <= mm.priority[x]

AllInherit(s, mm, t) == \A x \in Mutexes : Inherits(s, mm, x, t)

\* Every mutex is in order.
InheritPart == AllInherit(k, m, None)

\* What the loop follows: waiters have the mutex pending, owners have it on
\* their list of taken mutexes, and the idle thread owns none.
Followed(s, mm, pd) ==
  /\ \A x \in Mutexes, u \in Thread : On(s, x, u) => pd[u] = x /\ mm.owner[x] # u
  /\ \A x \in Mutexes, u \in Thread : x \in taken[u] <=> mm.owner[x] = u
  /\ \A x \in Mutexes : mm.owner[x] # Idle

\* A change of priority changes no list of waiters.
LEMMA ChangeSets ==
  ASSUME NEW s, Linked(s), NEW t \in Thread, NEW q \in Prio
  PROVE  LET r == ChangePriority(s, t, q)
         IN  r.wait = s.wait /\ r.prio = [s.prio EXCEPT ![t] = q]
<1>1. s \in KernelState /\ ListFacts(s)
  BY DEF Linked, ListFacts
<1>2. CASE s.stat[t] = "ready"
  <2> DEFINE a == rt_schedule_remove_thread(s, t)
             b == [a EXCEPT !.prio[t] = q]
  <2>1. ~WaitsSomewhere(s, t)
    BY <1>2 DEF Linked, WaitFacts, WaitsSomewhere, On
  <2>2. a.wait = s.wait
    BY <1>1, <2>1, RemoveKeepsWaits
  <2>3. a \in KernelState /\ a.prio = s.prio
    BY <1>1, ScheduleRemove DEF SameFields, ListFacts
  <2>4. ChangePriority(s, t, q) = rt_schedule_insert_thread(b, t)
    BY <1>2 DEF ChangePriority
  <2> HIDE DEF a
  <2>5. b \in KernelState /\ b.wait = s.wait /\ b.prio = [s.prio EXCEPT ![t] = q]
    BY <2>2, <2>3 DEF KernelState
  <2> HIDE DEF b
  <2>6. LET r == rt_schedule_insert_thread(b, t) IN r.wait = b.wait /\ r.prio = b.prio
    BY <2>5 DEF rt_schedule_insert_thread, KernelState
  <2> QED BY <2>4, <2>5, <2>6
<1>3. CASE s.stat[t] # "ready"
  BY <1>1, <1>3 DEF ChangePriority, KernelState
<1> QED
  BY <1>2, <1>3

\* A thread linked at the place its priority gives it leaves the list in order.
LEMMA InsertInOrder ==
  ASSUME NEW q \in Seq(Thread), NEW prio \in [Thread -> Prio], NEW t \in Thread,
         ~Contains(q, t),
         \A u, v \in Thread : Precedes(q, u, v) => prio[u] <= prio[v]
  PROVE  LET r == InsertAt(q, PrioPosition(q, t, prio), t)
         IN  \A u, v \in Thread : Precedes(r, u, v) => prio[u] <= prio[v]
<1> DEFINE lower == {i \in 1..Len(q) : prio[t] < prio[q[i]]}
           at == PrioPosition(q, t, prio)
           r == InsertAt(q, at, t)
<1>1. Len(q) \in Nat /\ lower \in SUBSET Nat /\ \A u \in Thread : prio[u] \in Nat
  <2>1. Len(q) \in Nat
    BY LenProperties
  <2>2. \A u \in Thread : prio[u] \in Nat
    BY PrioAssumption
  <2> QED BY <2>1, <2>2
<1>2. \A i \in 1..Len(q) : q[i] \in Thread
  BY ElementOfSeq
<1>3. at \in 1..(Len(q) + 1)
  BY PrioPlace
<1>4. lower # {} => Min(lower) \in lower /\ \A i \in lower : Min(lower) <= i
  <2> HIDE DEF lower
  <2> QED BY <1>1, MinProperties
<1>5. at = IF lower = {} THEN Len(q) + 1 ELSE Min(lower)
  BY DEF PrioPosition
<1> HIDE DEF at
<1>6. \A j \in 1..(at - 1) : prio[q[j]] <= prio[t]
  <2> SUFFICES ASSUME NEW j \in 1..(at - 1) PROVE prio[q[j]] <= prio[t]
    OBVIOUS
  <2>1. j \in 1..Len(q) /\ j < at
    BY <1>1, <1>3
  <2>2. j \notin lower
    BY <1>4, <1>5, <2>1
  <2> QED BY <1>1, <1>2, <2>1, <2>2
<1>7. \A j \in at..Len(q) : prio[t] <= prio[q[j]]
  <2> SUFFICES ASSUME NEW j \in at..Len(q) PROVE prio[t] <= prio[q[j]]
    OBVIOUS
  <2>1. at \in Nat /\ j \in 1..Len(q) /\ at <= j /\ at # Len(q) + 1
    BY <1>1, <1>3
  <2>2. at \in lower
    BY <1>4, <1>5, <2>1
  <2>3. at \in 1..Len(q) /\ prio[t] < prio[q[at]]
    BY <2>2
  <2>4. at = j \/ Precedes(q, q[at], q[j])
    BY <1>1, <2>1, <2>3 DEF Precedes
  <2>5. prio[q[at]] <= prio[q[j]]
    BY <1>1, <1>2, <2>1, <2>3, <2>4
  <2> QED BY <1>1, <1>2, <2>1, <2>3, <2>5
<1> HIDE DEF lower
<1>8. \A x, y : Precedes(r, x, y) =>
        \/ Precedes(q, x, y)
        \/ x = t /\ \E j \in at..Len(q) : q[j] = y
        \/ y = t /\ \E j \in 1..(at - 1) : q[j] = x
  BY <1>3, InsertAtList
<1> HIDE DEF r
<1>9. \A u, v \in Thread : Precedes(r, u, v) => prio[u] <= prio[v]
  BY <1>6, <1>7, <1>8
<1> QED
  BY <1>9 DEF r, at

\* The first waiter of a list that is in order is as urgent as any.
LEMMA FirstIsLeast ==
  ASSUME NEW s, ListFacts(s), NEW x \in WaitList,
         \A u, v \in Thread : Precedes(s.wait[x], u, v) => s.prio[u] <= s.prio[v]
  PROVE  /\ \A u \in Thread : On(s, x, u) => FirstPrio(s, x) <= s.prio[u]
         /\ FirstPrio(s, x) = NoPrio
              \/ \E u \in Thread : On(s, x, u) /\ FirstPrio(s, x) = s.prio[u]
<1> DEFINE q == s.wait[x]
<1>1. q \in Seq(Thread) /\ Len(q) \in Nat /\ \A u \in Thread : s.prio[u] \in Nat
  <2>1. q \in Seq(Thread) /\ s.prio \in [Thread -> Prio]
    BY DEF ListFacts, KernelState
  <2> QED BY <2>1, LenProperties, PrioAssumption
<1>2. CASE q = <<>>
  <2>1. \A u : ~Contains(q, u)
    BY <1>1, <1>2, HeadList
  <2> QED BY <1>2, <2>1 DEF On, FirstPrio
<1>3. CASE q # <<>>
  <2>1. Head(q) \in Thread /\ Contains(q, Head(q)) /\ FirstPrio(s, x) = s.prio[Head(q)]
    BY <1>1, <1>3, HeadList DEF FirstPrio
  <2>2. ASSUME NEW u \in Thread, On(s, x, u) PROVE s.prio[Head(q)] <= s.prio[u]
    <3>1. PICK i \in 1..Len(q) : q[i] = u
      BY <2>2 DEF On, Contains
    <3>2. Head(q) = q[1] /\ 1 \in 1..Len(q)
      BY <1>1, <3>1, HeadTailProperties
    <3>3. u = Head(q) \/ Precedes(q, Head(q), u)
      BY <1>1, <3>1, <3>2 DEF Precedes
    <3> QED BY <1>1, <2>1, <2>2, <3>3
  <2> QED BY <2>1, <2>2 DEF On
<1> QED
  BY <1>2, <1>3

\* A waiter that is linked anew is at its place, if only it was out of place.
LEMMA RepositionInOrder ==
  ASSUME NEW s, Linked(s), NEW t \in Thread, NEW x \in WaitList, On(s, x, t),
         \A u, v \in Thread \ {t} : Precedes(s.wait[x], u, v) => s.prio[u] <= s.prio[v]
  PROVE  LET r == Reposition(s, t, x)
         IN  /\ r.prio = s.prio
             /\ \A w \in WaitList : w # x => r.wait[w] = s.wait[w]
             /\ \A u, v \in Thread : Precedes(r.wait[x], u, v) => r.prio[u] <= r.prio[v]
<1> DEFINE u == rt_list_remove(s, t)
           q == u.wait[x]
           r == [u EXCEPT !.wait[x] = InsertAt(@, PrioPosition(@, t, u.prio), t)]
<1>1. /\ ListFacts(s) /\ s \in KernelState /\ s.stat[t] = "suspend" /\ ~InReadyList(s, t)
      /\ \A w \in WaitList : On(s, w, t) => w = x
      /\ s.wait \in [WaitList -> Seq(Thread)]
  BY DEF Linked, WaitFacts, ListFacts, KernelState
<1>2. ListFacts(u) /\ SameFields(u, s)
  BY <1>1, UnlinkUnqueued
<1>3. u.wait = [w \in WaitList |-> RemoveFirst(s.wait[w], t)]
  BY <1>1 DEF rt_list_remove, KernelState
<1>4. \A w \in WaitList : w # x => u.wait[w] = s.wait[w]
  BY <1>1, <1>3 DEF On, Contains, RemoveFirst
<1>5. Reposition(s, t, x) = r
  <2>1. rt_thread_suspend(u, t) = u
    BY <1>1, <1>2 DEF rt_thread_suspend, SameFields
  <2> QED BY <2>1 DEF Reposition, SuspendOnPrio
<1>6. /\ \A y : Contains(q, y) <=> Contains(s.wait[x], y) /\ y # t
      /\ \A y, z : Precedes(q, y, z) <=> Precedes(s.wait[x], y, z) /\ y # t /\ z # t
  <2>1. s.wait[x] \in Seq(Thread) /\ NoRepeat(s.wait[x]) /\ q = RemoveFirst(s.wait[x], t)
    BY <1>1, <1>3 DEF ListFacts
  <2> HIDE DEF q
  <2> QED BY <2>1, RemoveFirstProperties, RemoveFirstOrder
<1> HIDE DEF u
<1>7. u.prio \in [Thread -> Prio] /\ u.wait \in [WaitList -> Seq(Thread)] /\ u.prio = s.prio
      /\ u \in KernelState
  BY <1>2 DEF ListFacts, KernelState, SameFields
<1> DEFINE i == InsertAt(q, PrioPosition(q, t, u.prio), t)
<1>8. \A a, b \in Thread : Precedes(i, a, b) => u.prio[a] <= u.prio[b]
  <2>1. q \in Seq(Thread) /\ ~Contains(q, t)
    BY <1>6, <1>7
  <2>2. \A a, b \in Thread : Precedes(q, a, b) => u.prio[a] <= u.prio[b]
    BY <1>6, <1>7
  <2> HIDE DEF q
  <2> QED BY <1>7, <2>1, <2>2, InsertInOrder
<1>9. /\ r.prio = u.prio /\ r.wait[x] = i
      /\ \A w \in WaitList : w # x => r.wait[w] = u.wait[w]
  <2> HIDE DEF i
  <2>1. r = [u EXCEPT !.wait[x] = i]
    BY DEF i
  <2> HIDE DEF r
  <2> QED BY <1>7, <2>1 DEF KernelState
<1> HIDE DEF r, i, q
<1> QED
  BY <1>4, <1>5, <1>7, <1>8, <1>9 DEF r

\* What a thread deserves is one of the priorities it inherits or its own, and
\* no lower than any of them.
LEMMA MutexPrioLeast ==
  ASSUME NEW mm \in MutexState, NEW tk \in [Thread -> SUBSET Mutexes], NEW t \in Thread
  PROVE  LET p == MutexPrio(mm, tk, t)
         IN  /\ p <= InitPrio[t]
             /\ \A y \in tk[t] : p <= mm.priority[y] /\ p <= mm.ceiling[y]
             /\ \/ p = InitPrio[t]
                \/ \E y \in tk[t] : p = mm.priority[y] \/ p = mm.ceiling[y]
<1> DEFINE S == {InitPrio[t]} \union {mm.priority[x] : x \in tk[t]}
                              \union {mm.ceiling[x] : x \in tk[t]}
<1>1. InitPrio[t] \in Nat /\ tk[t] \subseteq Mutexes
  BY InitPrioAssumption, PrioAssumption
<1>2. \A x \in Mutexes : mm.priority[x] \in Nat /\ mm.ceiling[x] \in Nat
  <2>1. Prio \union {NoPrio} \subseteq Nat
    BY PrioAssumption, MutexAssumption
  <2> QED BY <2>1 DEF MutexState
<1>3. S \in SUBSET Nat /\ S # {}
  BY <1>1, <1>2
<1>4. MutexPrio(mm, tk, t) = Min(S)
  BY DEF MutexPrio
<1>5. Min(S) \in S /\ \A n \in S : Min(S) <= n
  <2> HIDE DEF S
  <2> QED BY <1>3, MinProperties
<1> QED
  BY <1>4, <1>5

\* A thread whose priority the loop has set is at the priority it deserves by its
\* own and by its ceilings, or above.
Settled(prio, mm, u) ==
  prio[u] <= InitPrio[u] /\ \A y \in taken[u] : prio[u] <= mm.ceiling[y]

\* One turn takes the change from a thread to the owner of the mutex it waits for.
\* An owner met before, and not less urgent, can only come to the same priority.
Passes(c, n, pd) ==
  LET t == c.thread
      o == n.thread
  IN  /\ t # None /\ o = c.m.owner[pd[t]] /\ o \in Thread \ {t, Idle}
      /\ \A u \in Thread \ {o} : n.k.prio[u] = c.k.prio[u]
      /\ n.k.prio[o] # c.k.prio[o] /\ n.k.prio[o] <= c.k.prio[t]
      /\ Settled(n.k.prio, c.m, o)
      /\ Settled(c.k.prio, c.m, o) /\ c.k.prio[t] <= c.k.prio[o] =>
           n.k.prio[o] = c.k.prio[t]

LEMMA PropagateInherits ==
  ASSUME NEW s, NEW mm, NEW pd, NEW P, ChainFits(s, mm, pd, P), Taken, Followed(s, mm, pd),
         NEW c, OnChain(c, s, mm, P), AllInherit(c.k, c.m, c.thread)
  PROVE  LET n == Propagate(pd, c)
         IN  AllInherit(n.k, n.m, n.thread) /\ (n.thread = None \/ Passes(c, n, pd))
<1> DEFINE t == c.thread
           x == pd[t]
           moved == Reposition(c.k, t, x)
           mn == [c.m EXCEPT !.priority[x] = FirstPrio(moved, x)]
           owner == mn.owner[x]
           p == MutexPrio(mn, taken, owner)
           n == Propagate(pd, c)
<1>1. /\ c = [k |-> c.k, m |-> c.m, thread |-> t]
      /\ t \in P \union {None} /\ Spreads(c.k, c.m, s, mm) /\ Shuffled(c.k, s)
      /\ Linked(c.k) /\ P \subseteq Thread /\ None \notin Thread
  BY LinkedKept, MutexAssumption DEF OnChain, Spreads, ChainFits
<1>2. CASE t = None \/ c.k.stat[t] # "suspend" \/ x = None
  <2>1. n.k = c.k /\ n.m = c.m /\ n.thread = None
    <3>1. n = [c EXCEPT !.thread = None]
      BY <1>2 DEF Propagate
    <3> HIDE DEF n, t
    <3> QED BY <1>1, <3>1
  <2>2. \A y \in Mutexes : ~On(c.k, y, t)
    <3> SUFFICES ASSUME NEW y \in Mutexes, On(c.k, y, t), t \in Thread PROVE FALSE
      <4>1. t \notin Thread => \A y \in Mutexes : ~On(c.k, y, t)
        <5>1. \A y \in Mutexes : c.k.wait[y] \in Seq(Thread)
          BY <1>1, MutexAssumption DEF Linked, ListFacts, KernelState
        <5> QED BY <5>1, ElementOfSeq DEF On, Contains
      <4> QED BY <4>1
    <3>1. c.k.stat[t] = "suspend"
      BY <1>1, MutexAssumption DEF Linked, WaitFacts
    <3>2. On(s, y, t)
      BY <1>1, MutexAssumption DEF Shuffled
    <3>3. x = y /\ y # None
      BY <3>2, MutexAssumption DEF Followed
    <3> QED BY <1>1, <1>2, <3>1, <3>3
  <2>3. \A y \in Mutexes : \A u, v : Precedes(c.k.wait[y], u, v) => u # t /\ v # t
    BY <2>2 DEF Precedes, On, Contains
  <2>4. AllInherit(c.k, c.m, None)
    BY <2>2, <2>3 DEF AllInherit, Inherits
  <2> HIDE DEF n
  <2> QED BY <2>1, <2>4 DEF n
<1>3. CASE t # None /\ c.k.stat[t] = "suspend" /\ x # None
  <2>1. t \in P /\ t \in Thread
    BY <1>1, <1>3
  <2>2. x \in Mutexes /\ x \in WaitList /\ On(s, x, t) /\ mm.owner[x] \in P
        /\ mm.owner[x] \in Thread \ {t, Idle}
    BY <1>1, <1>3, <2>1, MutexAssumption DEF ChainFits, Shuffled, Followed
  <2>3. On(c.k, x, t) /\ \A y \in Mutexes : On(c.k, y, t) => y = x
    <3>1. On(c.k, x, t)
      BY <1>1, <2>2 DEF Shuffled
    <3>2. \A y \in WaitList : On(c.k, y, t) => y = x
      BY <1>1, <2>1, <2>2, <3>1 DEF Linked, WaitFacts
    <3> QED BY <3>1, <3>2, MutexAssumption
  <2>4. Shuffled(moved, c.k) /\ Linked(moved) /\ ListFacts(moved)
    BY <1>1, <2>1, <2>2, <2>3, RepositionShuffles, LinkedKept DEF Linked
  <2>5. \A y \in Mutexes : Inherits(c.k, c.m, y, t)
    BY DEF AllInherit
  <2>6. /\ moved.prio = c.k.prio
        /\ \A y \in Mutexes : y # x => moved.wait[y] = c.k.wait[y]
        /\ \A u, v \in Thread : Precedes(moved.wait[x], u, v) => moved.prio[u] <= moved.prio[v]
    BY <1>1, <2>1, <2>2, <2>3, <2>5, RepositionInOrder, MutexAssumption DEF Inherits
  <2>7. \A y \in Mutexes, u \in Thread : On(moved, y, u) <=> On(c.k, y, u)
    BY <2>4, MutexAssumption DEF Shuffled
  <2>8. /\ FirstPrio(moved, x) \in Prio \union {NoPrio}
        /\ \A u \in Thread : On(moved, x, u) => FirstPrio(moved, x) <= moved.prio[u]
        /\ FirstPrio(moved, x) = NoPrio
             \/ \E u \in Thread : On(moved, x, u) /\ FirstPrio(moved, x) = moved.prio[u]
    BY <2>2, <2>4, <2>6, FirstPrioType, FirstIsLeast
  <2>9. c.m \in MutexState /\ c.m.owner = mm.owner /\ c.m.ceiling = mm.ceiling
    BY <1>1 DEF Spreads
  <2> DEFINE f == FirstPrio(moved, x)
  <2>10. n = IF p = moved.prio[owner] THEN [k |-> moved, m |-> mn, thread |-> None]
             ELSE [k |-> ChangePriority(moved, owner, p), m |-> mn, thread |-> owner]
    BY <1>3 DEF Propagate
  <2>11. mn = [c.m EXCEPT !.priority[x] = f]
    OBVIOUS
  <2> HIDE DEF x, moved, t, f, mn, n
  <2>12. mn \in MutexState /\ mn.owner = mm.owner /\ mn.ceiling = mm.ceiling
         /\ mn.priority[x] = f
         /\ \A y \in Mutexes : y # x => mn.priority[y] = c.m.priority[y]
    BY <2>2, <2>8, <2>9, <2>11 DEF MutexState, f
  <2>13. owner = mm.owner[x] /\ owner \in Thread \ {t, Idle} /\ owner \in P
    BY <2>2, <2>12
  <2>14. /\ \A y \in Mutexes : mm.owner[y] = owner <=> y \in taken[owner]
         /\ x \in taken[owner] /\ taken[owner] \subseteq Mutexes
    BY <2>2, <2>13 DEF Followed, Taken
  <2>15. /\ p \in Prio /\ p <= InitPrio[owner]
         /\ \A y \in taken[owner] : p <= mn.priority[y] /\ p <= mn.ceiling[y]
         /\ \/ p = InitPrio[owner]
            \/ \E y \in taken[owner] : p = mn.priority[y] \/ p = mn.ceiling[y]
    BY <2>12, <2>13, MutexPrioType, MutexPrioLeast DEF Taken
  <2> HIDE DEF p, owner
  \* All but the owner of x is in order now.
  <2>16. ASSUME NEW y \in Mutexes
         PROVE  /\ \A u, v \in Thread : Precedes(moved.wait[y], u, v) =>
                                          moved.prio[u] <= moved.prio[v]
                /\ \A u \in Thread : On(moved, y, u) => mn.priority[y] <= moved.prio[u]
                /\ y # x /\ mm.owner[y] # None => moved.prio[mm.owner[y]] <= mn.priority[y]
    <3>1. CASE y = x
      BY <2>6, <2>8, <2>12, <3>1 DEF f
    <3>2. CASE y # x
      <4>1. ~On(c.k, y, t) /\ Inherits(c.k, c.m, y, t) /\ moved.wait[y] = c.k.wait[y]
        BY <2>3, <2>5, <2>6, <3>2
      <4>2. \A u, v : Precedes(c.k.wait[y], u, v) => u # t /\ v # t
        BY <4>1 DEF Precedes, On, Contains
      <4> QED BY <2>6, <2>7, <2>9, <2>12, <3>2, <4>1, <4>2 DEF Inherits
    <3> QED BY <3>1, <3>2
  <2>17. \A u \in Thread : moved.prio[u] \in Nat
    <3>1. moved.prio \in [Thread -> Prio]
      BY <2>4 DEF ListFacts, KernelState
    <3> QED BY <3>1, PrioAssumption
  <2>18. CASE p = moved.prio[owner]
    <3>1. n.k = moved /\ n.m = mn /\ n.thread = None
      BY <2>10, <2>18
    <3>2. moved.prio[owner] <= mn.priority[x]
      BY <2>14, <2>15, <2>18
    <3>3. \A y \in Mutexes : mn.owner[y] # None => moved.prio[mn.owner[y]] <= mn.priority[y]
      BY <2>12, <2>13, <2>16, <3>2
    <3>4. AllInherit(moved, mn, None)
      BY <2>16, <3>3 DEF AllInherit, Inherits
    <3> QED BY <3>1, <3>4 DEF n
  <2>19. CASE p # moved.prio[owner]
    <3> DEFINE r == ChangePriority(moved, owner, p)
    <3>1. n.k = r /\ n.m = mn /\ n.thread = owner
      BY <2>10, <2>19
    <3>2. r.wait = moved.wait /\ r.prio = [moved.prio EXCEPT ![owner] = p]
      BY <2>4, <2>13, <2>15, ChangeSets
    <3> HIDE DEF r
    <3>3. r.prio[owner] = p /\ \A u \in Thread : u # owner => r.prio[u] = moved.prio[u]
      <4>1. moved.prio \in [Thread -> Prio]
        BY <2>4 DEF ListFacts, KernelState
      <4> QED BY <2>13, <3>2, <4>1
    <3>4. \A y \in Mutexes : mn.owner[y] # None => r.prio[mn.owner[y]] <= mn.priority[y]
      <4> SUFFICES ASSUME NEW y \in Mutexes, mn.owner[y] # None
                   PROVE  r.prio[mn.owner[y]] <= mn.priority[y]
        OBVIOUS
      <4>1. CASE mm.owner[y] = owner
        BY <2>12, <2>14, <2>15, <3>3, <4>1
      <4>2. CASE mm.owner[y] # owner
        <5>1. y # x /\ mm.owner[y] \in Thread
          BY <2>9, <2>12, <2>13, <4>2 DEF MutexState
        <5> QED BY <2>12, <2>16, <3>3, <4>2, <5>1
      <4> QED BY <4>1, <4>2
    <3>5. AllInherit(r, mn, owner)
      <4> SUFFICES ASSUME NEW y \in Mutexes PROVE Inherits(r, mn, y, owner)
        BY DEF AllInherit
      <4>1. \A u, v \in Thread \ {owner} : Precedes(r.wait[y], u, v) => r.prio[u] <= r.prio[v]
        BY <2>16, <3>2, <3>3
      <4>2. \A u \in Thread \ {owner} : On(r, y, u) => mn.priority[y] <= r.prio[u]
        BY <2>16, <3>2, <3>3 DEF On
      <4> QED BY <3>4, <4>1, <4>2 DEF Inherits
    <3>6. p <= c.k.prio[t]
      <4>1. On(moved, x, t) /\ f <= moved.prio[t] /\ p <= f
        BY <2>1, <2>2, <2>3, <2>7, <2>8, <2>12, <2>14, <2>15 DEF f
      <4>2. f \in Nat /\ p \in Nat
        BY <2>8, <2>15, PrioAssumption, MutexAssumption DEF f
      <4> QED BY <2>1, <2>6, <2>17, <4>1, <4>2
    <3>7. ASSUME Settled(c.k.prio, c.m, owner), c.k.prio[t] <= c.k.prio[owner]
          PROVE  p = c.k.prio[t]
      <4>1. p \in Nat /\ InitPrio[owner] \in Nat /\ moved.prio[owner] \in Nat
            /\ moved.prio[t] \in Nat
        BY <2>1, <2>13, <2>15, <2>17, InitPrioAssumption, PrioAssumption
      <4>2. p < moved.prio[owner]
        BY <2>6, <2>19, <3>6, <3>7, <4>1
      <4>3. p # InitPrio[owner]
        BY <2>6, <3>7, <4>1, <4>2 DEF Settled
      <4>4. ASSUME NEW y \in taken[owner] PROVE p # mn.ceiling[y]
        <5>1. moved.prio[owner] <= mn.ceiling[y] /\ mn.ceiling[y] \in Nat
          <6>1. y \in Mutexes /\ mn.ceiling[y] \in Prio \union {NoPrio}
            BY <2>12, <2>14 DEF MutexState
          <6> QED BY <2>6, <2>9, <2>12, <3>7, <6>1, PrioAssumption, MutexAssumption DEF Settled
        <5> QED BY <4>1, <4>2, <5>1
      <4>5. ASSUME NEW y \in taken[owner], y # x PROVE p # mn.priority[y]
        <5>1. moved.prio[owner] <= mn.priority[y] /\ mn.priority[y] \in Nat
          <6>1. y \in Mutexes /\ mn.priority[y] \in Prio \union {NoPrio} /\ mm.owner[y] = owner
            BY <2>12, <2>14 DEF MutexState
          <6>2. owner # None
            BY <1>1, <2>13
          <6> QED BY <2>16, <4>5, <6>1, <6>2, PrioAssumption, MutexAssumption
        <5> QED BY <4>1, <4>2, <5>1
      <4>6. p = f
        BY <2>12, <2>15, <4>3, <4>4, <4>5
      <4>7. f # NoPrio
        BY <2>15, <4>1, <4>6, MutexAssumption
      <4>8. PICK u \in Thread : On(moved, x, u) /\ f = moved.prio[u]
        BY <2>8, <4>7 DEF f
      <4>9. u = t
        <5> SUFFICES ASSUME u # t PROVE FALSE
          OBVIOUS
        <5>1. Inherits(c.k, c.m, x, t) /\ On(c.k, x, u) /\ c.m.owner[x] = owner /\ owner # None
          BY <1>1, <2>2, <2>5, <2>7, <2>9, <2>13, <4>8
        <5>2. c.m.priority[x] <= c.k.prio[u] /\ c.k.prio[owner] <= c.m.priority[x]
          BY <5>1 DEF Inherits
        <5>3. c.m.priority[x] \in Nat
          <6>1. c.m.priority[x] \in Prio \union {NoPrio}
            BY <2>2, <2>9 DEF MutexState
          <6> QED BY <6>1, PrioAssumption, MutexAssumption
        <5> QED BY <2>6, <4>1, <4>2, <4>6, <4>8, <5>2, <5>3
      <4> QED BY <2>6, <4>6, <4>8, <4>9
    <3>8. Settled(r.prio, c.m, owner)
      BY <2>9, <2>12, <2>15, <3>3 DEF Settled
    <3>9. Passes(c, n, pd)
      <4>1. c.m.owner[pd[c.thread]] = owner /\ t = c.thread
        BY <2>9, <2>13 DEF x, t
      <4>2. \A u \in Thread \ {owner} : n.k.prio[u] = c.k.prio[u]
        BY <2>6, <3>1, <3>3
      <4>3. n.k.prio[owner] # c.k.prio[owner] /\ n.k.prio[owner] <= c.k.prio[t]
        BY <2>6, <2>19, <3>1, <3>3, <3>6
      <4>4. Settled(c.k.prio, c.m, owner) /\ c.k.prio[t] <= c.k.prio[owner] =>
              n.k.prio[owner] = c.k.prio[t]
        BY <3>1, <3>3, <3>7
      <4>5. t # None /\ n.thread = owner /\ Settled(n.k.prio, c.m, owner)
        BY <1>1, <2>1, <3>1, <3>8
      <4> QED BY <2>13, <4>1, <4>2, <4>3, <4>4, <4>5 DEF Passes
    <3> QED BY <3>1, <3>5, <3>9 DEF n
  <2> QED BY <2>18, <2>19
<1> QED
  BY <1>2, <1>3

\* The turns the loop has made: it has given a priority to the threads S, and to
\* those of S2 a second one.  None is more urgent than the thread it has come to,
\* and once it gives a second priority it goes round a circle within S.
Visits(c, pd, S, S2, i) ==
  LET t == c.thread
      prio == c.k.prio
  IN  /\ S \subseteq Thread \ {Idle} /\ S2 \subseteq S
      /\ Cardinality(S) + Cardinality(S2) = i
      /\ \A u \in S : Settled(prio, c.m, u) /\ prio[t] <= prio[u]
      /\ \A u \in S2 : prio[u] = prio[t]
      /\ S2 # {} => t \in S2
      /\ \A u \in S : u # t \/ u \in S2 => c.m.owner[pd[u]] \in S

LEMMA VisitStep ==
  ASSUME NEW c, NEW n, NEW pd, NEW i \in Nat, NEW S, NEW S2, Visits(c, pd, S, S2, i),
         Passes(c, n, pd), c.thread \in Thread,
         c.k.prio \in [Thread -> Prio], n.k.prio \in [Thread -> Prio],
         n.m.owner = c.m.owner, n.m.ceiling = c.m.ceiling
  PROVE  \E R, R2 : Visits(n, pd, R, R2, i + 1)
<1> DEFINE t == c.thread
           o == n.thread
           old == c.k.prio
           new == n.k.prio
<1>1. /\ t \in Thread /\ o = c.m.owner[pd[t]] /\ o \in Thread \ {t, Idle}
      /\ \A u \in Thread \ {o} : new[u] = old[u]
      /\ new[o] # old[o] /\ new[o] <= old[t] /\ Settled(new, c.m, o)
      /\ Settled(old, c.m, o) /\ old[t] <= old[o] => new[o] = old[t]
  BY DEF Passes
<1>2. /\ S \subseteq Thread \ {Idle} /\ S2 \subseteq S
      /\ Cardinality(S) + Cardinality(S2) = i
      /\ \A u \in S : Settled(old, c.m, u) /\ old[t] <= old[u]
      /\ \A u \in S2 : old[u] = old[t]
      /\ S2 # {} => t \in S2
      /\ \A u \in S : u # t \/ u \in S2 => c.m.owner[pd[u]] \in S
  BY DEF Visits
<1>3. /\ IsFiniteSet(S) /\ IsFiniteSet(S2)
      /\ Cardinality(S) \in Nat /\ Cardinality(S2) \in Nat
  <2>1. IsFiniteSet(S) /\ IsFiniteSet(S2)
    BY <1>2, ThreadAssumption, FS_Subset
  <2> QED BY <2>1, FS_CardinalityType
<1>4. \A u \in Thread : old[u] \in Nat /\ new[u] \in Nat
  BY PrioAssumption
<1>5. \A u \in S \ {o} : Settled(new, n.m, u)
  BY <1>1, <1>2 DEF Settled
<1>6. Settled(new, n.m, o)
  BY <1>1 DEF Settled
<1>7. CASE o \notin S
  <2>1. S2 = {}
    BY <1>1, <1>2, <1>7
  <2>2. Cardinality(S \union {o}) + Cardinality({}) = i + 1
    BY <1>2, <1>3, <1>7, <2>1, FS_AddElement, FS_EmptySet
  <2>3. \A u \in S \union {o} : Settled(new, n.m, u) /\ new[o] <= new[u]
    <3>1. \A u \in S : new[u] = old[u] /\ old[t] <= old[u] /\ old[u] \in Nat
      BY <1>1, <1>2, <1>4, <1>7
    <3>2. new[o] \in Nat /\ old[t] \in Nat /\ new[o] <= old[t]
      BY <1>1, <1>4
    <3> HIDE DEF old, new, o, t
    <3>3. \A u \in S : new[o] <= new[u]
      BY <3>1, <3>2
    <3>4. new[o] <= new[o]
      BY <3>2
    <3> QED BY <1>5, <1>6, <3>3, <3>4
  <2>4. \A u \in S \union {o} : u # o => n.m.owner[pd[u]] \in S \union {o}
    BY <1>1, <1>2
  <2> HIDE DEF o
  <2>5. Visits(n, pd, S \union {o}, {}, i + 1)
    BY <1>1, <1>2, <2>2, <2>3, <2>4 DEF Visits, o
  <2> QED BY <2>5
<1>8. CASE o \in S
  <2>1. new[o] = old[t]
    BY <1>1, <1>2, <1>8
  <2>2. o \notin S2
    BY <1>1, <1>2, <2>1
  <2>3. Cardinality(S) + Cardinality(S2 \union {o}) = i + 1
    <3>1. Cardinality(S2 \union {o}) = Cardinality(S2) + 1
      BY <1>3, <2>2, FS_AddElement
    <3> QED BY <1>2, <1>3, <3>1
  <2>4. \A u \in S : Settled(new, n.m, u) /\ new[o] <= new[u]
    BY <1>1, <1>2, <1>4, <1>5, <1>6, <2>1
  <2>5. \A u \in S2 \union {o} : new[u] = new[o]
    BY <1>1, <1>2, <2>1, <2>2
  <2>6. \A u \in S : n.m.owner[pd[u]] \in S
    BY <1>1, <1>2, <1>8
  <2> HIDE DEF o
  <2>7. Visits(n, pd, S, S2 \union {o}, i + 1)
    BY <1>2, <1>8, <2>3, <2>4, <2>5, <2>6 DEF Visits, o
  <2> QED BY <2>7
<1> QED
  BY <1>7, <1>8

\* The loop cannot go on for longer than its turns.
LEMMA VisitsEnd ==
  ASSUME NEW c, NEW pd, NEW S, NEW S2
  PROVE  ~Visits(c, pd, S, S2, 2 * Cardinality(Thread))
<1> SUFFICES ASSUME Visits(c, pd, S, S2, 2 * Cardinality(Thread)) PROVE FALSE
  OBVIOUS
<1> DEFINE T == Thread \ {Idle}
<1>1. IsFiniteSet(T) /\ Cardinality(T) = Cardinality(Thread) - 1
  BY ThreadAssumption, FS_RemoveElement
<1>2. Cardinality(Thread) \in Nat
  BY ThreadAssumption, FS_CardinalityType
<1>3. S \in SUBSET T /\ S2 \in SUBSET T
  BY DEF Visits
<1> HIDE DEF T
<1>4. /\ IsFiniteSet(S) /\ Cardinality(S) <= Cardinality(T)
      /\ IsFiniteSet(S2) /\ Cardinality(S2) <= Cardinality(T)
  BY <1>1, <1>3, FS_Subset
<1>5. Cardinality(S) \in Nat /\ Cardinality(S2) \in Nat
  BY <1>4, FS_CardinalityType
<1>6. Cardinality(S) + Cardinality(S2) = 2 * Cardinality(Thread)
  BY DEF Visits
<1> QED
  BY <1>1, <1>2, <1>4, <1>5, <1>6

\* Only t is out of order, which is about to get the priority q.
Unsettled(s, mm, t, q) ==
  \A x \in Mutexes :
    /\ \A u, v \in Thread \ {t} : Precedes(s.wait[x], u, v) => s.prio[u] <= s.prio[v]
    /\ \A u \in Thread \ {t} : On(s, x, u) => mm.priority[x] <= s.prio[u]
    /\ mm.owner[x] \notin {t, None} => s.prio[mm.owner[x]] <= mm.priority[x]
    /\ mm.owner[x] = t => q <= mm.priority[x]

LEMMA ChangeInherits ==
  ASSUME NEW s, Linked(s), NEW mm \in MutexState, NEW t \in Thread, NEW q \in Prio,
         Unsettled(s, mm, t, q)
  PROVE  AllInherit(ChangePriority(s, t, q), mm, t)
<1> DEFINE r == ChangePriority(s, t, q)
<1>1. r.wait = s.wait /\ r.prio = [s.prio EXCEPT ![t] = q]
  BY ChangeSets
<1>2. s.prio \in [Thread -> Prio] /\ mm.owner \in [Mutexes -> Thread \union {None}]
  BY DEF Linked, ListFacts, KernelState, MutexState
<1> HIDE DEF r
<1>3. r.prio[t] = q /\ \A u \in Thread \ {t} : r.prio[u] = s.prio[u]
  BY <1>1, <1>2
<1>4. ASSUME NEW x \in Mutexes PROVE Inherits(r, mm, x, t)
  <2>1. mm.owner[x] # None => r.prio[mm.owner[x]] <= mm.priority[x]
    BY <1>2, <1>3 DEF Unsettled
  <2>2. \A u, v \in Thread \ {t} : Precedes(r.wait[x], u, v) => r.prio[u] <= r.prio[v]
    BY <1>1, <1>3 DEF Unsettled
  <2>3. \A u \in Thread \ {t} : On(r, x, u) => mm.priority[x] <= r.prio[u]
    BY <1>1, <1>3 DEF Unsettled, On
  <2> QED BY <2>1, <2>2, <2>3 DEF Inherits
<1> QED
  BY <1>4 DEF AllInherit, r

\* The loop ends with every mutex in order.
LEMMA UpdateInherits ==
  ASSUME NEW s, NEW mm, NEW pd, NEW P, ChainFits(s, mm, pd, P), Taken, Followed(s, mm, pd),
         NEW t \in P, NEW q \in Prio, Unsettled(s, mm, t, q)
  PROVE  LET c == UpdatePriority(s, mm, pd, t, q) IN AllInherit(c.k, c.m, None)
<1> DEFINE start == [k |-> ChangePriority(s, t, q), m |-> mm, thread |-> t]
           n == 2 * Cardinality(Thread)
           g == CHOOSE g : g = [i \in 0..n |-> IF i = 0 THEN start
                                               ELSE Propagate(pd, g[i - 1])]
           Fine(i) == /\ OnChain(g[i], s, mm, P)
                      /\ AllInherit(g[i].k, g[i].m, g[i].thread)
                      /\ g[i].thread = None \/ \E S, S2 : Visits(g[i], pd, S, S2, i)
<1>1. n \in Nat
  BY ThreadAssumption, FS_CardinalityType
<1>2. UpdatePriority(s, mm, pd, t, q) = g[n]
  BY DEF UpdatePriority
<1>3. /\ OnChain(start, s, mm, P) /\ AllInherit(start.k, start.m, start.thread)
      /\ Visits(start, pd, {}, {}, 0)
  <2>1. t \in Thread /\ Linked(s) /\ mm \in MutexState
    BY DEF ChainFits
  <2>2. s.stat[t] = "ready" => InReadyList(s, t)
    BY DEF ChainFits
  <2>3. Shuffled(ChangePriority(s, t, q), s)
    BY <2>1, <2>2, ChangeShuffles
  <2>4. AllInherit(ChangePriority(s, t, q), mm, t)
    BY <2>1, ChangeInherits
  <2>5. Visits(start, pd, {}, {}, 0)
    BY FS_EmptySet DEF Visits
  <2> QED BY <2>1, <2>3, <2>4, <2>5 DEF OnChain, Spreads
<1> HIDE DEF start, n
<1>4. g = [i \in 0..n |-> IF i = 0 THEN start ELSE Propagate(pd, g[i - 1])]
  BY <1>1, PriorityTurnsExist
<1> HIDE DEF g
<1>5. g[0] = start /\ \A i \in 1..n : g[i] = Propagate(pd, g[i - 1])
  BY <1>1, <1>4
<1>6. ASSUME NEW i \in 1..n, Fine(i - 1) PROVE Fine(i)
  <2> DEFINE c == g[i - 1]
             d == g[i]
  <2>1. d = Propagate(pd, c)
    BY <1>5
  <2>2. OnChain(c, s, mm, P) /\ AllInherit(c.k, c.m, c.thread)
        /\ (c.thread = None \/ \E S, S2 : Visits(c, pd, S, S2, i - 1))
    BY <1>6
  <2> HIDE DEF c, d
  <2>3. OnChain(d, s, mm, P)
    BY <2>1, <2>2, PropagateStep
  <2>4. AllInherit(d.k, d.m, d.thread) /\ (d.thread = None \/ Passes(c, d, pd))
    BY <2>1, <2>2, PropagateInherits
  <2>5. ASSUME d.thread # None PROVE \E S, S2 : Visits(d, pd, S, S2, i)
    <3>1. Passes(c, d, pd) /\ c.thread # None
      BY <2>4, <2>5 DEF Passes
    <3>2. PICK S, S2 : Visits(c, pd, S, S2, i - 1)
      BY <2>2, <3>1
    <3>3. /\ c.thread \in Thread /\ d.m.owner = c.m.owner /\ d.m.ceiling = c.m.ceiling
          /\ c.k.prio \in [Thread -> Prio] /\ d.k.prio \in [Thread -> Prio]
      BY <2>2, <2>3, <3>1 DEF OnChain, Spreads, ChainFits, Shuffled, ListFacts, KernelState
    <3>4. i - 1 \in Nat /\ (i - 1) + 1 = i
      BY <1>1
    <3> HIDE DEF Fine
    <3> QED BY <3>1, <3>2, <3>3, <3>4, VisitStep
  <2> QED BY <2>3, <2>4, <2>5 DEF d
<1>7. Fine(0)
  BY <1>3, <1>5
<1> DEFINE Bad == {i \in 0..n : ~Fine(i)}
<1> HIDE DEF Fine
<1>8. Bad = {}
  <2> SUFFICES ASSUME Bad # {} PROVE FALSE
    OBVIOUS
  <2> DEFINE j == Min(Bad)
  <2>1. Bad \in SUBSET Nat
    BY <1>1
  <2>2. j \in Bad /\ \A i \in Bad : j <= i
    <3> HIDE DEF Bad
    <3> QED BY <2>1, MinProperties
  <2> HIDE DEF j
  <2>3. j \in 0..n /\ ~Fine(j) /\ j # 0
    BY <1>7, <2>2
  <2>4. j \in 1..n /\ j - 1 \in 0..n /\ j - 1 \notin Bad
    <3> HIDE DEF Bad
    <3> QED BY <1>1, <2>2, <2>3
  <2> QED BY <1>6, <2>3, <2>4
<1>9. Fine(n)
  BY <1>1, <1>8
<1>10. AllInherit(g[n].k, g[n].m, None)
  <2>1. \A S, S2 : ~Visits(g[n], pd, S, S2, n)
    BY VisitsEnd DEF n
  <2> QED BY <1>9, <2>1 DEF Fine
<1> QED
  BY <1>2, <1>10

-----------------------------------------------------------------------------
(* Steps that take threads off the lists, and change no priority. *)

Thins(r, s) ==
  /\ r.prio = s.prio
  /\ \A w \in WaitList : /\ \A u, v : Precedes(r.wait[w], u, v) => Precedes(s.wait[w], u, v)
                         /\ \A u : On(r, w, u) => On(s, w, u)

LEMMA ThinnerInherits ==
  ASSUME NEW r, NEW s, Thins(r, s), NEW mm, AllInherit(s, mm, None)
  PROVE  AllInherit(r, mm, None)
<1>1. WaitList = Mutexes
  BY MutexAssumption
<1> QED
  BY <1>1 DEF AllInherit, Inherits, Thins

LEMMA SameThins ==
  ASSUME NEW r, NEW s, r.wait = s.wait, r.prio = s.prio
  PROVE  Thins(r, s)
BY DEF Thins, On

LEMMA ThinsOn ==
  ASSUME NEW r, NEW s, NEW q, Thins(r, s), Thins(s, q)
  PROVE  Thins(r, q)
BY DEF Thins

LEMMA UnlinkThins ==
  ASSUME NEW s, ListFacts(s), NEW t \in Thread, NEW r,
         r.prio = s.prio, r.wait = [w \in WaitList |-> RemoveFirst(s.wait[w], t)]
  PROVE  Thins(r, s)
<1> SUFFICES ASSUME NEW w \in WaitList
             PROVE  /\ \A u, v : Precedes(r.wait[w], u, v) => Precedes(s.wait[w], u, v)
                    /\ \A u : On(r, w, u) => On(s, w, u)
  BY DEF Thins
<1>1. s.wait[w] \in Seq(Thread) /\ NoRepeat(s.wait[w]) /\ r.wait[w] = RemoveFirst(s.wait[w], t)
  BY DEF ListFacts, KernelState
<1>2. \A u, v : Precedes(r.wait[w], u, v) => Precedes(s.wait[w], u, v)
  BY <1>1, RemoveFirstOrder
<1>3. \A u : On(r, w, u) => On(s, w, u)
  BY <1>1, RemoveFirstProperties DEF On
<1> QED
  BY <1>2, <1>3

LEMMA ScheduleThins ==
  ASSUME NEW s, IpcInv(s)
  PROVE  Thins(rt_schedule(s), s)
BY Reschedules, SameThins DEF Rescheduled

LEMMA SliceThins ==
  ASSUME NEW s, IpcInv(s)
  PROVE  Thins(rt_schedule([s EXCEPT !.yield = @ \union {s.cur}]), s)
<1> DEFINE a == [s EXCEPT !.yield = @ \union {s.cur}]
<1>1. s \in KernelState
  BY DEF IpcInv, KernelInv, ListFacts
<1>2. /\ a \in KernelState /\ SameLists(a, s) /\ a.stat = s.stat /\ a.armed = s.armed
      /\ a.cur = s.cur /\ a.prio = s.prio /\ a.lock = s.lock
  BY <1>1 DEF KernelState, SameLists
<1> HIDE DEF a
<1>3. IpcInv(a) /\ Thins(a, s)
  BY <1>2, IpcFieldsChange, SameThins DEF SameLists
<1> QED
  BY <1>3, ScheduleThins, ThinsOn DEF a

LEMMA WokeThins ==
  ASSUME NEW s, IpcInv(s), NEW t \in Thread, NEW e, NEW r, Woke(r, s, t, e)
  PROVE  Thins(r, s)
BY UnlinkThins DEF Woke, IpcInv, KernelInv

LEMMA ResumeThins ==
  ASSUME NEW s, IpcInv(s), NEW t \in Thread, s.stat[t] = "suspend"
  PROVE  Thins(rt_thread_resume(s, t), s)
<1>1. s \in KernelState /\ s.err[t] \in Error
  BY DEF IpcInv, KernelInv, ListFacts, KernelState
<1>2. [s EXCEPT !.err[t] = s.err[t]] = s
  BY <1>1 DEF KernelState
<1>3. Woke(rt_thread_resume(s, t), s, t, s.err[t])
  BY <1>1, <1>2, ResumeWakes
<1> QED
  BY <1>3, WokeThins

LEMMA TimeoutThins ==
  ASSUME NEW s, IpcInv(s), NEW t \in s.armed
  PROVE  Thins(_thread_timeout(s, t), s)
<1>1. t \in Thread
  BY TimeoutWakes
<1>2. PICK w : Woke(w, s, t, "ETIMEOUT") /\ Rescheduled(_thread_timeout(s, t), w)
  BY TimeoutWakes
<1>3. Thins(w, s) /\ Thins(_thread_timeout(s, t), w)
  BY <1>1, <1>2, WokeThins, SameThins DEF Rescheduled
<1> QED
  BY <1>3, ThinsOn

LEMMA RemoveThins ==
  ASSUME NEW s, ListFacts(s), NEW t \in Thread
  PROVE  Thins(rt_schedule_remove_thread(s, t), s) /\ Thins(rt_list_remove(s, t), s)
<1> DEFINE r == rt_schedule_remove_thread(s, t)
           u == rt_list_remove(s, t)
<1>1. /\ r.prio = s.prio /\ r.wait = [w \in WaitList |-> RemoveFirst(s.wait[w], t)]
      /\ u.prio = s.prio /\ u.wait = [w \in WaitList |-> RemoveFirst(s.wait[w], t)]
  BY DEF rt_schedule_remove_thread, rt_list_remove, ListFacts, KernelState
<1> QED
  BY <1>1, UnlinkThins

-----------------------------------------------------------------------------
(* The owner is refreshed; a waiter leaves. *)

LEMMA RefreshInherits ==
  ASSUME NEW s, NEW mm, NEW P, ChainFits(s, mm, pend, P), Taken, Followed(s, mm, pend),
         AllInherit(s, mm, None), NEW x \in Mutexes, mm.owner[x] \in P
  PROVE  LET c == RefreshOwner(s, mm, x) IN AllInherit(c.k, c.m, None)
<1> DEFINE o == mm.owner[x]
           p == MutexPrio(mm, taken, o)
           c == RefreshOwner(s, mm, x)
<1>1. o \in P /\ o \in Thread /\ mm \in MutexState /\ None \notin Thread
  BY MutexAssumption DEF ChainFits
<1>2. c = IF p # s.prio[o] THEN UpdatePriority(s, mm, pend, o, p)
                           ELSE [k |-> s, m |-> mm]
  BY DEF RefreshOwner
<1>3. p \in Prio /\ \A y \in taken[o] : p <= mm.priority[y]
  BY <1>1, MutexPrioType, MutexPrioLeast DEF Taken
<1> HIDE DEF p, o, c
<1>4. CASE p # s.prio[o]
  <2>1. \A y \in Mutexes : mm.owner[y] = o => p <= mm.priority[y]
    BY <1>1, <1>3 DEF Followed
  <2>2. Unsettled(s, mm, o, p)
    BY <1>1, <2>1 DEF Unsettled, AllInherit, Inherits
  <2>3. c = UpdatePriority(s, mm, pend, o, p)
    BY <1>2, <1>4
  <2>4. LET d == UpdatePriority(s, mm, pend, o, p) IN AllInherit(d.k, d.m, None)
    BY <1>1, <1>3, <2>2, UpdateInherits
  <2> QED BY <2>3, <2>4 DEF c
<1>5. CASE p = s.prio[o]
  <2>1. c.k = s /\ c.m = mm
    BY <1>2, <1>5
  <2> QED BY <2>1 DEF c
<1> QED
  BY <1>4, <1>5

LEMMA DropInherits ==
  ASSUME NEW s, NEW P, ChainFits(s, m, pend, P), Taken, Followed(s, m, pend),
         AllInherit(s, m, None),
         NEW x \in Mutexes, m.owner[x] \in P \union {None}, NEW t
  PROVE  LET c == DropWaiter(s, x, t) IN AllInherit(c.k, c.m, None)
<1> DEFINE mm == [m EXCEPT !.priority[x] = FirstPrio(s, x)]
           c == DropWaiter(s, x, t)
<1>1. /\ ListFacts(s) /\ m \in MutexState /\ x \in WaitList /\ P \subseteq Thread
      /\ s.prio \in [Thread -> Prio] /\ m.owner[x] \in Thread \union {None}
  BY MutexAssumption DEF ChainFits, Linked, ListFacts, KernelState
<1>2. /\ FirstPrio(s, x) \in Prio \union {NoPrio}
      /\ \A u \in Thread : On(s, x, u) => FirstPrio(s, x) <= s.prio[u]
      /\ FirstPrio(s, x) = NoPrio
           \/ \E u \in Thread : On(s, x, u) /\ FirstPrio(s, x) = s.prio[u]
  <2>1. None \notin Thread
    BY MutexAssumption
  <2>2. \A u, v \in Thread : Precedes(s.wait[x], u, v) => s.prio[u] <= s.prio[v]
    BY <2>1 DEF AllInherit, Inherits
  <2> QED BY <1>1, <2>2, FirstPrioType, FirstIsLeast
<1>3. /\ mm \in MutexState /\ mm.owner = m.owner
      /\ \A y \in Mutexes : y # x => mm.priority[y] = m.priority[y]
      /\ mm.priority[x] = FirstPrio(s, x)
  BY <1>1, <1>2 DEF MutexState
<1>4. c = IF mm.owner[x] # None /\ s.prio[mm.owner[x]] = s.prio[t]
          THEN RefreshOwner(s, mm, x) ELSE [k |-> s, m |-> mm]
  BY DEF DropWaiter
<1> HIDE DEF mm, c
<1>5. ChainFits(s, mm, pend, P) /\ Followed(s, mm, pend)
  BY <1>3 DEF ChainFits, Followed
<1>6. AllInherit(s, mm, None)
  <2> SUFFICES ASSUME NEW y \in Mutexes PROVE Inherits(s, mm, y, None)
    BY DEF AllInherit
  <2>1. Inherits(s, m, y, None)
    BY DEF AllInherit
  <2>2. CASE y # x
    BY <1>3, <2>1, <2>2 DEF Inherits
  <2>3. CASE y = x
    <3>1. ASSUME m.owner[x] # None PROVE s.prio[m.owner[x]] <= FirstPrio(s, x)
      <4>1. s.prio[m.owner[x]] <= m.priority[x] /\ m.owner[x] \in Thread
        BY <1>1, <2>1, <2>3, <3>1 DEF Inherits
      <4>2. s.prio[m.owner[x]] \in Nat /\ s.prio[m.owner[x]] < NoPrio /\ NoPrio \in Nat
        BY <1>1, <4>1, PrioAssumption, MutexAssumption
      <4>3. m.priority[x] \in Nat
        <5>1. m.priority[x] \in Prio \union {NoPrio}
          BY <1>1 DEF MutexState
        <5> QED BY <5>1, PrioAssumption, MutexAssumption
      <4>4. ASSUME NEW u \in Thread, On(s, x, u) PROVE s.prio[m.owner[x]] <= s.prio[u]
        <5>1. m.priority[x] <= s.prio[u] /\ s.prio[u] \in Nat
          BY <1>1, <2>1, <2>3, <4>4, PrioAssumption, MutexAssumption DEF Inherits
        <5> QED BY <4>1, <4>2, <4>3, <5>1
      <4> QED BY <1>2, <4>2, <4>4
    <3> QED BY <1>2, <1>3, <2>1, <2>3, <3>1 DEF Inherits
  <2> QED BY <2>2, <2>3
<1>7. CASE mm.owner[x] # None /\ s.prio[mm.owner[x]] = s.prio[t]
  <2>1. mm.owner[x] \in P
    BY <1>3, <1>7
  <2>2. c = RefreshOwner(s, mm, x)
    BY <1>4, <1>7
  <2>3. LET d == RefreshOwner(s, mm, x) IN AllInherit(d.k, d.m, None)
    BY <1>5, <1>6, <2>1, RefreshInherits
  <2> QED BY <2>2, <2>3 DEF c
<1>8. CASE ~(mm.owner[x] # None /\ s.prio[mm.owner[x]] = s.prio[t])
  <2>1. c.k = s /\ c.m = mm
    BY <1>4, <1>8
  <2> QED BY <1>6, <2>1 DEF c
<1> QED
  BY <1>7, <1>8

\* The invariant has what the loop follows.
LEMMA MutexFollowed ==
  ASSUME MutexInv
  PROVE  Followed(k, m, pend)
<1>1. \A x \in Mutexes, u \in Thread : On(k, x, u) => pend[u] = x /\ m.owner[x] # u
  BY DEF MutexInv, WaitPart, WaitOK
<1>2. \A x \in Mutexes, u \in Thread : x \in taken[u] <=> m.owner[x] = u
  BY DEF MutexInv, OwnerPart, OwnerOK
<1>3. \A x \in Mutexes : m.owner[x] # Idle
  <2>1. Idle \in Thread
    BY ThreadAssumption
  <2> QED BY <2>1 DEF MutexInv, OwnerPart, OwnerOK
<1> QED
  BY <1>1, <1>2, <1>3 DEF Followed

-----------------------------------------------------------------------------
(* Every call leaves the mutexes in order. *)

\* A step that takes threads off the lists, and touches no mutex.
LEMMA QuietInherits ==
  ASSUME InheritPart, Thins(k', k), m'.owner = m.owner, m'.priority = m.priority
  PROVE  InheritPart'
<1>1. AllInherit(k', m, None)
  BY ThinnerInherits DEF InheritPart
<1> QED
  BY <1>1 DEF InheritPart, AllInherit, Inherits

LEMMA InheritStarts == Init => InheritPart
<1> SUFFICES ASSUME Init PROVE InheritPart
  OBVIOUS
<1>1. k.wait = [w \in WaitList |-> <<>>]
  BY DEF Init, StartedKernel, Started
<1>2. \A x \in Mutexes : k.wait[x] = <<>> /\ m.owner[x] = None
  BY <1>1, MutexAssumption DEF Init
<1>3. /\ \A u : ~Contains(<<>>, u)
      /\ \A u, v : ~Precedes(<<>>, u, v)
  BY DEF Contains, Precedes
<1> QED
  BY <1>2, <1>3 DEF InheritPart, AllInherit, Inherits, On

LEMMA IpcHolds ==
  ASSUME MutexInv
  PROVE  IpcInv(k) /\ ListFacts(k) /\ k \in KernelState
BY DEF MutexInv, KernelPart, KernelFits, IpcInv, KernelInv, ListFacts

LEMMA ScheduleInherits ==
  ASSUME MutexInv, InheritPart, k' = rt_schedule(k), m' = m
  PROVE  InheritPart'
BY IpcHolds, ScheduleThins, QuietInherits

LEMMA TickInherits ==
  ASSUME MutexInv, InheritPart, Tick
  PROVE  InheritPart'
BY IpcHolds, SliceThins, QuietInherits DEF Tick, SliceEnd

LEMMA TimeoutInherits ==
  ASSUME MutexInv, InheritPart, NEW t \in Thread, Timeout(t)
  PROVE  InheritPart'
BY IpcHolds, TimeoutThins, QuietInherits DEF Timeout, TimerExpires

LEMMA SleepInherits ==
  ASSUME MutexInv, InheritPart, NEW t \in Thread, Sleep(t)
  PROVE  InheritPart'
<1>1. /\ k.cur = t /\ pc[t] = "run" /\ t # Idle /\ m' = m
      /\ k' = [rt_thread_suspend(k, t) EXCEPT !.armed = @ \union {t}, !.err[t] = "EINTR"]
  BY DEF Sleep, SleepStart, At
<1>2. KernelFits(k, Deleted) /\ k.stat[t] = "running"
  BY <1>1, RunnerFacts
<1>3. Slept(k', k, t, "EINTR")
  BY <1>1, <1>2, SleepFits
<1> QED
  BY <1>1, <1>3, SameThins, QuietInherits DEF Slept

LEMMA TakeAgainInherits ==
  ASSUME MutexInv, InheritPart, NEW t \in Thread, NEW x \in Mutexes, TakeAgain(t, x)
  PROVE  InheritPart'
<1>1. k' = [k EXCEPT !.err[t] = "EOK"] /\ m' = [m EXCEPT !.hold[x] = @ + 1]
  BY DEF TakeAgain
<1>2. k'.wait = k.wait /\ k'.prio = k.prio
  BY <1>1, IpcHolds DEF KernelState
<1>3. m'.owner = m.owner /\ m'.priority = m.priority
  BY <1>1, MutexTypes DEF MutexInv, MutexState
<1> QED
  BY <1>2, <1>3, SameThins, QuietInherits

LEMMA ReleaseInnerInherits ==
  ASSUME MutexInv, InheritPart, NEW t \in Thread, NEW x \in Mutexes, ReleaseInner(t, x)
  PROVE  InheritPart'
<1>1. k' = k /\ m' = [m EXCEPT !.hold[x] = @ - 1]
  BY DEF ReleaseInner
<1>2. m'.owner = m.owner /\ m'.priority = m.priority
  BY <1>1, MutexTypes DEF MutexInv, MutexState
<1> QED
  BY <1>1, <1>2, SameThins, QuietInherits

LEMMA DetachInherits ==
  ASSUME MutexInv, InheritPart, NEW t \in Thread, NEW u \in Thread, Detach(t, u)
  PROVE  InheritPart'
BY IpcHolds, RemoveThins, QuietInherits DEF Detach

LEMMA TakeFailsInherits ==
  ASSUME MutexInv, InheritPart, NEW t \in Thread, TakeFails(t)
  PROVE  InheritPart'
<1> DEFINE x == arg[t]
           c == DropWaiter(k, x, t)
<1>1. k' = c.k /\ m' = c.m /\ pc[t] = "woken"
  BY DEF TakeFails, At, Become
<1>2. x \in Mutexes /\ Taken /\ m.owner \in [Mutexes -> Thread \union {None}]
  BY <1>1, MutexTypes DEF MutexInv, ArgPart, InCall
<1> HIDE DEF x
<1>3. m.owner[x] \in Live \union {None}
  BY <1>2 DEF MutexInv, OwnerPart, OwnerOK, Live
<1>4. AllInherit(c.k, c.m, None)
  BY <1>2, <1>3, LiveChain, MutexFollowed, DropInherits DEF InheritPart
<1> QED
  BY <1>1, <1>4 DEF InheritPart

LEMMA SetCeilingInherits ==
  ASSUME MutexInv, InheritPart, NEW t \in Thread, NEW x \in Mutexes, NEW p \in Ceiling,
         SetCeiling(t, x, p)
  PROVE  InheritPart'
<1> DEFINE mm == [m EXCEPT !.ceiling[x] = p]
           c == IF m.owner[x] = None THEN [k |-> k, m |-> mm] ELSE RefreshOwner(k, mm, x)
<1>1. k' = c.k /\ m' = c.m
  BY DEF SetCeiling, Become
<1>2. m \in MutexState /\ Taken /\ p \in Prio
  BY MutexTypes, MutexAssumption DEF MutexInv
<1>3. mm \in MutexState /\ mm.owner = m.owner /\ mm.priority = m.priority
  BY <1>2 DEF MutexState
<1> HIDE DEF mm
<1>4. ChainFits(k, mm, pend, Live) /\ Followed(k, mm, pend) /\ AllInherit(k, mm, None)
  BY <1>3, LiveChain, MutexFollowed
     DEF ChainFits, Followed, InheritPart, AllInherit, Inherits
<1>5. CASE m.owner[x] = None
  <2>1. c.k = k /\ c.m = mm
    BY <1>5
  <2> HIDE DEF c
  <2> QED BY <1>1, <1>4, <2>1 DEF InheritPart
<1>6. CASE m.owner[x] # None
  <2>1. mm.owner[x] \in Live
    <3>1. m.owner[x] \in Thread
      BY <1>2, <1>6 DEF MutexState
    <3> QED BY <1>3, <3>1 DEF MutexInv, OwnerPart, OwnerOK, Live
  <2>2. LET d == RefreshOwner(k, mm, x) IN AllInherit(d.k, d.m, None)
    BY <1>2, <1>4, <2>1, RefreshInherits
  <2>3. c = RefreshOwner(k, mm, x)
    BY <1>6
  <2> QED BY <1>1, <2>2, <2>3 DEF InheritPart
<1> QED
  BY <1>5, <1>6

LEMMA DetachCloseInherits ==
  ASSUME MutexInv, InheritPart, NEW t \in Thread, DetachClose(t)
  PROVE  InheritPart'
<1>0. PICK u \in Thread : pc[t] = "detach" /\ u = arg[t] /\ k.cur = t
  BY DEF DetachClose, At, MutexInv, ArgPart
<1> DEFINE closed == [k EXCEPT !.armed = @ \ {u}, !.stat[u] = "close", !.yield = @ \ {u}]
           s == rt_list_remove(closed, u)
           c == IF pend[u] = None THEN [k |-> closed, m |-> m] ELSE DropWaiter(s, pend[u], u)
           n == rt_thread_defunct_enqueue(c.k, u)
<1>1. k' = n /\ m' = c.m
  BY <1>0 DEF DetachClose
<1>2. u \in Deleted /\ KernelFits(k, Deleted) /\ WaitList = Mutexes /\ Taken
      /\ m.owner \in [Mutexes -> Thread \union {None}]
      /\ pend \in [Thread -> Mutexes \union {None}]
  BY <1>0, MutexTypes DEF Deleted, MutexInv, KernelPart
<1>3. ClosedBy(closed, k, u) /\ ClosedBy(s, k, u)
  BY <1>2, CloseFits
<1>4. Thins(closed, k)
  <2>1. closed.wait = k.wait /\ closed.prio = k.prio
    BY IpcHolds DEF KernelState
  <2> HIDE DEF closed
  <2> QED BY <2>1, SameThins
<1> HIDE DEF closed
<1>5. Thins(s, k)
  <2>1. ListFacts(closed)
    BY <1>3 DEF ClosedBy, Linked
  <2>2. Thins(s, closed)
    BY <2>1, RemoveThins
  <2> QED BY <1>4, <2>2, ThinsOn
<1> HIDE DEF s
<1>6. AllInherit(c.k, c.m, None) /\ c.k \in KernelState
  <2>1. CASE pend[u] = None
    <3>1. c.k = closed /\ c.m = m
      BY <2>1
    <3> HIDE DEF c
    <3> QED BY <1>3, <1>4, <3>1, ThinnerInherits DEF InheritPart, ClosedBy, Linked, ListFacts
  <2>2. CASE pend[u] # None
    <3> DEFINE x == pend[u]
    <3>1. x \in Mutexes /\ c = DropWaiter(s, x, u)
      BY <1>2, <2>2
    <3> HIDE DEF x, c
    <3>2. m.owner[x] \in Live \union {None}
      BY <1>2, <3>1 DEF MutexInv, OwnerPart, OwnerOK, Live
    <3>3. ChainFits(s, m, pend, Live) /\ AllInherit(s, m, None)
      BY <1>2, <1>3, <1>5, ClosedChain, ThinnerInherits DEF InheritPart
    <3>4. Followed(s, m, pend)
      BY <1>2, <1>3, MutexFollowed DEF Followed, ClosedBy
    <3>5. m.owner[x] = None => s.wait[x] = <<>> /\ m.priority[x] = NoPrio
      <4>1. ListFacts(s) /\ \A v \in Thread : On(s, x, v) => On(k, x, v)
        BY <1>2, <1>3, <3>1 DEF ClosedBy, Linked
      <4> QED BY <3>1, <4>1, FreeHasNoWaiters
    <3>6. Spreads(c.k, c.m, s, m)
      BY <1>2, <3>1, <3>2, <3>3, <3>5, DropSpreads
    <3>7. AllInherit(c.k, c.m, None)
      BY <1>2, <3>1, <3>2, <3>3, <3>4, DropInherits
    <3> QED BY <3>6, <3>7 DEF Spreads, Shuffled, ListFacts
  <2> QED BY <2>1, <2>2
<1> HIDE DEF c
<1>7. n.wait = c.k.wait /\ n.prio = c.k.prio
  BY <1>6 DEF rt_thread_defunct_enqueue, KernelState
<1>8. AllInherit(n, c.m, None)
  BY <1>6, <1>7, SameThins, ThinnerInherits
<1> QED
  BY <1>1, <1>8 DEF InheritPart

\* The change of a thread that does not wait goes no further.
LEMMA UpdateStays ==
  ASSUME NEW s, NEW mm, NEW pd, NEW t \in Thread, NEW q, s \in KernelState,
         s.stat[t] \notin {"ready", "suspend"}
  PROVE  LET c == UpdatePriority(s, mm, pd, t, q)
         IN  c.k = [s EXCEPT !.prio[t] = q] /\ c.m = mm
<1> DEFINE r == [s EXCEPT !.prio[t] = q]
           start == [k |-> ChangePriority(s, t, q), m |-> mm, thread |-> t]
           stop == [k |-> r, m |-> mm, thread |-> None]
           n == 2 * Cardinality(Thread)
           g == CHOOSE g : g = [i \in 0..n |-> IF i = 0 THEN start
                                               ELSE Propagate(pd, g[i - 1])]
<1>1. n \in Nat \ {0}
  <2>1. Cardinality(Thread) \in Nat /\ Cardinality(Thread) # 0
    BY ThreadAssumption, FS_CardinalityType, FS_EmptySet
  <2> QED BY <2>1
<1>2. UpdatePriority(s, mm, pd, t, q) = g[n]
  BY DEF UpdatePriority
<1>3. ChangePriority(s, t, q) = r /\ r.stat = s.stat
  BY DEF ChangePriority, KernelState
<1> HIDE DEF r
<1>4. Propagate(pd, start) = stop
  <2>1. Propagate(pd, start) = [start EXCEPT !.thread = None]
    BY <1>3 DEF Propagate
  <2> QED BY <1>3, <2>1
<1>5. Propagate(pd, stop) = stop
  BY DEF Propagate
<1> HIDE DEF start, stop, n
<1>6. g = [i \in 0..n |-> IF i = 0 THEN start ELSE Propagate(pd, g[i - 1])]
  BY <1>1, PriorityTurnsExist
<1> HIDE DEF g
<1>7. g[0] = start /\ \A i \in 1..n : g[i] = Propagate(pd, g[i - 1])
  BY <1>1, <1>6
<1> DEFINE Bad == {i \in 1..n : g[i] # stop}
<1>8. Bad = {}
  <2> SUFFICES ASSUME Bad # {} PROVE FALSE
    OBVIOUS
  <2> DEFINE j == Min(Bad)
  <2>1. Bad \in SUBSET Nat
    BY <1>1
  <2>2. j \in Bad /\ \A i \in Bad : j <= i
    <3> HIDE DEF Bad
    <3> QED BY <2>1, MinProperties
  <2> HIDE DEF j
  <2>3. j \in 1..n /\ g[j] # stop /\ g[j] = Propagate(pd, g[j - 1])
    BY <1>7, <2>2
  <2>4. j # 1
    BY <1>4, <1>7, <2>3
  <2>5. j - 1 \in 1..n /\ j - 1 \notin Bad
    <3> HIDE DEF Bad
    <3> QED BY <1>1, <2>2, <2>3, <2>4
  <2> QED BY <1>5, <2>3, <2>5
<1>9. g[n] = stop
  BY <1>1, <1>8
<1> QED
  BY <1>2, <1>9 DEF stop, r

\* A mutex without an owner has no waiters, so its new owner is as urgent as any.
LEMMA TakeFreeInherits ==
  ASSUME MutexInv, InheritPart, NEW t \in Thread, NEW x \in Mutexes, TakeFree(t, x)
  PROVE  InheritPart'
<1> DEFINE mine == [m EXCEPT !.owner[x] = t, !.priority[x] = NoPrio, !.hold[x] = 1]
           s == [k EXCEPT !.err[t] = "EOK"]
           c == UpdatePriority(s, mine, pend, t, m.ceiling[x])
<1>1. /\ k.cur = t /\ pc[t] = "run" /\ t # Idle /\ m.owner[x] = None
      /\ IF m.ceiling[x] < k.prio[t] THEN k' = c.k /\ m' = c.m ELSE k' = s /\ m' = mine
  BY DEF TakeFree, At, Become
<1>2. k.stat[t] = "running" /\ \A y \in Mutexes : ~On(k, y, t)
  BY <1>1, RunnerFacts
<1>3. /\ m \in MutexState /\ k \in KernelState /\ k.prio \in [Thread -> Prio]
      /\ None \notin Thread
  BY MutexTypes DEF MutexInv
<1>4. /\ mine.owner = [m.owner EXCEPT ![x] = t]
      /\ mine.priority = [m.priority EXCEPT ![x] = NoPrio]
  BY <1>3 DEF MutexState
<1>5. s \in KernelState /\ s.wait = k.wait /\ s.prio = k.prio /\ s.stat = k.stat
  BY <1>3 DEF KernelState, Error
<1> HIDE DEF mine, s
<1>6. /\ m' = mine /\ k'.wait = k.wait
      /\ \A u \in Thread : u # t => k'.prio[u] = k.prio[u]
      /\ k'.prio[t] \in Nat /\ k'.prio[t] <= k.prio[t] /\ k.prio[t] \in Nat
  <2>1. k.prio[t] \in Nat /\ NoPrio \in Nat /\ k.prio[t] < NoPrio
    BY <1>3, PrioAssumption, MutexAssumption
  <2>2. CASE m.ceiling[x] < k.prio[t]
    <3>1. m.ceiling[x] \in Nat
      <4>1. m.ceiling[x] \in Prio \union {NoPrio}
        BY <1>3 DEF MutexState
      <4> QED BY <4>1, PrioAssumption, MutexAssumption
    <3>2. c.k = [s EXCEPT !.prio[t] = m.ceiling[x]] /\ c.m = mine
      <4>1. s.stat[t] \notin {"ready", "suspend"}
        BY <1>2, <1>5
      <4> QED BY <1>5, <4>1, UpdateStays
    <3>3. c.k.wait = s.wait /\ c.k.prio = [s.prio EXCEPT ![t] = m.ceiling[x]]
      BY <1>5, <3>2 DEF KernelState
    <3>4. k' = c.k /\ m' = c.m
      BY <1>1, <2>2
    <3> HIDE DEF c
    <3>5. k'.wait = k.wait /\ k'.prio = [k.prio EXCEPT ![t] = m.ceiling[x]] /\ m' = mine
      BY <1>5, <3>2, <3>3, <3>4
    <3>6. k'.prio[t] = m.ceiling[x] /\ \A u \in Thread : u # t => k'.prio[u] = k.prio[u]
      BY <1>3, <3>5
    <3> QED BY <2>1, <2>2, <3>1, <3>5, <3>6
  <2>3. CASE ~(m.ceiling[x] < k.prio[t])
    BY <1>1, <1>5, <2>1, <2>3
  <2> QED BY <2>2, <2>3
<1> HIDE DEF c
<1>7. \A y \in Mutexes, u \in Thread : On(k', y, u) <=> On(k, y, u)
  BY <1>6 DEF On
<1> SUFFICES ASSUME NEW y \in Mutexes PROVE Inherits(k', m', y, None)
  BY DEF InheritPart, AllInherit
<1>8. Inherits(k, m, y, None)
  BY DEF InheritPart, AllInherit
<1>9. \A u, v \in Thread : Precedes(k'.wait[y], u, v) => k'.prio[u] <= k'.prio[v]
  <2>1. \A u, v : Precedes(k.wait[y], u, v) => u # t /\ v # t
    BY <1>2 DEF Precedes, On, Contains
  <2> QED BY <1>3, <1>6, <1>8, <2>1 DEF Inherits
<1>10. CASE y = x
  <2>1. m'.owner[y] = t /\ m'.priority[y] = NoPrio
    BY <1>3, <1>4, <1>6, <1>10 DEF MutexState
  <2>2. \A u \in Thread : ~On(k', y, u)
    BY <1>1, <1>7, <1>10 DEF MutexInv, WaitPart, WaitOK
  <2>3. k'.prio[t] <= NoPrio
    BY <1>3, <1>6, PrioAssumption, MutexAssumption
  <2> QED BY <1>9, <2>1, <2>2, <2>3 DEF Inherits
<1>11. CASE y # x
  <2>1. m'.owner[y] = m.owner[y] /\ m'.priority[y] = m.priority[y]
    BY <1>3, <1>4, <1>6, <1>11 DEF MutexState
  <2>2. \A u \in Thread : On(k', y, u) => m'.priority[y] <= k'.prio[u]
    BY <1>2, <1>3, <1>6, <1>7, <1>8, <2>1 DEF Inherits
  <2>3. m'.owner[y] # None => k'.prio[m'.owner[y]] <= m'.priority[y]
    <3>1. m.priority[y] \in Nat /\ m.owner[y] \in Thread \union {None}
      <4>1. m.priority[y] \in Prio \union {NoPrio} /\ m.owner[y] \in Thread \union {None}
        BY <1>3 DEF MutexState
      <4> QED BY <4>1, PrioAssumption, MutexAssumption
    <3>2. CASE m.owner[y] = t
      BY <1>3, <1>6, <1>8, <2>1, <3>1, <3>2 DEF Inherits
    <3>3. CASE m.owner[y] # t
      BY <1>6, <1>8, <2>1, <3>1, <3>3 DEF Inherits
    <3> QED BY <3>2, <3>3
  <2> QED BY <1>9, <2>2, <2>3 DEF Inherits
<1> QED
  BY <1>10, <1>11

\* The running thread joins the waiters at the place its priority gives it.
LEMMA JoinsWaiters ==
  ASSUME NEW s, IpcInv(s), NEW t \in Thread, t = s.cur, t # Idle, s.lock = 0,
         s.stat[t] = "running", NEW x \in WaitList
  PROVE  LET r == SuspendOnPrio([s EXCEPT !.err[t] = "EOK"], x, t)
         IN  /\ r.prio = s.prio
             /\ r.wait = [s.wait EXCEPT ![x] = InsertAt(@, PrioPosition(@, t, s.prio), t)]
<1> DEFINE a == [s EXCEPT !.err[t] = "EOK"]
           u == rt_thread_suspend(a, t)
           r == [u EXCEPT !.wait[x] = InsertAt(@, PrioPosition(@, t, u.prio), t)]
<1>1. /\ IpcInv(a) /\ a.wait = s.wait /\ a.stat = s.stat /\ a.cur = s.cur
      /\ a.prio = s.prio /\ a.lock = s.lock
  <2>1. GivenError(a, s, t, "EOK")
    BY DEF GivenError
  <2> HIDE DEF a
  <2>2. IpcInv(a) /\ SameLists(a, s) /\ a.stat = s.stat /\ a.cur = s.cur
        /\ a.prio = s.prio /\ a.lock = s.lock
    BY <2>1, EokGiven, ZenonT(60)
  <2> QED BY <2>2 DEF SameLists
<1>2. SuspendOnPrio(a, x, t) = r
  BY DEF SuspendOnPrio
<1> HIDE DEF a
<1>3. /\ IpcInv(u) /\ u.prio = a.prio /\ u.wait = a.wait
  <2>1. a.cur = t /\ a.stat[a.cur] = "running" /\ a.cur # Idle /\ a.lock = 0
    BY <1>1
  <2>2. LET v == rt_thread_suspend(a, a.cur)
        IN  IpcInv(v) /\ v.prio = a.prio /\ v.wait = a.wait
    BY <1>1, <2>1, SuspendThread
  <2> QED BY <2>1, <2>2
<1>4. u \in KernelState
  BY <1>3 DEF IpcInv, KernelInv, ListFacts
<1> HIDE DEF u
<1>5. r.prio = u.prio
      /\ r.wait = [u.wait EXCEPT ![x] = InsertAt(@, PrioPosition(@, t, u.prio), t)]
  BY <1>4 DEF KernelState
<1> HIDE DEF r
<1> QED
  BY <1>1, <1>2, <1>3, <1>5 DEF a

LEMMA TakeWaitInherits ==
  ASSUME MutexInv, InheritPart, NEW t \in Thread, NEW x \in Mutexes, NEW timed \in BOOLEAN,
         TakeWait(t, x, timed)
  PROVE  InheritPart'
<1> DEFINE p == k.prio[t]
           s == SuspendOnPrio([k EXCEPT !.err[t] = "EOK"], x, t)
           mm == IF p < m.priority[x] THEN [m EXCEPT !.priority[x] = p] ELSE m
           o == m.owner[x]
           raise == p < m.priority[x] /\ p < s.prio[o]
           c == IF raise THEN UpdatePriority(s, mm, pend', o, p) ELSE [k |-> s, m |-> mm]
           a == [c.k EXCEPT !.armed = @ \union {t}]
<1>1. /\ k.cur = t /\ pc[t] = "run" /\ t # Idle /\ o \notin {None, t}
      /\ pend' = [pend EXCEPT ![t] = x]
      /\ m' = c.m /\ k' = IF timed THEN a ELSE c.k
  BY DEF TakeWait, At
<1>2. /\ KernelFits(k, Deleted) /\ k.stat[t] = "running"
      /\ \A y \in Mutexes : ~On(k, y, t)
  BY <1>1, RunnerFacts
<1>3. /\ m \in MutexState /\ Taken /\ WaitList = Mutexes /\ k \in KernelState
      /\ pend \in [Thread -> Mutexes \union {None}] /\ k.prio \in [Thread -> Prio]
      /\ k.stat \in [Thread -> Stat] /\ None \notin Thread \union Mutexes
      /\ IpcInv(k) /\ k.lock = 0 /\ k.wait \in [Mutexes -> Seq(Thread)]
  BY <1>2, MutexTypes DEF MutexInv, KernelFits, KernelState
<1>4. o \in Live /\ o \in Thread /\ \A y \in Mutexes : m.owner[y] \in Thread \union {None}
  <2>1. o \in Thread /\ OwnerOK(x)
    BY <1>1, <1>3 DEF MutexState, MutexInv, OwnerPart
  <2> QED BY <1>3, <2>1 DEF OwnerOK, Live, MutexState
<1>5. KernelFits(s, Deleted) /\ Waits(s, k, x, t, "EOK", FALSE)
  BY <1>1, <1>2, <1>3, WaitFits
<1>6. s.prio = k.prio
      /\ s.wait = [k.wait EXCEPT ![x] = InsertAt(@, PrioPosition(@, t, k.prio), t)]
  <2>1. x \in WaitList /\ t = k.cur /\ k.stat[t] = "running" /\ IpcInv(k) /\ k.lock = 0
        /\ t # Idle
    BY <1>1, <1>2, <1>3
  <2>2. LET r == SuspendOnPrio([k EXCEPT !.err[t] = "EOK"], x, t)
        IN  /\ r.prio = k.prio
            /\ r.wait = [k.wait EXCEPT ![x] = InsertAt(@, PrioPosition(@, t, k.prio), t)]
    BY <2>1, JoinsWaiters
  <2> QED BY <2>2
<1>7. /\ mm \in MutexState /\ mm.owner = m.owner
      /\ \A y \in Mutexes : y # x => mm.priority[y] = m.priority[y]
      /\ mm.priority[x] = IF p < m.priority[x] THEN p ELSE m.priority[x]
  BY <1>3 DEF MutexState
<1>8. p \in Nat /\ k.prio[o] \in Nat
      /\ \A y \in Mutexes : m.priority[y] \in Nat
      /\ \A u \in Thread : k.prio[u] \in Nat
  <2>1. \A y \in Mutexes : m.priority[y] \in Prio \union {NoPrio}
    BY <1>3 DEF MutexState
  <2> QED BY <1>3, <1>4, <2>1, PrioAssumption, MutexAssumption
<1> HIDE DEF s, mm, a
<1>9. \A y \in Mutexes, u \in Thread : On(s, y, u) <=> On(k, y, u) \/ (y = x /\ u = t)
  BY <1>3, <1>5 DEF Waits
<1>10. ChainFits(s, mm, pend', Live)
  <2>1. Linked(s) /\ \A u \in Thread : s.stat[u] = "ready" => InReadyList(s, u) \/ u \in Deleted
    BY <1>5, IpcLinked DEF KernelFits
  <2>2. \A u \in Thread : u # t => s.stat[u] = k.stat[u]
    BY <1>3, <1>5 DEF Waits
  <2> QED BY <1>1, <1>4, <1>7, <1>9, <2>1, <2>2, WaitingChain
<1>11. Followed(s, mm, pend')
  <2>1. Followed(k, m, pend)
    BY MutexFollowed
  <2>2. pend'[t] = x /\ \A u \in Thread : u # t => pend'[u] = pend[u]
    BY <1>1, <1>3
  <2> QED BY <1>1, <1>2, <1>7, <1>9, <2>1, <2>2 DEF Followed
\* All but the owner of x is in order, and the owner too if it is not raised.
<1>12. ASSUME NEW y \in Mutexes
       PROVE  /\ \A u, v \in Thread : Precedes(s.wait[y], u, v) => s.prio[u] <= s.prio[v]
              /\ \A u \in Thread : On(s, y, u) => mm.priority[y] <= s.prio[u]
              /\ y # x /\ m.owner[y] # None => s.prio[m.owner[y]] <= mm.priority[y]
  <2>1. Inherits(k, m, y, None)
    BY DEF InheritPart, AllInherit
  <2>2. CASE y # x
    <3>1. s.wait[y] = k.wait[y]
      BY <1>3, <1>6, <2>2
    <3> QED BY <1>3, <1>6, <1>7, <1>9, <2>1, <2>2, <3>1 DEF Inherits
  <2>3. CASE y = x
    <3>1. s.wait[x] = InsertAt(k.wait[x], PrioPosition(k.wait[x], t, k.prio), t)
      BY <1>3, <1>6
    <3>2. \A u, v \in Thread : Precedes(s.wait[x], u, v) => k.prio[u] <= k.prio[v]
      <4>1. k.wait[x] \in Seq(Thread) /\ ~Contains(k.wait[x], t)
        BY <1>2, <1>3 DEF On
      <4>2. \A u, v \in Thread : Precedes(k.wait[x], u, v) => k.prio[u] <= k.prio[v]
        BY <1>3, <2>1, <2>3 DEF Inherits
      <4> DEFINE q == k.wait[x]
                 r == InsertAt(q, PrioPosition(q, t, k.prio), t)
      <4>3. q \in Seq(Thread) /\ ~Contains(q, t)
            /\ \A u, v \in Thread : Precedes(q, u, v) => k.prio[u] <= k.prio[v]
        BY <4>1, <4>2
      <4> HIDE DEF q
      <4>4. \A u, v \in Thread : Precedes(r, u, v) => k.prio[u] <= k.prio[v]
        BY <1>3, <4>3, InsertInOrder
      <4> QED BY <3>1, <4>4 DEF q
    <3>3. ASSUME NEW u \in Thread, On(s, x, u) PROVE mm.priority[x] <= k.prio[u]
      <4>1. CASE u = t
        BY <1>7, <1>8, <4>1
      <4>2. CASE u # t
        <5>1. m.priority[x] <= k.prio[u]
          BY <1>3, <1>9, <2>1, <2>3, <3>3, <4>2 DEF Inherits
        <5> QED BY <1>7, <1>8, <5>1
      <4> QED BY <4>1, <4>2
    <3> QED BY <1>6, <2>3, <3>2, <3>3
  <2> QED BY <2>2, <2>3
<1>13. AllInherit(c.k, c.m, None)
  <2>1. CASE raise
    <3>1. \A y \in Mutexes : m.owner[y] = o => p <= mm.priority[y]
      <4> SUFFICES ASSUME NEW y \in Mutexes, m.owner[y] = o PROVE p <= mm.priority[y]
        OBVIOUS
      <4>1. CASE y = x
        BY <1>7, <1>8, <2>1, <4>1
      <4>2. CASE y # x
        <5>1. k.prio[o] <= m.priority[y]
          BY <1>3, <1>4, <1>6, <1>7, <1>12, <4>2
        <5> QED BY <1>6, <1>7, <1>8, <2>1, <4>2, <5>1
      <4> QED BY <4>1, <4>2
    <3>2. Unsettled(s, mm, o, p)
      BY <1>7, <1>12, <3>1 DEF Unsettled
    <3>3. p \in Prio /\ c = UpdatePriority(s, mm, pend', o, p)
      BY <1>3, <2>1
    <3> HIDE DEF c, p, o
    <3>4. LET d == UpdatePriority(s, mm, pend', o, p) IN AllInherit(d.k, d.m, None)
      BY <1>3, <1>4, <1>10, <1>11, <3>2, <3>3, UpdateInherits
    <3> QED BY <3>3, <3>4
  <2>2. CASE ~raise
    <3>1. c.k = s /\ c.m = mm
      BY <2>2
    <3>2. s.prio[o] <= mm.priority[x]
      <4>1. k.prio[o] <= m.priority[x]
        BY <1>1 DEF InheritPart, AllInherit, Inherits
      <4> QED BY <1>6, <1>7, <1>8, <2>2, <4>1
    <3> HIDE DEF c
    <3>3. AllInherit(s, mm, None)
      BY <1>7, <1>12, <3>2 DEF AllInherit, Inherits
    <3> QED BY <3>1, <3>3
  <2> QED BY <2>1, <2>2
<1>14. c.k \in KernelState
  <2>1. Spreads(c.k, c.m, s, mm)
    <3>1. CASE raise
      BY <1>3, <1>4, <1>10, <3>1, UpdateSpreads
    <3>2. CASE ~raise
      <4>1. c.k = s /\ c.m = mm /\ Linked(s)
        BY <1>10, <3>2 DEF ChainFits
      <4> HIDE DEF c
      <4> QED BY <1>7, <4>1, SpreadsSelf
    <3> QED BY <3>1, <3>2
  <2> HIDE DEF c
  <2> QED BY <2>1 DEF Spreads, Shuffled, ListFacts
<1> HIDE DEF c
<1>15. Thins(k', c.k)
  <2>1. a.wait = c.k.wait /\ a.prio = c.k.prio
    BY <1>14 DEF KernelState, a
  <2> QED BY <1>1, <2>1, SameThins
<1> QED
  BY <1>1, <1>13, <1>15, ThinnerInherits DEF InheritPart

\* The owner falls no deeper than the waiters of its other mutexes let it.
LEMMA LoweredInherits ==
  ASSUME MutexInv, InheritPart, NEW t \in Thread, NEW x \in Mutexes,
         k.cur = t, pc[t] = "run",
         NEW left, left = [taken EXCEPT ![t] = @ \ {x}],
         NEW s, s = k \/ s = ChangePriority(k, t, MutexPrio(m, left, t)),
         NEW y \in Mutexes
  PROVE  /\ \A u, v \in Thread : Precedes(s.wait[y], u, v) => s.prio[u] <= s.prio[v]
         /\ \A u \in Thread : On(s, y, u) => m.priority[y] <= s.prio[u]
         /\ y # x /\ m.owner[y] # None => s.prio[m.owner[y]] <= m.priority[y]
<1> DEFINE p == MutexPrio(m, left, t)
<1>1. /\ m \in MutexState /\ k \in KernelState /\ k.prio \in [Thread -> Prio]
      /\ Taken /\ None \notin Thread /\ m.owner[y] \in Thread \union {None}
  BY MutexTypes DEF MutexInv
<1>2. Linked(k) /\ \A w \in Mutexes : ~On(k, w, t)
  BY RunnerFacts, IpcLinked DEF KernelFits
<1>3. left \in [Thread -> SUBSET Mutexes] /\ left[t] = taken[t] \ {x}
  BY <1>1 DEF Taken
<1>4. p \in Prio /\ \A z \in left[t] : p <= m.priority[z]
  BY <1>1, <1>3, MutexPrioType, MutexPrioLeast
<1>5. Inherits(k, m, y, None)
  BY DEF InheritPart, AllInherit
<1>6. CASE s = k
  BY <1>1, <1>5, <1>6 DEF Inherits
<1>7. CASE s = ChangePriority(k, t, p)
  <2> HIDE DEF p
  <2>1. s.wait = k.wait /\ s.prio = [k.prio EXCEPT ![t] = p]
    BY <1>2, <1>4, <1>7, ChangeSets
  <2>2. s.prio[t] = p /\ \A u \in Thread : u # t => s.prio[u] = k.prio[u]
    BY <1>1, <2>1
  <2>3. /\ \A u, v : Precedes(s.wait[y], u, v) => u # t /\ v # t
        /\ \A u : On(s, y, u) => On(k, y, u) /\ u # t
    BY <1>2, <2>1 DEF Precedes, On, Contains
  <2>4. \A u, v \in Thread : Precedes(s.wait[y], u, v) => s.prio[u] <= s.prio[v]
    BY <1>1, <1>5, <2>1, <2>2, <2>3 DEF Inherits
  <2>5. \A u \in Thread : On(s, y, u) => m.priority[y] <= s.prio[u]
    BY <1>1, <1>5, <2>2, <2>3 DEF Inherits
  <2>6. ASSUME y # x, m.owner[y] # None PROVE s.prio[m.owner[y]] <= m.priority[y]
    <3>1. CASE m.owner[y] = t
      <4>1. y \in taken[t]
        BY <3>1 DEF MutexInv, OwnerPart, OwnerOK
      <4> QED BY <1>3, <1>4, <2>2, <2>6, <3>1, <4>1
    <3>2. CASE m.owner[y] # t
      BY <1>1, <1>5, <2>2, <2>6, <3>2 DEF Inherits
    <3> QED BY <3>1, <3>2
  <2> QED BY <2>4, <2>5, <2>6
<1> QED
  BY <1>6, <1>7

\* Who gets the mutex was the first of its waiters.
LEMMA ReleaseInherits ==
  ASSUME MutexInv, InheritPart, NEW t \in Thread, NEW x \in Mutexes, Release(t, x)
  PROVE  InheritPart'
<1> DEFINE left == [taken EXCEPT ![t] = @ \ {x}]
           lower == m.ceiling[x] # NoPrio \/ k.prio[t] = m.priority[x]
           s == IF lower THEN ChangePriority(k, t, MutexPrio(m, left, t)) ELSE k
           next == Head(s.wait[x])
           handed == rt_thread_resume(s, next)
           q == FirstPrio(handed, x)
<1>1. /\ k.cur = t /\ pc[t] = "run" /\ m.owner[x] = t
      /\ s.wait[x] # <<>> =>
           k' = handed /\ m' = [m EXCEPT !.owner[x] = next, !.hold[x] = 1, !.priority[x] = q]
      /\ s.wait[x] = <<>> =>
           k' = s /\ m' = [m EXCEPT !.owner[x] = None, !.hold[x] = 0, !.priority[x] = NoPrio]
  BY DEF Release, At
<1>2. s = k \/ s = ChangePriority(k, t, MutexPrio(m, left, t))
  OBVIOUS
<1> HIDE DEF s, lower
<1>3. /\ KernelFits(s, Deleted) /\ ListFacts(s) /\ Unmoved(s, k) /\ s.cur = t
      /\ s.stat = k.stat
  BY <1>1, <1>2, ReleaseLowers
<1>4. \A y \in Mutexes :
        /\ \A u, v \in Thread : Precedes(s.wait[y], u, v) => s.prio[u] <= s.prio[v]
        /\ \A u \in Thread : On(s, y, u) => m.priority[y] <= s.prio[u]
        /\ y # x /\ m.owner[y] # None => s.prio[m.owner[y]] <= m.priority[y]
  BY <1>1, <1>2, LoweredInherits
<1>5. m \in MutexState /\ WaitList = Mutexes /\ None \notin Thread
  BY MutexTypes DEF MutexInv
<1>6. s.prio \in [Thread -> Prio] /\ s.wait[x] \in Seq(Thread)
  BY <1>3, <1>5 DEF ListFacts, KernelState
<1>7. CASE s.wait[x] = <<>>
  <2>1. /\ k' = s /\ m'.owner = [m.owner EXCEPT ![x] = None]
        /\ m'.priority = [m.priority EXCEPT ![x] = NoPrio]
    BY <1>1, <1>5, <1>7 DEF MutexState
  <2>2. \A u : ~On(s, x, u)
    BY <1>7 DEF On, Contains
  <2>3. \A y \in Mutexes : /\ m'.owner[y] = IF y = x THEN None ELSE m.owner[y]
                           /\ y # x => m'.priority[y] = m.priority[y]
    BY <1>5, <2>1 DEF MutexState
  <2> QED BY <1>4, <2>1, <2>2, <2>3 DEF InheritPart, AllInherit, Inherits
<1>8. CASE s.wait[x] # <<>>
  <2>1. next \in Thread /\ On(s, x, next) /\ next = s.wait[x][1] /\ Len(s.wait[x]) \in Nat
    BY <1>6, <1>8, HeadList, HeadTailProperties, LenProperties DEF On
  <2>2. IpcInv(s) /\ s.stat[next] = "suspend" /\ next \notin Deleted
    BY <1>3, <1>5, <2>1 DEF KernelFits, IpcInv, WaitFacts, WaitsSomewhere, On
  <2>3. k' = handed /\ m' = [m EXCEPT !.owner[x] = next, !.hold[x] = 1, !.priority[x] = q]
    BY <1>1, <1>8
  <2> HIDE DEF next
  <2>4. Thins(handed, s) /\ ListFacts(handed)
    <3>1. KernelFits(handed, Deleted)
      BY <1>3, <2>1, <2>2, ResumeFits
    <3> QED BY <2>1, <2>2, <3>1, ResumeThins DEF KernelFits, IpcInv, KernelInv
  <2> HIDE DEF handed
  <2>5. /\ handed.prio = s.prio
        /\ \A y \in Mutexes : 
             /\ \A u, v \in Thread : Precedes(handed.wait[y], u, v) => s.prio[u] <= s.prio[v]
             /\ \A u \in Thread : On(handed, y, u) => On(s, y, u)
    BY <1>4, <1>5, <2>4 DEF Thins
  <2>6. /\ q \in Prio \union {NoPrio}
        /\ \A u \in Thread : On(handed, x, u) => q <= s.prio[u]
        /\ q = NoPrio \/ \E u \in Thread : On(handed, x, u) /\ q = s.prio[u]
    BY <1>5, <2>4, <2>5, FirstPrioType, FirstIsLeast
  <2>7. \A u \in Thread : On(s, x, u) => s.prio[next] <= s.prio[u]
    <3> SUFFICES ASSUME NEW u \in Thread, On(s, x, u) PROVE s.prio[next] <= s.prio[u]
      OBVIOUS
    <3>1. PICK i \in 1..Len(s.wait[x]) : s.wait[x][i] = u
      BY DEF On, Contains
    <3>2. u = next \/ Precedes(s.wait[x], next, u)
      BY <2>1, <3>1 DEF Precedes
    <3>3. s.prio[next] \in Nat
      BY <1>6, <2>1, PrioAssumption
    <3> QED BY <1>4, <2>1, <3>2, <3>3
  <2>8. s.prio[next] <= q
    <3>1. s.prio[next] <= NoPrio
      <4>1. s.prio[next] \in Prio
        BY <1>6, <2>1
      <4>2. \A n \in Prio : n \in Nat /\ NoPrio \in Nat /\ n < NoPrio
        BY PrioAssumption, MutexAssumption
      <4> QED BY <4>1, <4>2
    <3> QED BY <2>5, <2>6, <2>7, <3>1
  <2> HIDE DEF q
  <2>9. \A y \in Mutexes : /\ m'.owner[y] = IF y = x THEN next ELSE m.owner[y]
                           /\ m'.priority[y] = IF y = x THEN q ELSE m.priority[y]
    BY <1>5, <2>3 DEF MutexState
  <2>10. \A y \in Mutexes : Inherits(k', m', y, None)
    <3> SUFFICES ASSUME NEW y \in Mutexes PROVE Inherits(k', m', y, None)
      OBVIOUS
    <3>1. CASE y = x
      BY <1>5, <2>3, <2>5, <2>6, <2>8, <2>9, <3>1 DEF Inherits
    <3>2. CASE y # x
      BY <1>4, <2>3, <2>5, <2>9, <3>2 DEF Inherits
    <3> QED BY <3>1, <3>2
  <2> QED BY <2>10 DEF InheritPart, AllInherit
<1> QED
  BY <1>7, <1>8

LEMMA InheritStep ==
  ASSUME MutexInv, InheritPart, [Next]_vars
  PROVE  InheritPart'
<1>1. ASSUME k' = k, m' = m
      PROVE  InheritPart'
  BY <1>1, SameThins, QuietInherits
<1>2. CASE UNCHANGED vars
  BY <1>1, <1>2 DEF vars
<1>3. CASE Tick
  BY <1>3, TickInherits
<1>4. ASSUME NEW t \in Thread, NEW x \in Mutexes, Take(t, x)
      PROVE  InheritPart'
  BY <1>4, TakeAgainInherits, TakeFreeInherits, TakeWaitInherits DEF Take
<1>5. ASSUME NEW t \in Thread, NEW x \in Mutexes,
             ReleaseInner(t, x) \/ Release(t, x) \/ \E p \in Ceiling : SetCeiling(t, x, p)
      PROVE  InheritPart'
  BY <1>5, ReleaseInnerInherits, ReleaseInherits, SetCeilingInherits
<1>6. ASSUME NEW t \in Thread, Continue(t)
      PROVE  InheritPart'
  <2>1. CASE TakeSchedule(t) \/ Reschedule(t)
    BY <2>1, ScheduleInherits DEF TakeSchedule, Reschedule, ScheduleThen
  <2>2. CASE TakeSucceeds(t) \/ ClearPending(t)
    BY <1>1, <2>2 DEF TakeSucceeds, ClearPending
  <2>3. CASE TakeFails(t) \/ DetachClose(t)
    BY <2>3, TakeFailsInherits, DetachCloseInherits
  <2> QED BY <1>6, <2>1, <2>2, <2>3 DEF Continue
<1>7. ASSUME NEW t \in Thread, Sleep(t) \/ Timeout(t)
      PROVE  InheritPart'
  BY <1>7, SleepInherits, TimeoutInherits
<1>8. ASSUME NEW t \in Thread, NEW u \in Thread, Detach(t, u)
      PROVE  InheritPart'
  BY <1>8, DetachInherits
<1> QED
  BY <1>2, <1>3, <1>4, <1>5, <1>6, <1>7, <1>8 DEF Next

\* Whatever changes a priority (rt_mutex_take, rt_mutex_release,
\* rt_mutex_setprioceiling, _thread_update_priority) leaves every list of waiters
\* in order, and no mutex with a waiter or an owner less urgent than the mutex.
THEOREM InheritPartHolds == Spec => []InheritPart
<1>1. Init => InheritPart
  BY InheritStarts
<1>2. MutexInv /\ InheritPart /\ [Next]_vars => InheritPart'
  BY InheritStep
<1> QED
  BY <1>1, <1>2, MutexInvHolds, PTL DEF Spec

LEMMA InheritanceFollows ==
  ASSUME MutexInv, InheritPart
  PROVE  InheritanceSound
<1>1. /\ k.prio \in [Thread -> Prio] /\ k \in KernelState /\ m \in MutexState
      /\ WaitList = Mutexes /\ None \notin Thread
  BY MutexTypes DEF MutexInv
<1>2. \A x \in Mutexes : Inherits(k, m, x, None)
  BY DEF InheritPart, AllInherit
<1>3. \A x \in Mutexes : k.wait[x] \in Seq(Thread) /\ Len(k.wait[x]) \in Nat
  <2>1. \A x \in Mutexes : k.wait[x] \in Seq(Thread)
    BY <1>1 DEF KernelState
  <2> QED BY <2>1, LenProperties
<1>4. \A x \in Mutexes : \A i \in 1..Len(k.wait[x]) :
        k.wait[x][i] \in Thread /\ On(k, x, k.wait[x][i])
  BY <1>3, ElementOfSeq DEF On, Contains
<1>5. WaitersSorted
  <2> SUFFICES ASSUME NEW x \in Mutexes, NEW i \in 1..Len(k.wait[x]),
                      NEW j \in 1..Len(k.wait[x]), i < j
               PROVE  k.prio[k.wait[x][i]] <= k.prio[k.wait[x][j]]
    BY DEF WaitersSorted
  <2>1. Precedes(k.wait[x], k.wait[x][i], k.wait[x][j])
    BY DEF Precedes
  <2> QED BY <1>1, <1>2, <1>4, <2>1 DEF Inherits
<1>6. OwnerInherits
  <2> SUFFICES ASSUME NEW x \in Mutexes, NEW i \in 1..Len(k.wait[x])
               PROVE  k.prio[m.owner[x]] <= k.prio[k.wait[x][i]]
    BY DEF OwnerInherits
  <2> DEFINE u == k.wait[x][i]
  <2>1. u \in Thread /\ On(k, x, u)
    BY <1>4
  <2> HIDE DEF u
  <2>2. m.owner[x] \in Thread
    BY <1>1, <2>1 DEF MutexInv, WaitPart, WaitOK, MutexState
  <2>3. k.prio[m.owner[x]] <= m.priority[x] /\ m.priority[x] <= k.prio[u]
    BY <1>1, <1>2, <2>1, <2>2 DEF Inherits
  <2>4. k.prio[m.owner[x]] \in Nat /\ m.priority[x] \in Nat /\ k.prio[u] \in Nat
    <3>1. m.priority[x] \in Prio \union {NoPrio}
      BY <1>1 DEF MutexState
    <3> QED BY <1>1, <2>1, <2>2, <3>1, PrioAssumption, MutexAssumption
  <2> QED BY <2>3, <2>4 DEF u
<1> QED
  BY <1>5, <1>6 DEF InheritanceSound

\* No unbounded priority inversion, however many threads and mutexes and however
\* long the chains of owners: waiters stand in the order of the priorities they
\* have now, and an owner runs at least as urgent as every thread that waits for
\* one of its mutexes.
THEOREM InheritanceSoundHolds == Spec => []InheritanceSound
<1>1. MutexInv /\ InheritPart => InheritanceSound
  BY InheritanceFollows
<1> QED
  BY <1>1, MutexInvHolds, InheritPartHolds, PTL
=============================================================================
