-------------------------- MODULE Deferred_proofs --------------------------
(***************************************************************************)
(* Proofs about the work queue and the completion: for any threads, any    *)
(* work and any number of calls, the one list node of a work is on one     *)
(* list at most, delayed work has a timer that runs or is about to be      *)
(* started, the worker does not wait while there is work, nobody sleeps on *)
(* a completion that is done, and only its timer wakes a work function.    *)
(***************************************************************************)
EXTENDS Deferred, Kernel_proofs

-----------------------------------------------------------------------------
(* The invariant of the queue.  It speaks of the queue and of the calls in *)
(* progress only; nothing is needed of the scheduler.                      *)

Caller == Client \union {Worker}

QueueState ==
  [ list    : Seq(Work),
    delayed : Seq(Work),
    current : Work \union {None},
    bound   : SUBSET Work,
    timer   : [Work -> {"none", "stopped", "running"}] ]

Arming(t, x) == pc[t] = "arm" /\ arg[t] = x

TypeInv ==
  /\ pc = [t \in Thread |-> pc[t]]
  /\ arg = [t \in Caller |-> arg[t]]
  /\ wq \in QueueState

\* Each list holds a work once, and no work is on both.
Apart ==
  /\ NoRepeat(wq.list) /\ NoRepeat(wq.delayed)
  /\ \A x : ~(Contains(wq.list, x) /\ Contains(wq.delayed, x))

\* Delayed work knows its queue, has a timer, and somebody to start it.
Armed ==
  \A x : Contains(wq.delayed, x) =>
    /\ x \in wq.bound
    /\ wq.timer[x] # "none"
    /\ wq.timer[x] = "running" \/ \E t \in Caller : Arming(t, x)

WorkInv == TypeInv /\ Apart /\ Armed

\* A step that interrupts nobody between delaying work and starting its timer.
KeepsArming ==
  /\ pc' = [t \in Thread |-> pc'[t]]
  /\ arg' = [t \in Caller |-> arg'[t]]
  /\ \A t \in Caller : pc[t] = "arm" => pc'[t] = "arm" /\ arg'[t] = arg[t]

\* Whoever calls the queue is a thread.
LEMMA CallerIsThread == Caller \subseteq Thread
BY WorkQueueAssumption DEF Caller

\* A thread that is elsewhere goes on.
LEMMA ThreadGoes ==
  ASSUME WorkInv, NEW t \in Thread, NEW l, pc[t] # "arm", Goto(t, l),
         UNCHANGED arg \/ \E y : arg' = [arg EXCEPT ![t] = y]
  PROVE  KeepsArming
<1>1. /\ pc' = [u \in Thread |-> pc'[u]]
      /\ \A u \in Thread : u # t => pc'[u] = pc[u]
  BY DEF WorkInv, TypeInv, Goto
<1>2. /\ arg' = [u \in Caller |-> arg'[u]]
      /\ \A u \in Caller : u # t => arg'[u] = arg[u]
  <2>1. CASE UNCHANGED arg
    BY <2>1 DEF WorkInv, TypeInv
  <2>2. CASE \E y : arg' = [arg EXCEPT ![t] = y]
    BY <2>2 DEF WorkInv, TypeInv
  <2> QED BY <2>1, <2>2
<1> QED
  BY <1>1, <1>2, CallerIsThread DEF KeepsArming

\* Nobody goes anywhere.
LEMMA NobodyGoes ==
  ASSUME WorkInv, UNCHANGED <<pc, arg>>
  PROVE  KeepsArming
BY DEF WorkInv, TypeInv, KeepsArming

\* The lists and the timers stay as they are.
LEMMA QueueKept ==
  ASSUME WorkInv, KeepsArming, wq' \in QueueState,
         wq'.list = wq.list, wq'.delayed = wq.delayed,
         wq'.bound = wq.bound, wq'.timer = wq.timer
  PROVE  WorkInv'
<1>1. TypeInv'
  BY DEF KeepsArming, TypeInv
<1>2. Apart'
  BY DEF WorkInv, Apart
<1>3. Armed'
  <2> SUFFICES ASSUME NEW x, Contains(wq'.delayed, x)
               PROVE  /\ x \in wq'.bound
                      /\ wq'.timer[x] # "none"
                      /\ wq'.timer[x] = "running" \/ \E t \in Caller : Arming(t, x)'
    BY DEF Armed
  <2>1. /\ x \in wq.bound /\ wq.timer[x] # "none"
        /\ wq.timer[x] = "running" \/ \E t \in Caller : Arming(t, x)
    BY DEF WorkInv, Armed
  <2>2. ASSUME NEW t \in Caller, Arming(t, x) PROVE Arming(t, x)'
    BY <2>2 DEF KeepsArming, Arming
  <2> QED BY <2>1, <2>2
<1> QED
  BY <1>1, <1>2, <1>3 DEF WorkInv

\* A step that leaves the queue and its callers alone.
LEMMA StepKept ==
  ASSUME WorkInv, KeepsArming, UNCHANGED wq
  PROVE  WorkInv'
<1>1. wq' \in QueueState
  BY DEF WorkInv, TypeInv
<1> QED
  BY <1>1, QueueKept

-----------------------------------------------------------------------------
(* What the calls do to the queue *)

\* A list member is a member of the set.
LEMMA OnList ==
  ASSUME NEW S, NEW s \in Seq(S), NEW x, Contains(s, x)
  PROVE  x \in S
<1>1. PICK i \in 1..Len(s) : s[i] = x
  BY DEF Contains
<1> QED
  BY <1>1, ElementOfSeq

\* Unlinking takes the work off either list and changes nothing else.
LEMMA UnlinkedWork ==
  ASSUME WorkInv, NEW x
  PROVE  LET u == Unlinked(x)
         IN  /\ u \in QueueState
             /\ u.current = wq.current /\ u.bound = wq.bound /\ u.timer = wq.timer
             /\ NoRepeat(u.list) /\ NoRepeat(u.delayed)
             /\ \A y : Contains(u.list, y) <=> Contains(wq.list, y) /\ y # x
             /\ \A y : Contains(u.delayed, y) <=> Contains(wq.delayed, y) /\ y # x
<1> DEFINE l == RemoveFirst(wq.list, x)
           d == RemoveFirst(wq.delayed, x)
<1>1. wq.list \in Seq(Work) /\ wq.delayed \in Seq(Work)
  BY DEF WorkInv, TypeInv, QueueState
<1>2. NoRepeat(wq.list) /\ NoRepeat(wq.delayed)
  BY DEF WorkInv, Apart
<1>3. /\ l \in Seq(Work) /\ NoRepeat(l)
      /\ \A y : Contains(l, y) <=> Contains(wq.list, y) /\ y # x
  BY <1>1, <1>2, RemoveFirstProperties
<1>4. /\ d \in Seq(Work) /\ NoRepeat(d)
      /\ \A y : Contains(d, y) <=> Contains(wq.delayed, y) /\ y # x
  BY <1>1, <1>2, RemoveFirstProperties
<1> HIDE DEF l, d
<1>5. Unlinked(x) = [wq EXCEPT !.list = l, !.delayed = d]
  BY DEF Unlinked, l, d
<1>6. wq \in QueueState
  BY DEF WorkInv, TypeInv
<1>7. /\ Unlinked(x) \in QueueState
      /\ Unlinked(x).list = l /\ Unlinked(x).delayed = d
      /\ Unlinked(x).current = wq.current /\ Unlinked(x).bound = wq.bound
      /\ Unlinked(x).timer = wq.timer
  BY <1>3, <1>4, <1>5, <1>6 DEF QueueState
<1> QED
  BY <1>3, <1>4, <1>7

\* Work is taken off its list and, unless it is dropped, put on the list of
\* work to do: the delayed work that is left stays armed.
LEMMA WorkMoved ==
  ASSUME WorkInv, KeepsArming, NEW x, wq' \in QueueState,
         NoRepeat(wq'.list), NoRepeat(wq'.delayed),
         \A y : Contains(wq'.list, y) => (Contains(wq.list, y) /\ y # x) \/ y = x,
         \A y : Contains(wq'.delayed, y) => Contains(wq.delayed, y) /\ y # x,
         \A y \in Work : y # x => /\ y \in wq.bound => y \in wq'.bound
                                  /\ wq'.timer[y] = wq.timer[y]
  PROVE  WorkInv'
<1>1. TypeInv'
  BY DEF KeepsArming, TypeInv
<1>2. Apart'
  BY DEF WorkInv, Apart
<1>3. Armed'
  <2> SUFFICES ASSUME NEW y, Contains(wq'.delayed, y)
               PROVE  /\ y \in wq'.bound
                      /\ wq'.timer[y] # "none"
                      /\ wq'.timer[y] = "running" \/ \E t \in Caller : Arming(t, y)'
    BY DEF Armed
  <2>1. Contains(wq.delayed, y) /\ y # x
    OBVIOUS
  <2>2. wq.delayed \in Seq(Work)
    BY DEF WorkInv, TypeInv, QueueState
  <2>3. y \in Work
    BY <2>1, <2>2, OnList
  <2>4. /\ y \in wq.bound /\ wq.timer[y] # "none"
        /\ wq.timer[y] = "running" \/ \E t \in Caller : Arming(t, y)
    BY <2>1 DEF WorkInv, Armed
  <2>5. ASSUME NEW t \in Caller, Arming(t, y) PROVE Arming(t, y)'
    BY <2>5 DEF KeepsArming, Arming
  <2> QED BY <2>1, <2>3, <2>4, <2>5
<1> QED
  BY <1>1, <1>2, <1>3 DEF WorkInv

\* Linked at the tail or at the head of the list of work to do.
LEMMA LinkedStep ==
  ASSUME WorkInv, KeepsArming, NEW x \in Work, NEW l, NEW b,
         l = Append(Unlinked(x).list, x) \/ l = Cons(x, Unlinked(x).list),
         b = wq.bound \/ b = wq.bound \union {x},
         wq' = [Unlinked(x) EXCEPT !.list = l, !.bound = b]
  PROVE  WorkInv'
<1> DEFINE u == Unlinked(x)
<1>1. /\ u \in QueueState /\ u.bound = wq.bound /\ u.timer = wq.timer
      /\ NoRepeat(u.list) /\ NoRepeat(u.delayed)
      /\ \A y : Contains(u.list, y) <=> Contains(wq.list, y) /\ y # x
      /\ \A y : Contains(u.delayed, y) <=> Contains(wq.delayed, y) /\ y # x
  BY UnlinkedWork
<1>2. /\ wq' = [u EXCEPT !.list = l, !.bound = b]
      /\ l = Append(u.list, x) \/ l = Cons(x, u.list)
  OBVIOUS
<1> HIDE DEF u
<1>3. u.list \in Seq(Work)
  BY <1>1 DEF QueueState
<1>4. /\ l \in Seq(Work) /\ NoRepeat(l)
      /\ \A y : Contains(l, y) => (Contains(wq.list, y) /\ y # x) \/ y = x
  <2>1. CASE l = Append(u.list, x)
    BY <1>1, <1>3, <2>1, AppendList
  <2>2. CASE l = Cons(x, u.list)
    BY <1>1, <1>3, <2>2, ConsList
  <2> QED BY <1>2, <2>1, <2>2
<1>5. b \in SUBSET Work /\ wq.bound \subseteq b
  BY <1>1 DEF QueueState
<1>6. /\ wq' \in QueueState
      /\ wq'.list = l /\ wq'.bound = b
      /\ wq'.delayed = u.delayed /\ wq'.timer = u.timer
  BY <1>1, <1>2, <1>4, <1>5 DEF QueueState
<1> QED
  BY <1>1, <1>4, <1>5, <1>6, WorkMoved

\* Submitting without a delay unlinks the work and links it again.
LEMMA SubmittedStep ==
  ASSUME WorkInv, KeepsArming, NEW x \in Work, wq' = Submitted(x) \/ wq' = Hastened(x)
  PROVE  WorkInv'
<1> DEFINE u == Unlinked(x)
           c == Cons(x, u.list)
<1>1. u \in QueueState /\ u.bound = wq.bound
  BY UnlinkedWork
<1>2. CASE wq' = Submitted(x)
  <2>1. wq' = [u EXCEPT !.list = Append(u.list, x), !.bound = u.bound \union {x}]
    BY <1>2 DEF Submitted
  <2> QED BY <1>1, <2>1, LinkedStep
<1>3. CASE wq' = Hastened(x)
  <2>1. wq' = [u EXCEPT !.list = c]
    BY <1>3 DEF Hastened
  <2>2. wq' = [u EXCEPT !.list = c, !.bound = u.bound]
    <3> HIDE DEF u, c
    <3> QED BY <1>1, <2>1 DEF QueueState
  <2> QED BY <1>1, <2>2, LinkedStep
<1> QED
  BY <1>2, <1>3

\* Cancelling unlinks the work and stops its timer.
LEMMA CancelledStep ==
  ASSUME WorkInv, KeepsArming, NEW x, wq' = Cancelled(x)
  PROVE  WorkInv'
<1> DEFINE u == Unlinked(x)
<1>1. /\ u \in QueueState /\ u.bound = wq.bound /\ u.timer = wq.timer
      /\ NoRepeat(u.list) /\ NoRepeat(u.delayed)
      /\ \A y : Contains(u.list, y) <=> Contains(wq.list, y) /\ y # x
      /\ \A y : Contains(u.delayed, y) <=> Contains(wq.delayed, y) /\ y # x
  BY UnlinkedWork
<1> DEFINE m == [u.timer EXCEPT ![x] = "none"]
           b == u.bound \ {x}
<1>2. wq' = [u EXCEPT !.timer = m, !.bound = b]
  BY DEF Cancelled
<1> HIDE DEF u
<1>3. /\ m \in [Work -> {"none", "stopped", "running"}]
      /\ \A y \in Work : y # x => m[y] = u.timer[y]
  BY <1>1 DEF QueueState
<1> HIDE DEF m
<1>4. /\ wq' \in QueueState
      /\ wq'.list = u.list /\ wq'.delayed = u.delayed
      /\ wq'.bound = b /\ wq'.timer = m
  BY <1>1, <1>2, <1>3 DEF QueueState
<1> QED
  BY <1>1, <1>3, <1>4, WorkMoved

\* The timer moves the work to the list of work to do.
LEMMA ExpiredStep ==
  ASSUME WorkInv, NEW x \in Work, Expired(x)
  PROVE  WorkInv'
<1>1. KeepsArming
  BY NobodyGoes DEF Expired
<1>2. CASE UNCHANGED wq
  BY <1>1, <1>2, StepKept
<1>3. CASE ~UNCHANGED wq
  <2> DEFINE u == Unlinked(x)
             l == IF wq.current = x THEN u.list ELSE Append(u.list, x)
  <2>1. /\ u \in QueueState /\ u.bound = wq.bound /\ u.timer = wq.timer
        /\ NoRepeat(u.list) /\ NoRepeat(u.delayed)
        /\ \A y : Contains(u.list, y) <=> Contains(wq.list, y) /\ y # x
        /\ \A y : Contains(u.delayed, y) <=> Contains(wq.delayed, y) /\ y # x
    BY UnlinkedWork
  <2>2. u.list = RemoveFirst(wq.list, x)
    BY DEF Unlinked, WorkInv, TypeInv, QueueState
  <2>3. wq' = [u EXCEPT !.timer[x] = "none", !.list = l]
    BY <1>3, <2>2 DEF Expired
  <2> HIDE DEF u
  <2>4. /\ l \in Seq(Work) /\ NoRepeat(l)
        /\ \A y : Contains(l, y) => (Contains(wq.list, y) /\ y # x) \/ y = x
    <3>1. u.list \in Seq(Work)
      BY <2>1 DEF QueueState
    <3> QED BY <2>1, <3>1, AppendList
  <2> HIDE DEF l
  <2>5. /\ wq' \in QueueState
        /\ wq'.list = l /\ wq'.delayed = u.delayed /\ wq'.bound = u.bound
        /\ \A y \in Work : y # x => wq'.timer[y] = u.timer[y]
    BY <2>1, <2>3, <2>4 DEF QueueState
  <2> QED
    BY <1>1, <2>1, <2>4, <2>5, WorkMoved
<1> QED
  BY <1>2, <1>3

\* Work that is delayed is put on the other list, and its caller is about to
\* start the timer.
LEMMA SubmitDelayedStep ==
  ASSUME WorkInv, NEW t \in Thread, NEW x \in Work, SubmitDelayed(t, x)
  PROVE  WorkInv'
<1> DEFINE u == Unlinked(x)
           d == Append(u.delayed, x)
<1>1. /\ u \in QueueState /\ u.bound = wq.bound /\ u.timer = wq.timer
      /\ NoRepeat(u.list) /\ NoRepeat(u.delayed)
      /\ \A y : Contains(u.list, y) <=> Contains(wq.list, y) /\ y # x
      /\ \A y : Contains(u.delayed, y) <=> Contains(wq.delayed, y) /\ y # x
  BY UnlinkedWork
<1>2. /\ wq' = [u EXCEPT !.delayed = d, !.bound = u.bound \union {x},
                         !.timer[x] = "stopped"]
      /\ arg' = [arg EXCEPT ![t] = x] /\ Goto(t, "arm")
      /\ t \in Caller /\ pc[t] # "arm"
  BY DEF SubmitDelayed, Calls, Caller, At, Home
<1> HIDE DEF u
<1>3. /\ d \in Seq(Work) /\ NoRepeat(d)
      /\ \A y : Contains(d, y) <=> (Contains(wq.delayed, y) /\ y # x) \/ y = x
  <2>1. u.delayed \in Seq(Work)
    BY <1>1 DEF QueueState
  <2> QED BY <1>1, <2>1, AppendList
<1> HIDE DEF d
<1>4. /\ wq' \in QueueState
      /\ wq'.list = u.list /\ wq'.delayed = d
      /\ wq'.bound = u.bound \union {x}
      /\ wq'.timer[x] = "stopped"
      /\ \A y \in Work : y # x => wq'.timer[y] = u.timer[y]
  BY <1>1, <1>2, <1>3 DEF QueueState
<1>5. KeepsArming
  BY <1>2, ThreadGoes
<1>6. Arming(t, x)'
  BY <1>2, CallerIsThread DEF Arming, Goto, WorkInv, TypeInv
<1>7. TypeInv'
  BY <1>4, <1>5 DEF KeepsArming, TypeInv
<1>8. Apart'
  BY <1>1, <1>3, <1>4 DEF WorkInv, Apart
<1>9. Armed'
  <2> SUFFICES ASSUME NEW y, Contains(wq'.delayed, y)
               PROVE  /\ y \in wq'.bound
                      /\ wq'.timer[y] # "none"
                      /\ wq'.timer[y] = "running" \/ \E v \in Caller : Arming(v, y)'
    BY DEF Armed
  <2>1. CASE y = x
    BY <1>2, <1>4, <1>6, <2>1
  <2>2. CASE y # x
    <3>1. Contains(wq.delayed, y) /\ y \in Work
      <4>1. Contains(wq.delayed, y) /\ wq.delayed \in Seq(Work)
        BY <1>3, <1>4, <2>2 DEF WorkInv, TypeInv, QueueState
      <4> QED BY <4>1, OnList
    <3>2. /\ y \in wq.bound /\ wq.timer[y] # "none"
          /\ wq.timer[y] = "running" \/ \E v \in Caller : Arming(v, y)
      BY <3>1 DEF WorkInv, Armed
    <3>3. ASSUME NEW v \in Caller, Arming(v, y) PROVE Arming(v, y)'
      BY <1>5, <3>3 DEF KeepsArming, Arming
    <3> QED BY <1>1, <1>4, <2>2, <3>1, <3>2, <3>3
  <2> QED BY <2>1, <2>2
<1> QED
  BY <1>7, <1>8, <1>9 DEF WorkInv

\* The timer is started, unless a cancel has detached it: then the work was
\* taken off its list by the same cancel.
LEMMA ArmStep ==
  ASSUME WorkInv, NEW t \in Thread, Arm(t)
  PROVE  WorkInv'
<1> DEFINE x == arg[t]
<1>1. /\ pc[t] = "arm" /\ Goto(t, Home(t))
      /\ arg' = [arg EXCEPT ![t] = None]
      /\ \/ wq.timer[x] = "none" /\ UNCHANGED wq
         \/ wq' = [wq EXCEPT !.timer[x] = "running"]
  BY DEF Arm, At
<1>2. /\ wq' \in QueueState
      /\ wq'.list = wq.list /\ wq'.delayed = wq.delayed /\ wq'.bound = wq.bound
      /\ \A y \in Work : y # x => wq'.timer[y] = wq.timer[y]
      /\ x \in Work => wq'.timer[x] = "running" \/ (wq.timer[x] = "none" /\ UNCHANGED wq)
  <2> HIDE DEF x
  <2> QED BY <1>1 DEF WorkInv, TypeInv, QueueState
<1>3. /\ TypeInv'
      /\ \A v \in Caller : v # t => pc'[v] = pc[v] /\ arg'[v] = arg[v]
  BY <1>1, <1>2, CallerIsThread DEF WorkInv, TypeInv, Goto
<1>4. Apart'
  BY <1>2 DEF WorkInv, Apart
<1>5. Armed'
  <2> SUFFICES ASSUME NEW y, Contains(wq'.delayed, y)
               PROVE  /\ y \in wq'.bound
                      /\ wq'.timer[y] # "none"
                      /\ wq'.timer[y] = "running" \/ \E v \in Caller : Arming(v, y)'
    BY DEF Armed
  <2>1. Contains(wq.delayed, y) /\ wq.delayed \in Seq(Work)
    BY <1>2 DEF WorkInv, TypeInv, QueueState
  <2>2. y \in Work
    BY <2>1, OnList
  <2>3. /\ y \in wq.bound /\ wq.timer[y] # "none"
        /\ wq.timer[y] = "running" \/ \E v \in Caller : Arming(v, y)
    BY <2>1 DEF WorkInv, Armed
  <2>4. CASE y = x
    BY <1>2, <2>2, <2>3, <2>4
  <2>5. CASE y # x
    <3>1. ASSUME NEW v \in Caller, Arming(v, y) PROVE Arming(v, y)'
      BY <1>3, <2>5, <3>1 DEF Arming
    <3> QED BY <1>2, <2>2, <2>3, <2>5, <3>1
  <2> QED BY <2>4, <2>5
<1> QED
  BY <1>3, <1>4, <1>5 DEF WorkInv

\* The worker takes work off the list of work to do, on which delayed work is
\* not.
LEMMA WorkerTakesStep ==
  ASSUME WorkInv, WorkerTakes
  PROVE  WorkInv'
<1> DEFINE x == Head(wq.list)
           l == Tail(wq.list)
<1>1. /\ wq.list # <<>> /\ wq.list \in Seq(Work) /\ NoRepeat(wq.list)
      /\ wq' = [wq EXCEPT !.list = l, !.current = x, !.bound = wq.bound \ {x}]
  BY DEF WorkerTakes, WorkInv, TypeInv, QueueState, Apart
<1>2. /\ l \in Seq(Work) /\ NoRepeat(l)
      /\ \A y : Contains(l, y) <=> Contains(wq.list, y) /\ y # x
  BY <1>1, TailList
<1>3. x \in Work /\ Contains(wq.list, x)
  BY <1>1, HeadList
<1> HIDE DEF x, l
<1>4. /\ wq' \in QueueState
      /\ wq'.list = l /\ wq'.delayed = wq.delayed /\ wq'.timer = wq.timer
      /\ wq'.bound = wq.bound \ {x}
  BY <1>1, <1>2, <1>3 DEF WorkInv, TypeInv, QueueState
<1>5. KeepsArming
  <2>1. Worker \in Thread /\ pc[Worker] # "arm" /\ Goto(Worker, "work") /\ UNCHANGED arg
    BY WorkQueueAssumption DEF WorkerTakes, At
  <2> QED BY <2>1, ThreadGoes
<1>6. /\ NoRepeat(wq.delayed)
      /\ \A y : Contains(wq.delayed, y) => y # x
  BY <1>3 DEF WorkInv, Apart
<1> QED
  BY <1>2, <1>4, <1>5, <1>6, WorkMoved

\* The worker goes back to its list when a work has been done.
LEMMA WorkEndsStep ==
  ASSUME WorkInv, WorkEnds
  PROVE  WorkInv'
<1>1. KeepsArming
  <2>1. Worker \in Thread /\ pc[Worker] # "arm" /\ Goto(Worker, "ack") /\ UNCHANGED arg
    BY WorkQueueAssumption DEF WorkEnds, At
  <2> QED BY <2>1, ThreadGoes
<1>2. /\ wq' \in QueueState
      /\ wq'.list = wq.list /\ wq'.delayed = wq.delayed
      /\ wq'.bound = wq.bound /\ wq'.timer = wq.timer
  BY DEF WorkEnds, WorkInv, TypeInv, QueueState
<1> QED
  BY <1>1, <1>2, QueueKept

-----------------------------------------------------------------------------
(* The calls of threads, and the steps that leave the queue alone *)

\* A client begins a call.
LEMMA CallStep ==
  ASSUME WorkInv, NEW t \in Thread, NEW x \in Work,
         \/ DoWork(t, x) \/ UrgentWork(t, x) \/ CancelWork(t, x) \/ CancelSync(t, x)
  PROVE  WorkInv'
<1>1. pc[t] # "arm"
  BY DEF DoWork, UrgentWork, CancelWork, CancelSync, Calls, At, Home
<1>2. CASE DoWork(t, x)
  <2>1. KeepsArming
    BY <1>1, <1>2, ThreadGoes DEF DoWork, WakeThenHome
  <2> QED BY <1>2, <2>1, SubmittedStep DEF DoWork
<1>3. CASE UrgentWork(t, x)
  <2>1. KeepsArming
    BY <1>1, <1>3, ThreadGoes DEF UrgentWork, WakeThenHome
  <2> QED BY <1>3, <2>1, SubmittedStep DEF UrgentWork
<1>4. CASE CancelWork(t, x)
  <2>1. KeepsArming
    BY <1>4, NobodyGoes DEF CancelWork
  <2> QED BY <1>4, <2>1, CancelledStep DEF CancelWork
<1>5. CASE CancelSync(t, x)
  <2>1. KeepsArming
    BY <1>1, <1>5, ThreadGoes DEF CancelSync
  <2> QED BY <1>5, <2>1, StepKept DEF CancelSync
<1> QED
  BY <1>2, <1>3, <1>4, <1>5

\* A client goes on behind a window of its call.
LEMMA ContinueStep ==
  ASSUME WorkInv, NEW t \in Thread, CancelAll(t) \/ WorkContinue(t)
  PROVE  WorkInv'
<1>1. CASE CancelAll(t)
  <2>1. KeepsArming
    BY <1>1, ThreadGoes DEF CancelAll, Calls, At, Home
  <2> QED BY <1>1, <2>1, StepKept DEF CancelAll
<1>2. CASE Arm(t)
  BY <1>2, ArmStep
<1>3. CASE CancelNow(t)
  <2>1. KeepsArming
    BY <1>3, ThreadGoes DEF CancelNow, At
  <2> QED BY <1>3, <2>1, CancelledStep DEF CancelNow
<1>4. CASE WaitSync(t)
  <2>1. KeepsArming
    BY <1>4, ThreadGoes DEF WaitSync, At
  <2> QED BY <1>4, <2>1, StepKept DEF WaitSync
<1>5. CASE Purge(t)
  <2>1. KeepsArming
    BY <1>5, ThreadGoes, NobodyGoes DEF Purge, At
  <2> QED BY <1>5, <2>1, StepKept, CancelledStep DEF Purge
<1>6. CASE PurgeDelayed(t)
  <2>1. KeepsArming
    BY <1>6, ThreadGoes, NobodyGoes DEF PurgeDelayed, At
  <2> QED BY <1>6, <2>1, StepKept, CancelledStep DEF PurgeDelayed
<1>7. CASE \/ /\ ScheduleThen(t, "resched", Home(t)) \/ ScheduleThen(t, "syncing", "synced")
              /\ UNCHANGED workVars
           \/ SyncReturns(t)
  <2>1. KeepsArming
    BY <1>7, ThreadGoes DEF ScheduleThen, SyncReturns, At, workVars
  <2> QED BY <1>7, <2>1, StepKept DEF SyncReturns, workVars
<1> QED
  BY <1>1, <1>2, <1>3, <1>4, <1>5, <1>6, <1>7 DEF WorkContinue

\* The interrupt handler and an expired timer submit work.
LEMMA InterruptStep ==
  ASSUME WorkInv, NEW x \in Work, IsrSubmit(x) \/ Expired(x)
  PROVE  WorkInv'
<1>1. CASE IsrSubmit(x)
  <2>1. KeepsArming
    BY <1>1, NobodyGoes DEF IsrSubmit
  <2> QED BY <1>1, <2>1, SubmittedStep DEF IsrSubmit
<1>2. CASE Expired(x)
  BY <1>2, ExpiredStep
<1> QED
  BY <1>1, <1>2

\* The worker thread takes work, does it, or goes to sleep.
LEMMA WorkerSteps ==
  ASSUME WorkInv, WorkerStep \/ WorkSleeps
  PROVE  WorkInv'
<1>1. CASE WorkerTakes
  BY <1>1, WorkerTakesStep
<1>2. CASE WorkEnds
  BY <1>2, WorkEndsStep
<1>3. CASE WorkerWaits \/ WorkerSchedule \/ WorkAck \/ WorkSleeps
  <2>1. /\ Worker \in Thread /\ pc[Worker] # "arm" /\ UNCHANGED workVars
        /\ \E l : Goto(Worker, l)
    BY <1>3, WorkQueueAssumption
       DEF WorkerWaits, WorkerSchedule, WorkAck, WorkSleeps, ScheduleThen, At
  <2>2. KeepsArming
    BY <2>1, ThreadGoes DEF workVars
  <2> QED BY <2>1, <2>2, StepKept DEF workVars
<1> QED
  BY <1>1, <1>2, <1>3 DEF WorkerStep

\* The completion shares the threads with the queue, and nothing else.
LEMMA CompletionStep ==
  ASSUME WorkInv, CompletionNext, UNCHANGED workVars
  PROVE  WorkInv'
<1>1. CASE \/ Await \/ AwaitSchedule \/ AwaitReturn
  <2>1. /\ Waiter \in Thread /\ pc[Waiter] # "arm"
        /\ UNCHANGED pc \/ \E l : Goto(Waiter, l)
    BY <1>1, CompletionAssumption DEF Await, AwaitSchedule, AwaitReturn, ScheduleThen, At
  <2>2. KeepsArming
    BY <2>1, ThreadGoes, NobodyGoes DEF workVars
  <2> QED BY <2>2, StepKept DEF workVars
<1>2. CASE IsrDone
  <2>1. KeepsArming
    BY <1>2, NobodyGoes DEF IsrDone, workVars
  <2> QED BY <2>1, StepKept DEF workVars
<1>3. ASSUME NEW d \in Doer, Done(d[1], d[2]) PROVE WorkInv'
  <2>1. /\ d[1] \in Thread /\ pc[d[1]] # "arm"
        /\ \E l : Goto(d[1], l)
    BY <1>3, CompletionAssumption DEF Done, At
  <2>2. KeepsArming
    BY <2>1, ThreadGoes DEF workVars
  <2> QED BY <2>2, StepKept DEF workVars
<1> QED
  BY <1>1, <1>2, <1>3 DEF CompletionNext

\* The clock ends slices and expires timers.
LEMMA ClockStep ==
  ASSUME WorkInv, UNCHANGED workVars,
         SliceEnd \/ \E t \in Thread : TimerExpires(t) \/ SleepStart(t)
  PROVE  WorkInv'
<1>1. CASE SliceEnd \/ \E t \in Thread : TimerExpires(t)
  <2>1. KeepsArming
    BY <1>1, NobodyGoes DEF SliceEnd, TimerExpires, workVars
  <2> QED BY <2>1, StepKept DEF workVars
<1>2. ASSUME NEW t \in Thread, SleepStart(t) PROVE WorkInv'
  <2>1. KeepsArming
    BY <1>2, ThreadGoes DEF SleepStart, At, workVars
  <2> QED BY <2>1, StepKept DEF workVars
<1> QED
  BY <1>1, <1>2

-----------------------------------------------------------------------------
(* The theorems about the lists *)

\* At the start both lists are empty and no timer runs.
LEMMA InitInv == Init => WorkInv
<1> SUFFICES ASSUME Init PROVE WorkInv
  OBVIOUS
<1>1. /\ pc = [t \in Thread |-> "run"]
      /\ arg = [t \in Caller |-> None]
      /\ wq = [ list |-> <<>>, delayed |-> <<>>, current |-> None, bound |-> {},
                timer |-> [x \in Work |-> "none"] ]
  BY DEF Init, WorkInit, Caller
<1>2. <<>> \in Seq(Work) /\ NoRepeat(<<>>) /\ \A x : ~Contains(<<>>, x)
  BY EmptySeq DEF NoRepeat, Contains
<1>3. TypeInv
  BY <1>1, <1>2 DEF TypeInv, QueueState
<1>4. wq.list = <<>> /\ wq.delayed = <<>>
  BY <1>1
<1> QED
  BY <1>2, <1>3, <1>4 DEF WorkInv, Apart, Armed

\* Every step keeps the invariant.
LEMMA NextInv == WorkInv /\ [Next]_vars => WorkInv'
<1> SUFFICES ASSUME WorkInv, [Next]_vars PROVE WorkInv'
  OBVIOUS
<1>1. CASE WorkNext
  BY <1>1, CallStep, SubmitDelayedStep, ContinueStep, InterruptStep, WorkerSteps
     DEF WorkNext
<1>2. CASE CompletionNext /\ UNCHANGED workVars
  BY <1>2, CompletionStep
<1>3. CASE \/ \E t \in Thread : ClientSleeps(t) \/ Timeout(t)
           \/ SliceEnd /\ UNCHANGED <<workVars, flag>>
  BY <1>3, ClockStep DEF ClientSleeps, Timeout
<1>4. CASE UNCHANGED vars
  BY <1>4, NobodyGoes, StepKept DEF vars, workVars
<1> QED
  BY <1>1, <1>2, <1>3, <1>4 DEF Next, Running, Halted

\* The invariant holds in every reachable state of the queue and its clients.
THEOREM Invariance == Spec => []WorkInv
<1>1. Init => WorkInv
  BY InitInv
<1>2. WorkInv /\ [Next]_vars => WorkInv'
  BY NextInv
<1> QED
  BY <1>1, <1>2, PTL DEF Spec

\* ToSet and Contains say the same.
LEMMA ToSetContains ==
  ASSUME NEW S, NEW s \in Seq(S)
  PROVE  \A x : x \in ToSet(s) <=> Contains(s, x)
<1>1. DOMAIN s = 1..Len(s)
  OBVIOUS
<1> QED
  BY <1>1 DEF ToSet, Contains

\* The one list node of a work is on one list at most, once.
THEOREM NodeOnOneList == Spec => []OnOneList
<1>1. WorkInv => OnOneList
  <2> SUFFICES ASSUME WorkInv PROVE OnOneList
    OBVIOUS
  <2>1. wq.list \in Seq(Work) /\ wq.delayed \in Seq(Work) /\ Apart
    BY DEF WorkInv, TypeInv, QueueState
  <2>2. /\ \A x : x \in ToSet(wq.list) <=> Contains(wq.list, x)
        /\ \A x : x \in ToSet(wq.delayed) <=> Contains(wq.delayed, x)
    BY <2>1, ToSetContains
  <2> QED BY <2>1, <2>2 DEF OnOneList, Apart
<1> QED
  BY <1>1, Invariance, PTL

\* Delayed work has a timer that runs or is about to be started, and knows its
\* queue: the assertion of the timeout handler cannot fail for work that is
\* still on the list of delayed work.
THEOREM DelayedWorkComes == Spec => []DelayedIsArmed
<1>1. WorkInv => DelayedIsArmed
  <2> SUFFICES ASSUME WorkInv PROVE DelayedIsArmed
    OBVIOUS
  <2>1. wq.delayed \in Seq(Work) /\ Armed
    BY DEF WorkInv, TypeInv, QueueState
  <2>2. \A x : x \in ToSet(wq.delayed) <=> Contains(wq.delayed, x)
    BY <2>1, ToSetContains
  <2> QED BY <2>1, <2>2 DEF DelayedIsArmed, Armed, Arming, Caller
<1> QED
  BY <1>1, Invariance, PTL
-----------------------------------------------------------------------------
(* Where the threads wait: the worker for work, a client for the worker, the *)
(* thread of the completion for its flag.                                    *)

WorkCalls ==
  [ labels |-> Label,
    lists  |-> [w \in WaitList |-> IF w = "done" THEN CompletionLabel
                                   ELSE IF w = "sync" THEN {"syncing", "synced"} ELSE {}],
    out    |-> {"loop", "syncing", "completing", "resched"},
    locked |-> {"purge", "purged"} ]

\* The worker is in its loop, or in a work function and the calls it makes.
WorkerFits(q, l) ==
  IF q.current = None THEN l \in {"run", "loop", "ack"}
                      ELSE l \in {"work", "arm", "purge", "purged", "resched"}

Asleep(s) == s.stat[Worker] = "suspend"

\* Nobody waits for a flag that is set, and whoever was woken finds it set.
DoneFits(s, at, f) ==
  /\ f => s.wait["done"] = <<>>
  /\ Alert(s, at, "done", CompletionLabel) # {} => f
  /\ Untold(s, "done")
  /\ \A t \in Thread : at[t] \in CompletionLabel => t = Waiter

WaitInv ==
  /\ Sound(k, pc, WorkCalls)
  /\ WorkerFits(wq, pc[Worker])
  /\ NoLostWork
  /\ DoneFits(k, pc, flag)

\* What a step keeps, if it is not about the worker's sleep.
Quiet ==
  /\ Sound(k', pc', WorkCalls) /\ DoneFits(k', pc', flag')
  /\ Asleep(k') <=> Asleep(k)

\* The work function is not woken before its time.
Undisturbed ==
  wq.current # None /\ Asleep(k) /\ ~Asleep(k') => k'.err[Worker] = "ETIMEOUT"

WaitGood == WaitInv' /\ Undisturbed

LEMMA WorkCallsAre ==
  /\ CallsOK(WorkCalls)
  /\ WorkCalls.labels = Label
  /\ WorkCalls.out = {"loop", "syncing", "completing", "resched"}
  /\ WorkCalls.locked = {"purge", "purged"}
  /\ "done" \in WaitList /\ "sync" \in WaitList
  /\ WorkCalls.lists["done"] = CompletionLabel /\ WorkCalls.lists["sync"] = {"syncing", "synced"}
  /\ \A w \in WaitList : WorkCalls.lists[w] \subseteq {"syncing", "synced", "completing", "complete"}
  /\ Waiter \in Thread \ {Idle, Worker} /\ Worker \in Thread \ {Idle}
<1>1. /\ "done" \in WaitList /\ "sync" \in WaitList
      /\ Waiter \in Thread \ {Idle, Worker} /\ Worker \in Thread \ {Idle}
  BY CompletionAssumption, WorkQueueAssumption, DeferredAssumption
<1>2. \A w \in WaitList : WorkCalls.lists[w] =
        IF w = "done" THEN CompletionLabel ELSE IF w = "sync" THEN {"syncing", "synced"} ELSE {}
  BY DEF WorkCalls
<1>3. /\ WorkCalls.labels = Label /\ WorkCalls.locked = {"purge", "purged"}
      /\ WorkCalls.out = {"loop", "syncing", "completing", "resched"}
  BY DEF WorkCalls
<1>4. \A w \in WaitList : WorkCalls.lists[w] \subseteq {"syncing", "synced", "completing", "complete"}
  BY <1>2 DEF CompletionLabel
<1>5. \A v, w \in WaitList : v # w => WorkCalls.lists[v] \intersect WorkCalls.lists[w] = {}
  BY <1>2 DEF CompletionLabel
<1>6. CallsOK(WorkCalls)
  BY <1>3, <1>4, <1>5 DEF CallsOK, Label
<1> QED
  BY <1>1, <1>2, <1>3, <1>4, <1>6

\* The current thread, if it is not about to leave the processor, is running.
LEMMA OnCpu ==
  ASSUME WaitInv, pc[k.cur] \notin WorkCalls.out
  PROVE  /\ k.cur \in Thread /\ k.stat[k.cur] = "running" /\ ~WaitsSomewhere(k, k.cur)
         /\ k.cur # Idle \/ pc[k.cur] = "run"
         /\ k.cur = Worker => ~Asleep(k)
         /\ pc[k.cur] \notin WorkCalls.locked => k.lock = 0
<1>1. Sound(k, pc, WorkCalls)
  BY DEF WaitInv
<1>2. /\ k.cur \in Thread /\ k.stat[k.cur] = "running" /\ ~WaitsSomewhere(k, k.cur)
      /\ pc[k.cur] \notin WorkCalls.locked => k.lock = 0
  BY <1>1, CallerRuns
<1> QED
  BY <1>1, <1>2 DEF Sound, Asleep

\* The thread of the completion has what it needs when nothing changes there.
LEMMA DoneCalm ==
  ASSUME NEW s, IpcInv(s), NEW r, IpcInv(r), NEW at, NEW to, NEW f, DoneFits(s, at, f),
         Calm(r, to, s, at, "done", WorkCalls.lists["done"]),
         \A t \in Thread : to[t] \in CompletionLabel => at[t] \in CompletionLabel
  PROVE  DoneFits(r, to, f)
<1>1. /\ Fewer(r, s, "done") /\ "done" \in WaitList
      /\ Alert(r, to, "done", CompletionLabel) = Alert(s, at, "done", CompletionLabel)
  <2>1. Calm(r, to, s, at, "done", CompletionLabel) /\ "done" \in WaitList
    BY WorkCallsAre
  <2> QED BY <2>1 DEF Calm, AsMany
<1>2. f => r.wait["done"] = <<>>
  BY <1>1, FewerEmpty DEF DoneFits
<1>3. Untold(r, "done")
  BY <1>1, FewerUntold DEF DoneFits
<1> QED
  BY <1>1, <1>2, <1>3 DEF DoneFits

\* A step that leaves the worker where it is, or moves it as it should.
LEMMA QuietStep ==
  ASSUME WaitInv, Quiet, WorkerFits(wq', pc'[Worker]),
         wq'.current = None /\ Asleep(k) => wq.current = None,
         wq'.current = None /\ Asleep(k) /\ wq.list = <<>> => wq'.list = <<>>
  PROVE  WaitGood
BY DEF WaitInv, Quiet, NoLostWork, Asleep, WaitGood, Undisturbed

\* A step of another thread, or of an interrupt.
LEMMA OthersStep ==
  ASSUME WaitInv, Quiet, pc'[Worker] = pc[Worker], UNCHANGED wq
  PROVE  WaitGood
BY QuietStep DEF WaitInv

\* A thread goes on, with the kernel as it was.
LEMMA MoveKeeps ==
  ASSUME NEW s, NEW f, Sound(s, pc, WorkCalls), DoneFits(s, pc, f),
         NEW t \in Thread, NEW l \in Label, s.cur = t, Goto(t, l), t # Idle,
         pc[t] \notin WorkCalls.out, pc[t] \in WorkCalls.locked <=> l \in WorkCalls.locked,
         \A w \in WaitList : {pc[t], l} \intersect WorkCalls.lists[w] = {}
  PROVE  Sound(s, pc', WorkCalls) /\ DoneFits(s, pc', f)
<1>1. CallsOK(WorkCalls) /\ l \in WorkCalls.labels /\ t = s.cur
  BY WorkCallsAre
<1> DEFINE to == [pc EXCEPT ![t] = l]
<1>2. pc' = to
  BY DEF Goto
<1>3. \A x \in Thread : to[x] = IF x = t THEN l ELSE pc[x]
  BY DEF Sound
<1>4. to = [pc EXCEPT ![t] = l]
  OBVIOUS
<1> HIDE DEF to
<1>5. /\ Sound(s, to, WorkCalls)
      /\ \A w \in WaitList : l \notin WorkCalls.lists[w] /\ pc[t] \notin WorkCalls.lists[w]
           => Calm(s, to, s, pc, w, WorkCalls.lists[w])
  BY <1>1, <1>4, SoundMoves
<1>6. DoneFits(s, to, f)
  <2>1. Calm(s, to, s, pc, "done", WorkCalls.lists["done"]) /\ l \notin CompletionLabel
    BY <1>5, WorkCallsAre
  <2>2. IpcInv(s)
    BY DEF Sound
  <2>3. \A x \in Thread : to[x] \in CompletionLabel => pc[x] \in CompletionLabel
    BY <1>3, <2>1
  <2> QED BY <2>1, <2>2, <2>3, DoneCalm
<1> QED
  BY <1>2, <1>5, <1>6

LEMMA MoveQuiet ==
  ASSUME WaitInv, NEW t \in Thread, NEW l \in Label, k.cur = t, Goto(t, l), t # Idle,
         UNCHANGED <<k, flag>>,
         pc[t] \notin WorkCalls.out, pc[t] \in WorkCalls.locked <=> l \in WorkCalls.locked,
         \A w \in WaitList : {pc[t], l} \intersect WorkCalls.lists[w] = {}
  PROVE  Quiet
<1>1. Sound(k, pc, WorkCalls) /\ DoneFits(k, pc, flag)
  BY DEF WaitInv
<1>2. Sound(k, pc', WorkCalls) /\ DoneFits(k, pc', flag)
  BY <1>1, MoveKeeps
<1> QED
  BY <1>2 DEF Quiet

\* A thread comes back from rt_schedule.
LEMMA ScheduleQuiet ==
  ASSUME WaitInv, NEW t \in Thread, NEW from \in WorkCalls.out, NEW l \in Label,
         ScheduleThen(t, from, l), UNCHANGED flag, l \notin WorkCalls.locked,
         \A w \in WaitList : from \in WorkCalls.lists[w] <=> l \in WorkCalls.lists[w]
  PROVE  Quiet
<1>1. /\ Sound(k, pc, WorkCalls) /\ CallsOK(WorkCalls) /\ t = k.cur /\ pc[t] = from
      /\ l \in WorkCalls.labels \ WorkCalls.locked /\ pc[t] \in WorkCalls.out
      /\ \A w \in WaitList : pc[t] \in WorkCalls.lists[w] <=> l \in WorkCalls.lists[w]
  BY WorkCallsAre DEF WaitInv, ScheduleThen, At
<1> DEFINE to == [pc EXCEPT ![t] = l]
           r  == rt_schedule(k)
<1>2. pc' = to /\ k' = r
  BY DEF ScheduleThen, Goto
<1>3. \A x \in Thread : to[x] = IF x = t THEN l ELSE pc[x]
  BY <1>1 DEF Sound
<1>4. IpcInv(k)
  BY <1>1 DEF Sound
<1>5. Rescheduled(r, k)
  BY <1>4, Reschedules
<1>6. to = [pc EXCEPT ![t] = l]
  OBVIOUS
<1> HIDE DEF to, r
<1>7. /\ Sound(r, to, WorkCalls)
      /\ \A w \in WaitList : Calm(r, to, k, pc, w, WorkCalls.lists[w])
  BY <1>1, <1>5, <1>6, SoundGoesOn
<1>8. DoneFits(r, to, flag)
  <2>1. Calm(r, to, k, pc, "done", WorkCalls.lists["done"])
    BY <1>7, WorkCallsAre
  <2>2. IpcInv(r) /\ DoneFits(k, pc, flag)
    BY <1>7 DEF Sound, WaitInv
  <2>3. \A x \in Thread : to[x] \in CompletionLabel => pc[x] \in CompletionLabel
    BY <1>1, <1>3, WorkCallsAre
  <2> QED BY <1>4, <2>1, <2>2, <2>3, DoneCalm
<1>9. Asleep(r) <=> Asleep(k)
  BY <1>5, WorkCallsAre DEF Rescheduled, Asleep
<1> QED
  BY <1>2, <1>7, <1>8, <1>9 DEF Quiet
\* The worker is woken from its wait for work, or nothing happens.
LEMMA WakeKeeps ==
  ASSUME WaitInv, NEW r, r = Wake(k)
  PROVE  /\ Sound(r, pc, WorkCalls) /\ DoneFits(r, pc, flag) /\ r.cur = k.cur
         /\ ~(wq.current = None /\ Asleep(r))
         /\ wq.current # None \/ ~Asleep(k) => r = k
         /\ ~WakesWorker => r = k
<1>1. Sound(k, pc, WorkCalls) /\ DoneFits(k, pc, flag) /\ IpcInv(k)
  BY DEF WaitInv, Sound
<1>2. CASE WakesWorker
  <2> DEFINE e == k.err[Worker]
  <2>1. /\ wq.current = None /\ k.stat[Worker] = "suspend" /\ r = rt_thread_resume(k, Worker)
        /\ Worker \in Thread
    BY <1>2, WorkCallsAre DEF WakesWorker, Wake
  <2>2. e \in Error /\ k = [k EXCEPT !.err[Worker] = e]
    <3>1. k \in KernelState
      BY <1>1 DEF IpcInv, KernelInv, ListFacts
    <3> QED BY <2>1, <3>1 DEF KernelState
  <2>3. r = rt_thread_resume([k EXCEPT !.err[Worker] = e], Worker)
    BY <2>1, <2>2
  <2> HIDE DEF e
  <2>4. Woke(rt_thread_resume([k EXCEPT !.err[Worker] = e], Worker), k, Worker, e)
    BY <1>1, <2>1, <2>2, ResumeWakes
  <2>5. Woke(r, k, Worker, e)
    BY <2>3, <2>4
  <2>6. \A v \in WaitList : pc[Worker] \notin WorkCalls.lists[v]
    BY <2>1, WorkCallsAre DEF WaitInv, WorkerFits
  <2>7. /\ Sound(r, pc, WorkCalls)
        /\ \A v \in WaitList : Calm(r, pc, k, pc, v, WorkCalls.lists[v])
    BY <1>1, <2>1, <2>2, <2>5, <2>6, WorkCallsAre, SoundWakesElse
  <2>8. Calm(r, pc, k, pc, "done", WorkCalls.lists["done"]) /\ IpcInv(r)
    BY <2>7, WorkCallsAre DEF Sound
  <2>9. DoneFits(r, pc, flag)
    BY <1>1, <2>8, DoneCalm
  <2>10. ~Asleep(r) /\ r.cur = k.cur
    <3>1. k.stat \in [Thread -> Stat]
      BY <1>1 DEF IpcInv, KernelInv, ListFacts, KernelState
    <3> QED BY <2>1, <2>5, <3>1 DEF Woke, Asleep
  <2> QED BY <1>2, <2>7, <2>9, <2>10 DEF WakesWorker, Asleep
<1>3. CASE ~WakesWorker
  <2>1. r = k
    BY <1>3 DEF WakesWorker, Wake, rt_thread_resume
  <2> QED BY <1>1, <1>3, <2>1 DEF WakesWorker, Asleep
<1> QED
  BY <1>2, <1>3

\* After a call that may have woken the worker.
LEMMA AfterWake ==
  ASSUME WaitInv, Sound(k', pc', WorkCalls), DoneFits(k', pc', flag'),
         wq'.current = wq.current, pc'[Worker] \in {pc[Worker], "work"},
         pc'[Worker] = pc[Worker] \/ wq.current # None,
         ~(wq.current = None /\ Asleep(k')), wq.current # None => (Asleep(k) <=> Asleep(k'))
  PROVE  WaitGood
<1>1. WorkerFits(wq', pc'[Worker])
  BY DEF WaitInv, WorkerFits
<1> QED
  BY <1>1 DEF WaitInv, WaitGood, Undisturbed, NoLostWork, Asleep

\* A thread submits work.
LEMMA SubmitGood ==
  ASSUME WaitInv, NEW t \in Thread, Calls(t), WakeThenHome(t), wq'.current = wq.current,
         UNCHANGED flag
  PROVE  WaitGood
<1>1. /\ t \in Client \union {Worker} /\ t = k.cur /\ pc[t] = Home(t) /\ t # Idle
  BY WorkQueueAssumption DEF Calls, At
<1>2. pc[t] \in {"run", "work"} /\ pc[t] \notin WorkCalls.out
  BY <1>1, WorkCallsAre DEF Home
<1> DEFINE r == Wake(k)
<1>3. k' = r
  BY DEF WakeThenHome
<1>4. /\ Sound(r, pc, WorkCalls) /\ DoneFits(r, pc, flag) /\ r.cur = k.cur
      /\ ~(wq.current = None /\ Asleep(r))
      /\ wq.current # None \/ ~Asleep(k) => r = k
  BY WakeKeeps
<1> HIDE DEF r
<1>5. PICK l \in {"resched", Home(t)} : Goto(t, l) /\ (l = "resched" => WakesWorker)
  <2>1. CASE WakesWorker
    BY <2>1 DEF WakeThenHome
  <2>2. CASE ~WakesWorker
    BY <1>1, <1>2, <2>2 DEF WakeThenHome
  <2> QED BY <2>1, <2>2
<1>6. l \in Label /\ l \notin WorkCalls.locked /\ pc[t] \notin WorkCalls.locked
      /\ \A w \in WaitList : {pc[t], l} \intersect WorkCalls.lists[w] = {}
  BY <1>1, <1>2, <1>5, WorkCallsAre DEF Label, WorkLabel
<1>7. Sound(r, pc', WorkCalls) /\ DoneFits(r, pc', flag)
  BY <1>1, <1>2, <1>4, <1>5, <1>6, MoveKeeps
<1>8. pc'[Worker] = pc[Worker]
  <2>1. pc \in [Thread -> Label] /\ Worker \in Thread
    BY WorkCallsAre DEF WaitInv, Sound
  <2>2. CASE t = Worker
    <3>1. ~Asleep(k)
      BY <1>1, <1>2, <2>2, OnCpu
    <3>2. l = Home(t)
      BY <1>5, <3>1 DEF WakesWorker, Asleep
    <3> QED BY <1>1, <1>5, <2>1, <3>2 DEF Goto
  <2>3. CASE t # Worker
    BY <1>5, <2>1, <2>3 DEF Goto
  <2> QED BY <2>2, <2>3
<1> QED
  BY <1>3, <1>4, <1>7, <1>8, AfterWake

\* An interrupt handler or an expired timer submits work.
LEMMA IsrGood ==
  ASSUME WaitInv, k' = IF WakesWorker THEN rt_schedule(Wake(k)) ELSE k,
         wq'.current = wq.current, UNCHANGED <<pc, flag>>
  PROVE  WaitGood
<1> DEFINE u == Wake(k)
<1>1. /\ Sound(u, pc, WorkCalls) /\ DoneFits(u, pc, flag)
      /\ ~(wq.current = None /\ Asleep(u))
      /\ wq.current # None \/ ~Asleep(k) => u = k
      /\ ~WakesWorker => u = k
  BY WakeKeeps
<1>2. k' = u \/ k' = rt_schedule(u)
  BY <1>1
<1> HIDE DEF u
<1>3. CASE k' = u
  BY <1>1, <1>3, AfterWake
<1>4. CASE k' = rt_schedule(u)
  <2> DEFINE r == rt_schedule(u)
  <2>1. IpcInv(u)
    BY <1>1 DEF Sound
  <2>2. Rescheduled(r, u)
    BY <2>1, Reschedules
  <2> HIDE DEF r
  <2>3. /\ Sound(r, pc, WorkCalls)
        /\ \A w \in WaitList : Calm(r, pc, u, pc, w, WorkCalls.lists[w])
    BY <1>1, <2>2, SoundSchedules
  <2>4. Calm(r, pc, u, pc, "done", WorkCalls.lists["done"]) /\ IpcInv(r)
    BY <2>3, WorkCallsAre DEF Sound
  <2>5. DoneFits(r, pc, flag)
    BY <1>1, <2>1, <2>4, DoneCalm
  <2>6. Asleep(r) <=> Asleep(u)
    BY <2>2, WorkCallsAre DEF Rescheduled, Asleep
  <2>7. k' = r
    BY <1>4 DEF r
  <2> QED BY <1>1, <2>3, <2>5, <2>6, <2>7, AfterWake
<1> QED
  BY <1>2, <1>3, <1>4
\* Whoever is not the idle thread's place is not the idle thread.
LEMMA AtPlace ==
  ASSUME WaitInv, NEW t \in Thread, NEW l, At(t, l), l # "run"
  PROVE  t # Idle
BY DEF At, WaitInv, Sound

\* The worker stays in its loop or in its work function.
LEMMA GoFits ==
  ASSUME WaitInv, NEW t \in Thread, NEW l, Goto(t, l), wq'.current = wq.current,
         t = Worker => \/ {pc[t], l} \subseteq {"run", "loop", "ack"}
                       \/ {pc[t], l} \subseteq {"work", "arm", "purge", "purged", "resched"}
  PROVE  WorkerFits(wq', pc'[Worker])
<1>1. pc \in [Thread -> Label] /\ Worker \in Thread
  BY WorkCallsAre DEF WaitInv, Sound
<1>2. pc'[Worker] = IF t = Worker THEN l ELSE pc[Worker]
  BY <1>1 DEF Goto
<1> QED
  BY <1>2 DEF WaitInv, WorkerFits

\* An empty list stays empty when a work is taken off the lists.
LEMMA CancelledEmpty ==
  ASSUME WorkInv, wq.list = <<>>, NEW x
  PROVE  Unlinked(x).list = <<>> /\ Cancelled(x).list = <<>>
<1>1. wq.list \in Seq(Work) /\ NoRepeat(wq.list)
  BY DEF WorkInv, TypeInv, QueueState, Apart
<1> DEFINE l == RemoveFirst(wq.list, x)
<1>2. l \in Seq(Work) /\ \A y : ~Contains(l, y)
  <2>1. \A y : ~Contains(wq.list, y)
    BY <1>1, HeadList
  <2> QED BY <1>1, <2>1, RemoveFirstProperties
<1>3. l = <<>>
  <2> HIDE DEF l
  <2> QED BY <1>2, HeadList
<1>4. Unlinked(x).list = l /\ Cancelled(x).list = l
  BY DEF Unlinked, Cancelled, WorkInv, TypeInv, QueueState
<1> QED
  BY <1>3, <1>4

\* The calls of threads that do not wake the worker.
LEMMA DelayGood ==
  ASSUME WorkInv, WaitInv, NEW t \in Thread, NEW x \in Work, SubmitDelayed(t, x), UNCHANGED flag
  PROVE  WaitGood
<1>1. /\ k.cur = t /\ pc[t] = Home(t) /\ Goto(t, "arm") /\ t # Idle /\ UNCHANGED k
  BY WorkQueueAssumption DEF SubmitDelayed, Calls, At
<1>2. /\ wq'.current = wq.current /\ wq'.list = Unlinked(x).list
  <2>1. wq \in QueueState
    BY DEF WorkInv, TypeInv
  <2> QED BY <2>1 DEF SubmitDelayed, Unlinked, QueueState
<1>3. WorkerFits(wq', pc'[Worker])
  BY <1>1, <1>2, GoFits DEF Home
<1>4. Quiet
  <2>1. pc[t] \in {"run", "work"}
    BY <1>1 DEF Home
  <2> DEFINE l == "arm"
  <2>2. /\ l \in Label /\ Goto(t, l)
        /\ pc[t] \notin WorkCalls.out /\ (pc[t] \in WorkCalls.locked <=> l \in WorkCalls.locked)
        /\ \A w \in WaitList : {pc[t], l} \intersect WorkCalls.lists[w] = {}
    BY <1>1, <2>1, WorkCallsAre DEF Label, WorkLabel
  <2> HIDE DEF l
  <2> QED BY <1>1, <2>2, MoveQuiet
<1> QED
  BY <1>2, <1>3, <1>4, CancelledEmpty, QuietStep

LEMMA ArmGood ==
  ASSUME WorkInv, WaitInv, NEW t \in Thread, Arm(t), UNCHANGED flag
  PROVE  WaitGood
<1>1. /\ k.cur = t /\ pc[t] = "arm" /\ Goto(t, Home(t)) /\ UNCHANGED k /\ t # Idle
  BY AtPlace DEF Arm, At
<1>2. wq'.current = wq.current /\ wq'.list = wq.list
  <2>1. wq \in QueueState
    BY DEF WorkInv, TypeInv
  <2> QED BY <2>1 DEF Arm, QueueState
<1>3. WorkerFits(wq', pc'[Worker])
  BY <1>1, <1>2, GoFits DEF Home
<1>4. Quiet
  <2> DEFINE l == Home(t)
  <2>1. l \in {"run", "work"}
    BY DEF Home
  <2> HIDE DEF l
  <2>2. /\ l \in Label
        /\ pc[t] \notin WorkCalls.out /\ (pc[t] \in WorkCalls.locked <=> l \in WorkCalls.locked)
        /\ \A w \in WaitList : {pc[t], l} \intersect WorkCalls.lists[w] = {}
    BY <1>1, <2>1, WorkCallsAre DEF Label, WorkLabel
  <2>3. Goto(t, l)
    BY <1>1 DEF l
  <2> QED BY <1>1, <2>2, <2>3, MoveQuiet
<1> QED
  BY <1>2, <1>3, <1>4, QuietStep

\* Nothing happens but that a work is taken off the lists.
LEMMA CancelGood ==
  ASSUME WorkInv, WaitInv, NEW x, wq' = Cancelled(x), UNCHANGED <<k, flag>>,
         UNCHANGED pc \/ \E t \in Thread \ {Idle, Worker} : At(t, "cancel") /\ Goto(t, "run")
  PROVE  WaitGood
<1>1. wq'.current = wq.current /\ wq'.list = Cancelled(x).list
  BY DEF Cancelled, Unlinked, WorkInv, TypeInv, QueueState
<1>2. CASE UNCHANGED pc
  <2>1. Quiet
    BY <1>2 DEF Quiet, WaitInv
  <2>2. WorkerFits(wq', pc'[Worker])
    BY <1>1, <1>2 DEF WaitInv, WorkerFits
  <2> QED BY <1>1, <2>1, <2>2, CancelledEmpty, QuietStep
<1>3. ASSUME NEW t \in Thread \ {Idle, Worker}, At(t, "cancel"), Goto(t, "run")
      PROVE  WaitGood
  <2>1. WorkerFits(wq', pc'[Worker])
    BY <1>1, <1>3, GoFits
  <2> DEFINE l == "run"
  <2>2. /\ l \in Label /\ Goto(t, l) /\ k.cur = t
        /\ pc[t] \notin WorkCalls.out /\ (pc[t] \in WorkCalls.locked <=> l \in WorkCalls.locked)
        /\ \A w \in WaitList : {pc[t], l} \intersect WorkCalls.lists[w] = {}
    BY <1>3, WorkCallsAre DEF Label, At
  <2> HIDE DEF l
  <2>3. Quiet
    BY <2>2, MoveQuiet
  <2> QED BY <1>1, <2>1, <2>3, CancelledEmpty, QuietStep
<1> QED
  BY <1>2, <1>3

LEMMA CancelSyncGood ==
  ASSUME WorkInv, WaitInv, NEW t \in Thread, NEW x \in Work, CancelSync(t, x), UNCHANGED flag
  PROVE  WaitGood
<1>1. /\ k.cur = t /\ pc[t] = "run" /\ t # Idle /\ t # Worker /\ UNCHANGED <<k, wq>>
      /\ \E l \in {"sync", "cancel"} : Goto(t, l)
  BY WorkQueueAssumption DEF CancelSync, Calls, At, Home
<1>2. PICK l \in {"sync", "cancel"} : Goto(t, l)
  BY <1>1
<1>3. WorkerFits(wq', pc'[Worker])
  BY <1>1, <1>2, GoFits
<1>4. /\ l \in Label
      /\ pc[t] \notin WorkCalls.out /\ (pc[t] \in WorkCalls.locked <=> l \in WorkCalls.locked)
      /\ \A w \in WaitList : {pc[t], l} \intersect WorkCalls.lists[w] = {}
  BY <1>1, <1>2, WorkCallsAre DEF Label, WorkLabel
<1>5. Quiet
  BY <1>1, <1>2, <1>4, MoveQuiet
<1> QED
  BY <1>1, <1>3, <1>5, QuietStep
\* A client waits for the semaphore of the queue.
LEMMA WaitSyncGood ==
  ASSUME WaitInv, NEW t \in Thread, WaitSync(t), UNCHANGED flag
  PROVE  WaitGood
<1>1. /\ k.cur = t /\ pc[t] = "sync" /\ t # Idle /\ Goto(t, "syncing") /\ UNCHANGED wq
      /\ k' = SuspendTimed([k EXCEPT !.err[t] = "EINTR"], "sync", "FIFO", t, FALSE)
  BY AtPlace DEF WaitSync, At, workVars
<1>2. t # Worker
  BY <1>1 DEF WaitInv, WorkerFits
<1> DEFINE e == "EINTR"
           fin == FALSE
           fl == "FIFO"
           w == "sync"
           r == SuspendTimed([k EXCEPT !.err[t] = e], w, fl, t, fin)
           l == "syncing"
           to == [pc EXCEPT ![t] = l]
<1>3. k' = r /\ pc' = to
  BY <1>1 DEF Goto
<1>4. /\ e \in Error /\ fin \in BOOLEAN /\ fl \in {"FIFO", "PRIO"} /\ w \in WaitList
      /\ l \in WorkCalls.labels /\ l \in WorkCalls.lists[w] /\ l \in WorkCalls.out
      /\ l \notin CompletionLabel /\ w # "done"
  BY WorkCallsAre DEF Error, Label, WorkLabel, CompletionLabel
<1>5. Sound(k, pc, WorkCalls) /\ IpcInv(k) /\ CallsOK(WorkCalls) /\ t = k.cur
  BY <1>1, WorkCallsAre DEF WaitInv, Sound
<1>6. /\ pc[t] \notin WorkCalls.out /\ pc[t] \notin WorkCalls.locked
      /\ \A v \in WaitList : pc[t] \notin WorkCalls.lists[v]
  BY <1>1, WorkCallsAre
<1>7. k.stat[t] = "running" /\ k.lock = 0
  BY <1>1, <1>6, OnCpu
<1>8. \A x \in Thread : to[x] = IF x = t THEN l ELSE pc[x]
  BY <1>5 DEF Sound
<1> HIDE DEF w, l, fl
<1>9. to = [pc EXCEPT ![t] = l] /\ r = SuspendTimed([k EXCEPT !.err[t] = e], w, fl, t, fin)
  OBVIOUS
<1> HIDE DEF e, fin
<1>10. Suspended(r, k, w, t)
  BY <1>4, <1>9 DEF Suspended
<1>11. Waits(SuspendTimed([k EXCEPT !.err[t] = e], w, fl, t, fin), k, w, t, e, fin)
  BY <1>1, <1>4, <1>5, <1>7, SuspendWaits
<1>12. Waits(r, k, w, t, e, fin)
  BY <1>9, <1>11
<1> HIDE DEF to, r
<1>13. /\ Sound(r, to, WorkCalls)
       /\ \A v \in WaitList : v # w /\ pc[t] \notin WorkCalls.lists[v]
                                => Calm(r, to, k, pc, v, WorkCalls.lists[v])
  <2> HIDE DEF WorkCalls
  <2>1. l \in WorkCalls.labels /\ l \in WorkCalls.lists[w] /\ l \in WorkCalls.out /\ w \in WaitList
    BY <1>4
  <2>2. t = k.cur /\ t # Idle /\ CallsOK(WorkCalls) /\ Sound(k, pc, WorkCalls)
    BY <1>1, <1>5
  <2>3. pc[t] \notin WorkCalls.out /\ pc[t] \notin WorkCalls.locked /\ to = [pc EXCEPT ![t] = l]
    BY <1>6, <1>9
  <2> QED BY <1>10, <2>1, <2>2, <2>3, SoundSuspends
<1>14. DoneFits(r, to, flag)
  <2>1. Calm(r, to, k, pc, "done", WorkCalls.lists["done"]) /\ IpcInv(r)
    BY <1>4, <1>6, <1>13, WorkCallsAre DEF Sound
  <2>2. \A x \in Thread : to[x] \in CompletionLabel => pc[x] \in CompletionLabel
    BY <1>4, <1>8
  <2>3. DoneFits(k, pc, flag)
    BY DEF WaitInv
  <2> QED BY <1>5, <2>1, <2>2, <2>3, DoneCalm
<1>15. Asleep(r) <=> Asleep(k)
  <2>1. k.stat \in [Thread -> Stat]
    BY <1>5 DEF IpcInv, KernelInv, ListFacts, KernelState
  <2> QED BY <1>2, <1>12, <2>1, WorkCallsAre DEF Waits, Asleep
<1>16. pc'[Worker] = pc[Worker]
  BY <1>2, <1>3, <1>8, WorkCallsAre
<1>17. Quiet
  BY <1>3, <1>13, <1>14, <1>15 DEF Quiet
<1> QED
  BY <1>1, <1>16, <1>17, OthersStep

\* The scheduler is locked or unlocked by the current thread.
LEMMA LockQuiet ==
  ASSUME WaitInv, NEW t \in Thread, NEW l \in Label, NEW n, k' = [k EXCEPT !.lock = n],
         n = IF l \in WorkCalls.locked THEN 1 ELSE 0, k.cur = t, Goto(t, l), t # Idle,
         pc[t] \notin WorkCalls.out, UNCHANGED flag,
         \A w \in WaitList : {pc[t], l} \intersect WorkCalls.lists[w] = {}
  PROVE  Quiet
<1>1. /\ Sound(k, pc, WorkCalls) /\ IpcInv(k) /\ CallsOK(WorkCalls) /\ t = k.cur
      /\ l \in WorkCalls.labels
      /\ \A v \in WaitList : l \notin WorkCalls.lists[v]
  BY WorkCallsAre DEF WaitInv, Sound
<1> DEFINE to == [pc EXCEPT ![t] = l]
           r  == [k EXCEPT !.lock = n]
<1>2. k' = r /\ pc' = to
  BY DEF Goto
<1>3. LockedAs(r, k, l, WorkCalls)
  BY DEF LockedAs
<1>4. \A x \in Thread : to[x] = IF x = t THEN l ELSE pc[x]
  BY <1>1 DEF Sound
<1>5. r.stat = k.stat
  BY <1>1 DEF IpcInv, KernelInv, ListFacts, KernelState
<1>6. to = [pc EXCEPT ![t] = l]
  OBVIOUS
<1> HIDE DEF to, r
<1>7. /\ Sound(r, to, WorkCalls)
      /\ \A v \in WaitList : pc[t] \notin WorkCalls.lists[v]
           => Calm(r, to, k, pc, v, WorkCalls.lists[v])
  BY <1>1, <1>3, <1>6, SoundLocks
<1>8. DoneFits(r, to, flag)
  <2>1. Calm(r, to, k, pc, "done", WorkCalls.lists["done"]) /\ IpcInv(r) /\ l \notin CompletionLabel
    BY <1>7, WorkCallsAre DEF Sound
  <2>2. \A x \in Thread : to[x] \in CompletionLabel => pc[x] \in CompletionLabel
    BY <1>4, <2>1
  <2>3. DoneFits(k, pc, flag)
    BY DEF WaitInv
  <2> QED BY <1>1, <2>1, <2>2, <2>3, DoneCalm
<1> QED
  BY <1>2, <1>5, <1>7, <1>8 DEF Quiet, Asleep

LEMMA CancelAllGood ==
  ASSUME WaitInv, NEW t \in Thread, CancelAll(t), UNCHANGED flag
  PROVE  WaitGood
<1>1. /\ k.cur = t /\ pc[t] = Home(t) /\ t # Idle /\ Goto(t, "purge") /\ UNCHANGED wq
      /\ k' = [k EXCEPT !.lock = k.lock + 1]
  BY WorkQueueAssumption DEF CancelAll, Calls, At
<1>2. pc[t] \in {"run", "work"} /\ (t = Worker => pc[t] = "work")
  BY <1>1 DEF Home
<1> DEFINE l == "purge"
           n == k.lock + 1
<1>3. /\ l \in Label /\ l \in WorkCalls.locked /\ pc[t] \notin WorkCalls.out \union WorkCalls.locked
      /\ \A w \in WaitList : {pc[t], l} \intersect WorkCalls.lists[w] = {}
  BY <1>2, WorkCallsAre DEF Label, WorkLabel
<1>4. WorkerFits(wq', pc'[Worker])
  BY <1>1, <1>2, GoFits
<1>5. n = IF l \in WorkCalls.locked THEN 1 ELSE 0
  BY <1>1, <1>3, OnCpu
<1>6. k' = [k EXCEPT !.lock = n] /\ Goto(t, l)
  BY <1>1
<1> HIDE DEF l, n
<1>7. Quiet
  BY <1>1, <1>3, <1>5, <1>6, LockQuiet
<1> QED
  BY <1>1, <1>4, <1>7, QuietStep

LEMMA PurgeGood ==
  ASSUME WorkInv, WaitInv, NEW t \in Thread, Purge(t) \/ PurgeDelayed(t), UNCHANGED flag
  PROVE  WaitGood
<1>1. k.cur = t /\ pc[t] \in {"purge", "purged"} /\ t # Idle
  BY AtPlace DEF Purge, PurgeDelayed, At
<1>2. CASE \E x : wq' = Cancelled(x) /\ UNCHANGED <<k, pc>>
  BY <1>2, CancelGood
<1>3. CASE Goto(t, "purged") /\ UNCHANGED <<wq, k>>
  <2> DEFINE l == "purged"
  <2>1. /\ l \in Label /\ Goto(t, l)
        /\ pc[t] \notin WorkCalls.out /\ (pc[t] \in WorkCalls.locked <=> l \in WorkCalls.locked)
        /\ \A w \in WaitList : {pc[t], l} \intersect WorkCalls.lists[w] = {}
    BY <1>1, <1>3, WorkCallsAre DEF Label, WorkLabel
  <2>2. WorkerFits(wq', pc'[Worker])
    BY <1>1, <1>3, GoFits
  <2> HIDE DEF l
  <2>3. Quiet
    BY <1>1, <1>3, <2>1, MoveQuiet
  <2> QED BY <1>3, <2>2, <2>3, QuietStep
<1>4. CASE Goto(t, "resched") /\ UNCHANGED wq /\ k' = [k EXCEPT !.lock = k.lock - 1]
  <2> DEFINE l == "resched"
             n == k.lock - 1
  <2>1. /\ l \in Label /\ l \notin WorkCalls.locked /\ pc[t] \notin WorkCalls.out
        /\ \A w \in WaitList : {pc[t], l} \intersect WorkCalls.lists[w] = {}
    BY <1>1, WorkCallsAre DEF Label
  <2>2. WorkerFits(wq', pc'[Worker])
    BY <1>1, <1>4, GoFits
  <2>3. n = IF l \in WorkCalls.locked THEN 1 ELSE 0
    BY <1>1, <2>1, WorkCallsAre DEF WaitInv, Sound, LockFits
  <2>4. k' = [k EXCEPT !.lock = n] /\ Goto(t, l)
    BY <1>4
  <2> HIDE DEF l, n
  <2>5. Quiet
    BY <1>1, <2>1, <2>3, <2>4, LockQuiet
  <2> QED BY <1>4, <2>2, <2>5, QuietStep
<1> QED
  BY <1>2, <1>3, <1>4 DEF Purge, PurgeDelayed

\* A thread comes back from rt_schedule, to where it was going.
LEMMA BackGood ==
  ASSUME WaitInv, NEW t \in Thread, UNCHANGED <<wq, flag>>,
         \/ ScheduleThen(t, "resched", Home(t))
         \/ ScheduleThen(t, "syncing", "synced")
         \/ ScheduleThen(t, "completing", "complete")
         \/ t = Worker /\ ScheduleThen(t, "loop", "run")
  PROVE  WaitGood
<1>1. PICK from \in WorkCalls.out, l \in Label :
        /\ ScheduleThen(t, from, l)
        /\ \/ from = "resched" /\ l = Home(t)
           \/ from = "syncing" /\ l = "synced"
           \/ from = "completing" /\ l = "complete"
           \/ t = Worker /\ from = "loop" /\ l = "run"
  <2>1. /\ \A l \in {"resched", "syncing", "completing", "loop"} : l \in WorkCalls.out
        /\ \A l \in {"run", "work", "synced", "complete"} : l \in Label
        /\ Home(t) \in {"run", "work"}
    BY WorkCallsAre DEF Home, Label, WorkLabel, CompletionLabel
  <2> QED BY <2>1
<1>2. /\ l \notin WorkCalls.locked
      /\ \A w \in WaitList : from \in WorkCalls.lists[w] <=> l \in WorkCalls.lists[w]
  <2>1. \A w \in WaitList : WorkCalls.lists[w] =
          IF w = "done" THEN CompletionLabel ELSE IF w = "sync" THEN {"syncing", "synced"} ELSE {}
    BY DEF WorkCalls
  <2>2. Home(t) \in {"run", "work"}
    BY DEF Home
  <2> QED BY <1>1, <2>1, <2>2, WorkCallsAre DEF CompletionLabel
<1>3. Quiet
  BY <1>1, <1>2, ScheduleQuiet
<1>4. Goto(t, l) /\ pc[t] = from
  BY <1>1 DEF ScheduleThen, At
<1>5. WorkerFits(wq', pc'[Worker])
  <2>1. t = Worker => from # "syncing" /\ from # "completing"
    BY <1>4 DEF WaitInv, WorkerFits
  <2> QED BY <1>1, <1>4, <2>1, GoFits DEF Home
<1> QED
  BY <1>3, <1>5, QuietStep

\* A client is back from the semaphore of the queue.
LEMMA SyncReturnsGood ==
  ASSUME WaitInv, NEW t \in Thread, SyncReturns(t), UNCHANGED flag
  PROVE  WaitGood
<1>1. /\ k.cur = t /\ pc[t] = "synced" /\ Goto(t, "run") /\ UNCHANGED <<k, wq>> /\ t # Idle
  BY AtPlace DEF SyncReturns, At, workVars
<1> DEFINE to == [pc EXCEPT ![t] = "run"]
<1>2. pc' = to
  BY <1>1 DEF Goto
<1>3. /\ Sound(k, pc, WorkCalls) /\ IpcInv(k) /\ CallsOK(WorkCalls) /\ t = k.cur
      /\ pc[t] \notin WorkCalls.out /\ pc[t] \notin WorkCalls.locked
      /\ pc[t] \notin WorkCalls.lists["done"] /\ "done" \in WaitList
  BY <1>1, WorkCallsAre DEF WaitInv, Sound, CompletionLabel
<1>4. \A x \in Thread : to[x] = IF x = t THEN "run" ELSE pc[x]
  BY <1>3 DEF Sound
<1> DEFINE l == "run"
<1>5. l \in WorkCalls.labels /\ l \notin WorkCalls.locked /\ l \notin WorkCalls.lists["done"]
      /\ l = "run" /\ to = [pc EXCEPT ![t] = l] /\ l \notin CompletionLabel
  BY WorkCallsAre DEF Label, CompletionLabel
<1> HIDE DEF to, l
<1>6. /\ Sound(k, to, WorkCalls)
      /\ \A w \in WaitList : l \notin WorkCalls.lists[w] /\ pc[t] \notin WorkCalls.lists[w]
           => Calm(k, to, k, pc, w, WorkCalls.lists[w])
  <2> HIDE DEF WorkCalls
  <2> QED BY <1>3, <1>5, SoundMoves
<1>7. DoneFits(k, to, flag)
  <2>1. Calm(k, to, k, pc, "done", WorkCalls.lists["done"])
    BY <1>3, <1>5, <1>6
  <2>2. \A x \in Thread : to[x] \in CompletionLabel => pc[x] \in CompletionLabel
    BY <1>4, <1>5
  <2>3. DoneFits(k, pc, flag)
    BY DEF WaitInv
  <2> QED BY <1>3, <2>1, <2>2, <2>3, DoneCalm
<1>8. Quiet
  BY <1>1, <1>2, <1>6, <1>7 DEF Quiet
<1>9. WorkerFits(wq', pc'[Worker])
  <2>1. t # Worker
    BY <1>1 DEF WaitInv, WorkerFits
  <2> QED BY <1>1, <2>1, GoFits
<1> QED
  BY <1>1, <1>8, <1>9, QuietStep

-----------------------------------------------------------------------------
(* The steps of the worker *)

\* The worker, or the thread that sleeps, is suspended.
LEMMA StopKeeps ==
  ASSUME WaitInv, NEW t \in Thread, t = k.cur, t # Idle,
         pc[t] \in {"run", "work"}, NEW l \in {"loop", "resched"}, Goto(t, l),
         Stopped(k', k, t), UNCHANGED flag
  PROVE  Sound(k', pc', WorkCalls) /\ DoneFits(k', pc', flag')
<1> DEFINE to == [pc EXCEPT ![t] = l]
           r == k'
<1>1. pc' = to
  BY DEF Goto
<1>2. Sound(k, pc, WorkCalls) /\ IpcInv(k) /\ CallsOK(WorkCalls)
  BY WorkCallsAre DEF WaitInv, Sound
<1>3. \A x \in Thread : to[x] = IF x = t THEN l ELSE pc[x]
  BY <1>2 DEF Sound
<1>4. /\ pc[t] \notin WorkCalls.out \union WorkCalls.locked
      /\ l \in WorkCalls.labels /\ l \in WorkCalls.out /\ l \notin CompletionLabel
      /\ \A v \in WaitList : {pc[t], l} \intersect WorkCalls.lists[v] = {}
  BY WorkCallsAre DEF Label, WorkLabel, CompletionLabel
<1>5. GoesTo(to, pc, t, l) /\ Stopped(r, k, t)
  BY DEF GoesTo
<1> HIDE DEF to, r
<1>6. /\ Sound(r, to, WorkCalls)
      /\ \A w \in WaitList : Calm(r, to, k, pc, w, WorkCalls.lists[w])
  BY <1>2, <1>4, <1>5, SoundStops
<1>7. DoneFits(r, to, flag)
  <2>1. Calm(r, to, k, pc, "done", WorkCalls.lists["done"]) /\ IpcInv(r)
    BY <1>6, WorkCallsAre DEF Sound
  <2>2. \A x \in Thread : to[x] \in CompletionLabel => pc[x] \in CompletionLabel
    BY <1>3, <1>4
  <2>3. DoneFits(k, pc, flag)
    BY DEF WaitInv
  <2> QED BY <1>2, <2>1, <2>2, <2>3, DoneCalm
<1> QED
  BY <1>1, <1>6, <1>7 DEF r

\* The worker has looked at an empty list.
LEMMA WorkerWaitsGood ==
  ASSUME WaitInv, WorkerWaits, UNCHANGED flag
  PROVE  WaitGood
<1>1. /\ k.cur = Worker /\ pc[Worker] = "run" /\ wq.list = <<>> /\ UNCHANGED wq
      /\ k' = rt_thread_suspend(k, Worker) /\ Goto(Worker, "loop")
      /\ Worker \in Thread /\ Worker # Idle
  BY WorkCallsAre DEF WorkerWaits, At, workVars
<1>2. k.stat[Worker] = "running" /\ k.lock = 0 /\ IpcInv(k) /\ ~Asleep(k)
  <2>1. pc[Worker] \notin WorkCalls.out /\ pc[Worker] \notin WorkCalls.locked
    BY <1>1, WorkCallsAre
  <2>2. IpcInv(k)
    BY DEF WaitInv, Sound
  <2> QED BY <1>1, <2>1, <2>2, OnCpu
<1>3. Stopped(k', k, Worker)
  BY <1>1, <1>2, SuspendThread DEF Stopped
<1>4. Sound(k', pc', WorkCalls) /\ DoneFits(k', pc', flag')
  BY <1>1, <1>3, StopKeeps
<1>5. WorkerFits(wq', pc'[Worker])
  BY <1>1, GoFits
<1> QED
  BY <1>1, <1>2, <1>4, <1>5 DEF WaitGood, WaitInv, NoLostWork, Undisturbed

\* A work function sleeps.
LEMMA WorkSleepsGood ==
  ASSUME WaitInv, WorkSleeps, UNCHANGED flag
  PROVE  WaitGood
<1>1. /\ k.cur = Worker /\ pc[Worker] = "work" /\ UNCHANGED wq
      /\ k' = [rt_thread_suspend(k, Worker) EXCEPT !.armed = @ \union {Worker},
                                                   !.err[Worker] = "EINTR"]
      /\ Goto(Worker, "resched") /\ Worker \in Thread /\ Worker # Idle
  BY WorkCallsAre DEF WorkSleeps, At, workVars
<1>2. k.stat[Worker] = "running" /\ k.lock = 0 /\ IpcInv(k) /\ ~Asleep(k)
  <2>1. pc[Worker] \notin WorkCalls.out /\ pc[Worker] \notin WorkCalls.locked
    BY <1>1, WorkCallsAre
  <2>2. IpcInv(k)
    BY DEF WaitInv, Sound
  <2> QED BY <1>1, <2>1, <2>2, OnCpu
<1>3. Stopped(k', k, Worker)
  <2> DEFINE e == "EINTR"
  <2>1. e \in Error /\ Sleeps(k', k, Worker, e)
    BY <1>1 DEF Error, Sleeps
  <2>2. Worker = k.cur /\ Worker # Idle
    BY <1>1
  <2> HIDE DEF e
  <2>3. Slept(k', k, Worker, e)
    BY <1>2, <2>1, <2>2, SleepWaits DEF Sleeps
  <2> QED BY <1>2, <2>3, SleptStopped
<1>4. Sound(k', pc', WorkCalls) /\ DoneFits(k', pc', flag')
  BY <1>1, <1>3, StopKeeps
<1>5. WorkerFits(wq', pc'[Worker]) /\ wq'.current # None
  <2>1. wq.current # None
    BY <1>1 DEF WaitInv, WorkerFits
  <2> QED BY <1>1, <2>1, GoFits
<1> QED
  BY <1>2, <1>4, <1>5 DEF WaitGood, WaitInv, NoLostWork, Undisturbed
LEMMA WorkerTakesGood ==
  ASSUME WorkInv, WaitInv, WorkerTakes, UNCHANGED flag
  PROVE  WaitGood
<1>1. /\ k.cur = Worker /\ pc[Worker] = "run" /\ wq.list # <<>> /\ UNCHANGED k
      /\ Goto(Worker, "work") /\ Worker \in Thread /\ Worker # Idle
  BY WorkCallsAre DEF WorkerTakes, At
<1>2. wq'.current # None
  <2>1. wq \in QueueState
    BY DEF WorkInv, TypeInv
  <2>2. wq.list \in Seq(Work)
    BY <2>1 DEF QueueState
  <2>3. Head(wq.list) \in Work
    BY <1>1, <2>2, HeadList
  <2>4. wq'.current = Head(wq.list)
    BY <2>1 DEF WorkerTakes, QueueState
  <2> QED BY <2>3, <2>4, WorkQueueAssumption
<1> DEFINE l == "work"
<1>3. /\ l \in Label /\ Goto(Worker, l)
      /\ pc[Worker] \notin WorkCalls.out /\ (pc[Worker] \in WorkCalls.locked <=> l \in WorkCalls.locked)
      /\ \A w \in WaitList : {pc[Worker], l} \intersect WorkCalls.lists[w] = {}
  BY <1>1, WorkCallsAre DEF Label, WorkLabel
<1>4. WorkerFits(wq', pc'[Worker])
  <2>1. pc'[Worker] = "work"
    BY <1>1 DEF Goto, WaitInv, Sound
  <2> QED BY <1>2, <2>1 DEF WorkerFits
<1> HIDE DEF l
<1>5. Quiet
  BY <1>1, <1>3, MoveQuiet
<1> QED
  BY <1>2, <1>4, <1>5, QuietStep

LEMMA WorkEndsGood ==
  ASSUME WorkInv, WaitInv, WorkEnds, UNCHANGED flag
  PROVE  WaitGood
<1>1. /\ k.cur = Worker /\ pc[Worker] = "work" /\ UNCHANGED k
      /\ Goto(Worker, "ack") /\ Worker \in Thread /\ Worker # Idle
  BY WorkCallsAre DEF WorkEnds, At
<1>2. wq'.current = None
  BY DEF WorkEnds, WorkInv, TypeInv, QueueState
<1> DEFINE l == "ack"
<1>3. /\ l \in Label /\ Goto(Worker, l)
      /\ pc[Worker] \notin WorkCalls.out /\ (pc[Worker] \in WorkCalls.locked <=> l \in WorkCalls.locked)
      /\ \A w \in WaitList : {pc[Worker], l} \intersect WorkCalls.lists[w] = {}
  BY <1>1, WorkCallsAre DEF Label, WorkLabel
<1>4. WorkerFits(wq', pc'[Worker])
  <2>1. pc'[Worker] = "ack"
    BY <1>1 DEF Goto, WaitInv, Sound
  <2> QED BY <1>2, <2>1 DEF WorkerFits
<1>5. ~Asleep(k)
  BY <1>1, <1>3, OnCpu
<1> HIDE DEF l
<1>6. Quiet
  BY <1>1, <1>3, MoveQuiet
<1> QED
  BY <1>4, <1>5, <1>6, QuietStep

\* The worker wakes whoever waits for it.
LEMMA WorkAckGood ==
  ASSUME WaitInv, WorkAck, UNCHANGED flag
  PROVE  WaitGood
<1>1. /\ k.cur = Worker /\ pc[Worker] = "ack" /\ UNCHANGED wq
      /\ k' = ResumeEach(k, "sync", "EOK")
      /\ Goto(Worker, "loop") /\ Worker \in Thread /\ Worker # Idle
  BY WorkCallsAre DEF WorkAck, At, workVars
<1> DEFINE e == "EOK"
           w == "sync"
           r == ResumeEach(k, w, e)
           l == "loop"
<1>2. e \in Error /\ w \in WaitList /\ w # "done" /\ "done" \in WaitList
  BY WorkCallsAre DEF Error
<1>3. /\ l \in Label /\ Goto(Worker, l)
      /\ pc[Worker] \notin WorkCalls.out /\ (pc[Worker] \in WorkCalls.locked <=> l \in WorkCalls.locked)
      /\ \A v \in WaitList : {pc[Worker], l} \intersect WorkCalls.lists[v] = {}
  BY <1>1, WorkCallsAre DEF Label, WorkLabel
<1>4. k' = r
  BY <1>1
<1>5. Sound(k, pc, WorkCalls) /\ IpcInv(k) /\ CallsOK(WorkCalls) /\ DoneFits(k, pc, flag)
  BY WorkCallsAre DEF WaitInv, Sound
<1> HIDE DEF w, e, l
<1>6. PartlyWoke(r, k, w, e)
  BY <1>2, <1>5, ResumeEachWakes DEF AllWoke
<1> HIDE DEF r
<1>7. /\ Sound(r, pc, WorkCalls) /\ r.cur = k.cur
      /\ \A v \in WaitList : v # w => Calm(r, pc, k, pc, v, WorkCalls.lists[v])
  BY <1>2, <1>5, <1>6, SoundPartlyWoke
<1>8. DoneFits(r, pc, flag)
  <2>1. Calm(r, pc, k, pc, "done", WorkCalls.lists["done"]) /\ IpcInv(r)
    BY <1>2, <1>7 DEF Sound
  <2> QED BY <1>5, <2>1, DoneCalm
<1>9. Sound(r, pc', WorkCalls) /\ DoneFits(r, pc', flag)
  BY <1>1, <1>3, <1>7, <1>8, MoveKeeps
<1>10. Asleep(r) <=> Asleep(k)
  <2>1. ~On(k, w, Worker)
    BY <1>1, <1>2, <1>3, <1>5 DEF Sound, ListFits
  <2> QED BY <1>1, <1>6, <2>1 DEF PartlyWoke, Asleep
<1>11. Quiet
  BY <1>1, <1>4, <1>9, <1>10 DEF Quiet
<1>12. WorkerFits(wq', pc'[Worker])
  BY <1>1, GoFits
<1> QED
  BY <1>1, <1>11, <1>12, QuietStep

-----------------------------------------------------------------------------
(* The steps of the completion *)

\* The one thread that waits is woken, and nobody waits any more.
LEMMA WokenAll ==
  ASSUME WaitInv, NEW u, HeadWoke(u, k, "done", "EOK")
  PROVE  /\ u.wait["done"] = <<>>
         /\ Asleep(u) <=> Asleep(k)
<1>1. PICK h \in Thread : On(k, "done", h) /\ Woke(u, k, h, "EOK")
  BY DEF HeadWoke
<1>2. /\ IpcInv(k) /\ IpcInv(u) /\ "done" \in WaitList /\ Waiter # Worker /\ Worker \in Thread
      /\ \A x \in Thread : On(k, "done", x) => pc[x] \in CompletionLabel
  BY <1>1, WorkCallsAre DEF WaitInv, Sound, ListFits, Woke
<1>3. \A x \in Thread : On(k, "done", x) => x = Waiter
  BY <1>2 DEF WaitInv, DoneFits
<1>4. \A x \in Thread : ~On(u, "done", x)
  BY <1>1, <1>2, <1>3 DEF Woke
<1>5. u.wait["done"] = <<>>
  <2>1. u.wait["done"] \in Seq(Thread)
    BY <1>2 DEF IpcInv, KernelInv, ListFacts, KernelState
  <2>2. \A x : ~Contains(u.wait["done"], x)
    <3> SUFFICES ASSUME NEW x, Contains(u.wait["done"], x) PROVE FALSE
      OBVIOUS
    <3>1. x \in Thread
      BY <2>1, OnList
    <3> QED BY <1>4, <3>1 DEF On
  <2> QED BY <2>1, <2>2, HeadList
<1>6. Asleep(u) <=> Asleep(k)
  <2>1. k.stat \in [Thread -> Stat]
    BY <1>2 DEF IpcInv, KernelInv, ListFacts, KernelState
  <2>2. h # Worker
    BY <1>1, <1>2, <1>3
  <2> QED BY <1>1, <1>2, <2>1, <2>2 DEF Woke, Asleep
<1> QED
  BY <1>5, <1>6

\* There is somebody to wake, and he is told that it is done.
LEMMA WokenHead ==
  ASSUME WaitInv, k.wait["done"] # <<>>
  PROVE  HeadWoke(Woken(k), k, "done", "EOK")
<1>1. IpcInv(k) /\ "done" \in WaitList /\ Untold(k, "done")
  BY WorkCallsAre DEF WaitInv, Sound, DoneFits
<1>2. HeadWoke(rt_thread_resume(k, Head(k.wait["done"])), k, "done", "EOK")
  BY <1>1, HeadResumed
<1> QED
  BY <1>2 DEF Woken

\* Done is called by a thread.
LEMMA DoneGood ==
  ASSUME WaitInv, NEW d \in Doer, Done(d[1], d[2]), UNCHANGED wq
  PROVE  WaitGood
<1> DEFINE t == d[1]
<1>1. /\ t \in Thread /\ t # Idle /\ pc[t] \in {"run", "work"} /\ k.cur = t
      /\ t = Worker => pc[t] = "work"
  BY CompletionAssumption, DeferredAssumption DEF Done, At
<1>2. Sound(k, pc, WorkCalls) /\ DoneFits(k, pc, flag) /\ pc \in [Thread -> Label]
      /\ CallsOK(WorkCalls)
  BY WorkCallsAre DEF WaitInv, Sound
<1>3. CASE k.wait["done"] = <<>>
  <2>1. UNCHANGED <<k, pc>> /\ flag' = TRUE
    BY <1>1, <1>2, <1>3 DEF Done, Woken, Goto, At
  <2>2. DoneFits(k, pc, TRUE)
    BY <1>2, <1>3 DEF DoneFits
  <2>3. Quiet
    BY <1>2, <2>1, <2>2 DEF Quiet
  <2> QED BY <2>1, <2>3, OthersStep
<1>4. CASE k.wait["done"] # <<>>
  <2> DEFINE to == [pc EXCEPT ![t] = "resched"]
             r  == Woken(k)
             l  == "resched"
             e  == "EOK"
             w  == "done"
  <2>1. pc' = to /\ k' = r /\ flag' = TRUE /\ Goto(t, "resched")
    BY <1>4 DEF Done, Goto
  <2>2. HeadWoke(r, k, w, e) /\ w \in WaitList /\ e \in Error
    BY <1>4, WokenHead, WorkCallsAre DEF Error
  <2>3. r.wait["done"] = <<>> /\ (Asleep(r) <=> Asleep(k))
    BY <2>2, WokenAll
  <2>4. \A x \in Thread : to[x] = IF x = t THEN l ELSE pc[x]
    BY <1>2
  <2>5. /\ l \in WorkCalls.labels /\ (pc[t] \in WorkCalls.locked <=> l \in WorkCalls.locked)
        /\ \A v \in WaitList : l \notin WorkCalls.lists[v]
        /\ pc[t] \notin WorkCalls.lists[w] /\ pc[t] \notin WorkCalls.out
        /\ l \notin CompletionLabel /\ to = [pc EXCEPT ![t] = l] /\ t = k.cur
    BY <1>1, WorkCallsAre DEF Label, CompletionLabel
  <2> HIDE DEF t, to, r, l, e, w
  <2>6. Sound(r, to, WorkCalls)
    <3> HIDE DEF WorkCalls
    <3> QED BY <1>1, <1>2, <2>2, <2>5, SoundWakesTo
  <2>7. DoneFits(r, to, TRUE)
    <3>1. Untold(r, "done")
      <4>1. \A x : ~Contains(<<>>, x)
        BY DEF Contains
      <4> QED BY <2>3, <4>1 DEF Untold, On
    <3>2. \A x \in Thread : to[x] \in CompletionLabel => x = Waiter
      BY <1>2, <2>4, <2>5 DEF DoneFits
    <3> QED BY <2>3, <3>1, <3>2 DEF DoneFits
  <2>8. Quiet
    BY <2>1, <2>3, <2>6, <2>7 DEF Quiet
  <2>9. WorkerFits(wq', pc'[Worker])
    BY <1>1, <2>1, GoFits
  <2> QED BY <2>8, <2>9, QuietStep
<1> QED
  BY <1>3, <1>4

\* Done is called by an interrupt handler.
LEMMA IsrDoneGood ==
  ASSUME WaitInv, IsrDone, UNCHANGED wq
  PROVE  WaitGood
<1>1. Sound(k, pc, WorkCalls) /\ DoneFits(k, pc, flag) /\ CallsOK(WorkCalls)
  BY WorkCallsAre DEF WaitInv, Sound
<1>2. flag' = TRUE /\ UNCHANGED pc
  BY DEF IsrDone
<1>3. CASE k.wait["done"] = <<>>
  <2>1. UNCHANGED k
    BY <1>3 DEF IsrDone
  <2>2. DoneFits(k, pc, TRUE)
    BY <1>1, <1>3 DEF DoneFits
  <2>3. Quiet
    BY <1>1, <1>2, <2>1, <2>2 DEF Quiet
  <2> QED BY <1>2, <2>3, OthersStep
<1>4. CASE k.wait["done"] # <<>>
  <2> DEFINE u == Woken(k)
             r == rt_schedule(u)
             w == "done"
  <2>1. k' = r
    BY <1>4 DEF IsrDone
  <2>2. HeadWoke(u, k, w, "EOK") /\ w \in WaitList
    BY <1>4, WokenHead, WorkCallsAre
  <2>3. u.wait["done"] = <<>> /\ (Asleep(u) <=> Asleep(k)) /\ IpcInv(u)
    BY <2>2, WokenAll DEF HeadWoke, Woke
  <2> HIDE DEF u
  <2>4. Rescheduled(r, u)
    BY <2>3, Reschedules
  <2>5. r = rt_schedule(u)
    OBVIOUS
  <2> HIDE DEF r, w
  <2>6. Sound(r, pc, WorkCalls)
    BY <1>1, <2>2, <2>5, SoundIsrWakes
  <2>7. r.wait["done"] = <<>> /\ (Asleep(r) <=> Asleep(k))
    BY <2>3, <2>4, WorkCallsAre DEF Rescheduled, Asleep
  <2>8. DoneFits(r, pc, TRUE)
    <3>1. Untold(r, "done")
      <4>1. \A x : ~Contains(<<>>, x)
        BY DEF Contains
      <4> QED BY <2>7, <4>1 DEF Untold, On
    <3> QED BY <1>1, <2>7, <3>1 DEF DoneFits
  <2>9. Quiet
    BY <1>2, <2>1, <2>6, <2>7, <2>8 DEF Quiet
  <2> QED BY <1>2, <2>9, OthersStep
<1> QED
  BY <1>3, <1>4
\* The thread of the completion finds the flag set, or begins to wait.
LEMMA AwaitGood ==
  ASSUME WaitInv, Await, UNCHANGED wq
  PROVE  WaitGood
<1>1. /\ k.cur = Waiter /\ pc[Waiter] = "run"
      /\ Waiter \in Thread /\ Waiter # Idle /\ Waiter # Worker
  BY WorkCallsAre DEF Await, At
<1>2. Sound(k, pc, WorkCalls) /\ IpcInv(k) /\ DoneFits(k, pc, flag) /\ CallsOK(WorkCalls)
  BY WorkCallsAre DEF WaitInv, Sound
<1>3. \A x \in Thread : pc[x] \notin CompletionLabel
  BY <1>1, <1>2 DEF DoneFits, CompletionLabel
<1>4. CASE flag' = FALSE /\ UNCHANGED <<k, pc>>
  <2>1. Alert(k, pc, "done", CompletionLabel) = {}
    BY <1>3 DEF Alert
  <2>2. DoneFits(k, pc, FALSE)
    BY <1>2, <2>1 DEF DoneFits
  <2>3. Quiet
    BY <1>2, <1>4, <2>2 DEF Quiet
  <2> QED BY <1>4, <2>3, OthersStep
<1>5. ASSUME NEW finite \in BOOLEAN, ~flag, UNCHANGED flag, Goto(Waiter, "completing"),
             k' = SuspendTimed([k EXCEPT !.err[Waiter] = "EOK"], "done", "FIFO", Waiter, finite)
      PROVE  WaitGood
  <2> DEFINE e == "EOK"
             fl == "FIFO"
             w == "done"
             r == SuspendTimed([k EXCEPT !.err[Waiter] = e], w, fl, Waiter, finite)
             l == "completing"
             to == [pc EXCEPT ![Waiter] = l]
  <2>1. k' = r /\ pc' = to
    BY <1>5 DEF Goto
  <2>2. e \in Error /\ fl \in {"FIFO", "PRIO"} /\ w \in WaitList /\ w = "done" /\ e = "EOK"
    BY WorkCallsAre DEF Error
  <2>3. l \in WorkCalls.labels /\ l \in WorkCalls.lists[w] /\ l \in WorkCalls.out
    BY WorkCallsAre DEF Label, CompletionLabel
  <2>4. /\ pc[Waiter] \notin WorkCalls.out /\ pc[Waiter] \notin WorkCalls.locked
        /\ Waiter = k.cur
    BY <1>1, WorkCallsAre
  <2>5. k.stat[Waiter] = "running" /\ k.lock = 0
    BY <1>1, <2>4, OnCpu
  <2>6. \A x \in Thread : to[x] = IF x = Waiter THEN l ELSE pc[x]
    BY <1>2 DEF Sound
  <2> HIDE DEF l, fl, w
  <2>7. /\ to = [pc EXCEPT ![Waiter] = l]
        /\ r = SuspendTimed([k EXCEPT !.err[Waiter] = e], w, fl, Waiter, finite)
    OBVIOUS
  <2>8. Untold(k, w)
    BY <1>2, <2>2 DEF DoneFits
  <2>9. Untold(r, w)
    BY <1>1, <1>2, <2>2, <2>4, <2>8, SuspendUntold
  <2> HIDE DEF e
  <2>10. Suspended(r, k, w, Waiter)
    BY <2>2, <2>7 DEF Suspended
  <2>11. Waits(SuspendTimed([k EXCEPT !.err[Waiter] = e], w, fl, Waiter, finite), k, w, Waiter, e, finite)
    BY <1>1, <1>2, <2>2, <2>4, <2>5, SuspendWaits
  <2>12. Waits(r, k, w, Waiter, e, finite)
    BY <2>7, <2>11
  <2> HIDE DEF to, r
  <2>13. Sound(r, to, WorkCalls)
    <3> HIDE DEF WorkCalls
    <3> QED BY <1>1, <1>2, <2>2, <2>3, <2>4, <2>7, <2>10, SoundSuspends
  <2>14. DoneFits(r, to, FALSE)
    <3>1. \A x \in Thread : to[x] \in CompletionLabel => x = Waiter
      BY <1>3, <2>6
    <3>2. On(r, "done", Waiter)
      BY <1>1, <2>2, <2>12 DEF Waits
    <3>3. Alert(r, to, "done", CompletionLabel) = {}
      BY <3>1, <3>2 DEF Alert
    <3> QED BY <2>2, <2>9, <3>1, <3>3 DEF DoneFits
  <2>15. Asleep(r) <=> Asleep(k)
    <3>1. k.stat \in [Thread -> Stat]
      BY <1>2 DEF IpcInv, KernelInv, ListFacts, KernelState
    <3> QED BY <1>1, <2>12, <3>1, WorkCallsAre DEF Waits, Asleep
  <2>16. pc'[Worker] = pc[Worker]
    BY <1>1, <2>1, <2>6, WorkCallsAre
  <2>17. flag' = FALSE
    BY <1>2, <1>5, <2>2 DEF Await
  <2>18. Quiet
    BY <2>1, <2>13, <2>14, <2>15, <2>17 DEF Quiet
  <2> QED BY <2>16, <2>18, OthersStep
<1> QED
  BY <1>4, <1>5 DEF Await

\* The thread of the completion is back and uses the flag up.
LEMMA AwaitReturnGood ==
  ASSUME WaitInv, AwaitReturn, UNCHANGED wq
  PROVE  WaitGood
<1>1. /\ k.cur = Waiter /\ pc[Waiter] = "complete" /\ Goto(Waiter, "run") /\ UNCHANGED k
      /\ flag' = FALSE /\ Waiter \in Thread /\ Waiter # Idle /\ Waiter # Worker
  BY WorkCallsAre DEF AwaitReturn, At
<1>2. Sound(k, pc, WorkCalls) /\ DoneFits(k, pc, flag) /\ CallsOK(WorkCalls)
  BY WorkCallsAre DEF WaitInv
<1>3. \A x \in Thread : pc'[x] = IF x = Waiter THEN "run" ELSE pc[x]
  BY <1>1, <1>2 DEF Goto, Sound
<1>4. Sound(k, pc', WorkCalls)
  <2> DEFINE lab == "run"
             goes == [pc EXCEPT ![Waiter] = lab]
  <2>1. pc' = goes /\ goes = [pc EXCEPT ![Waiter] = lab]
    BY <1>1 DEF Goto
  <2>2. /\ lab \in WorkCalls.labels /\ lab = "run" /\ Waiter = k.cur
        /\ pc[Waiter] \notin WorkCalls.out /\ (pc[Waiter] \in WorkCalls.locked <=> lab \in WorkCalls.locked)
    BY <1>1, WorkCallsAre DEF Label
  <2> HIDE DEF lab, goes, WorkCalls
  <2>3. Sound(k, goes, WorkCalls)
    BY <1>2, <2>1, <2>2, SoundMoves
  <2> QED BY <2>1, <2>3
<1>5. DoneFits(k, pc', FALSE)
  <2>1. \A x \in Thread : pc'[x] \notin CompletionLabel
    BY <1>2, <1>3 DEF DoneFits, CompletionLabel
  <2>2. Alert(k, pc', "done", CompletionLabel) = {}
    BY <2>1 DEF Alert
  <2> QED BY <1>2, <2>1, <2>2 DEF DoneFits
<1>6. Quiet
  BY <1>1, <1>4, <1>5 DEF Quiet
<1>7. pc'[Worker] = pc[Worker]
  BY <1>1, <1>3, WorkCallsAre
<1> QED
  BY <1>6, <1>7, OthersStep

-----------------------------------------------------------------------------
(* The clock *)

LEMMA SleepGood ==
  ASSUME WaitInv, NEW t \in Thread, ClientSleeps(t)
  PROVE  WaitGood
<1>1. /\ k.cur = t /\ pc[t] = "run" /\ t # Idle /\ t # Worker /\ UNCHANGED <<wq, flag>>
      /\ k' = [rt_thread_suspend(k, t) EXCEPT !.armed = @ \union {t}, !.err[t] = "EINTR"]
      /\ Goto(t, "resched")
  BY WorkQueueAssumption DEF ClientSleeps, SleepStart, At, workVars
<1>2. k.stat[t] = "running" /\ k.lock = 0 /\ IpcInv(k) /\ pc \in [Thread -> Label]
  <2>1. pc[t] \notin WorkCalls.out /\ pc[t] \notin WorkCalls.locked
    BY <1>1, WorkCallsAre
  <2>2. IpcInv(k) /\ pc \in [Thread -> Label]
    BY WorkCallsAre DEF WaitInv, Sound
  <2> QED BY <1>1, <2>1, <2>2, OnCpu
<1>3. \E e \in Error : Slept(k', k, t, e)
  <2> DEFINE e == "EINTR"
  <2>1. e \in Error /\ Sleeps(k', k, t, e)
    BY <1>1 DEF Error, Sleeps
  <2>2. t = k.cur /\ t # Idle
    BY <1>1
  <2> HIDE DEF e
  <2>3. Slept(k', k, t, e)
    BY <1>2, <2>1, <2>2, SleepWaits DEF Sleeps
  <2> QED BY <2>1, <2>3
<1>4. PICK e \in Error : Slept(k', k, t, e)
  BY <1>3
<1>5. Stopped(k', k, t)
  BY <1>2, <1>4, SleptStopped
<1>6. Sound(k', pc', WorkCalls) /\ DoneFits(k', pc', flag')
  BY <1>1, <1>5, StopKeeps
<1>7. Asleep(k') <=> Asleep(k)
  <2>1. k.stat \in [Thread -> Stat]
    BY <1>2 DEF IpcInv, KernelInv, ListFacts, KernelState
  <2> QED BY <1>1, <1>4, <2>1, WorkCallsAre DEF Slept, Asleep
<1>8. pc'[Worker] = pc[Worker]
  BY <1>1, <1>2, WorkCallsAre DEF Goto
<1> QED
  BY <1>1, <1>6, <1>7, <1>8, OthersStep DEF Quiet

\* The timer of a thread ends its wait: the one way a work function that
\* sleeps goes on.
LEMMA TimeoutGood ==
  ASSUME WaitInv, NEW t \in Thread, Timeout(t)
  PROVE  WaitGood
<1> DEFINE r == _thread_timeout(k, t)
<1>1. t \in k.armed /\ k' = r /\ UNCHANGED <<wq, pc, flag>>
  BY DEF Timeout, TimerExpires, workVars
<1>2. Sound(k, pc, WorkCalls) /\ IpcInv(k) /\ DoneFits(k, pc, flag)
  BY DEF WaitInv, Sound
<1>3. /\ Sound(r, pc, WorkCalls)
      /\ \A w \in WaitList : Calm(r, pc, k, pc, w, WorkCalls.lists[w])
  BY <1>1, <1>2, SoundTimeout
<1>4. PICK u : Woke(u, k, t, "ETIMEOUT") /\ Rescheduled(r, u)
  BY <1>1, <1>2, TimeoutWakes
<1> HIDE DEF r
<1>5. DoneFits(r, pc, flag)
  <2>1. Calm(r, pc, k, pc, "done", WorkCalls.lists["done"]) /\ IpcInv(r)
    BY <1>3, WorkCallsAre DEF Sound
  <2> QED BY <1>2, <2>1, DoneCalm
<1>6. IF t = Worker THEN r.err[Worker] = "ETIMEOUT" /\ ~Asleep(r)
                    ELSE Asleep(r) <=> Asleep(k)
  <2>1. k.stat \in [Thread -> Stat] /\ k.err \in [Thread -> Error] /\ Worker \in Thread
    BY <1>2, WorkCallsAre DEF IpcInv, KernelInv, ListFacts, KernelState
  <2>2. /\ u.err = [k.err EXCEPT ![t] = "ETIMEOUT"]
        /\ u.stat = [k.stat EXCEPT ![t] = IF t = k.cur THEN "running" ELSE "ready"]
    BY <1>4 DEF Woke
  <2>3. r.err = u.err /\ (r.stat[Worker] = "suspend" <=> u.stat[Worker] = "suspend")
    BY <1>4, <2>1 DEF Rescheduled
  <2> QED BY <2>1, <2>2, <2>3 DEF Asleep
<1> QED
  BY <1>1, <1>3, <1>5, <1>6
     DEF WaitInv, WaitGood, Undisturbed, NoLostWork, Asleep, WorkerFits

LEMMA SliceGood ==
  ASSUME WaitInv, SliceEnd, UNCHANGED <<wq, flag>>
  PROVE  WaitGood
<1> DEFINE r == rt_schedule([k EXCEPT !.yield = @ \union {k.cur}])
<1>1. k' = r /\ UNCHANGED pc
  BY DEF SliceEnd
<1>2. Sound(k, pc, WorkCalls) /\ IpcInv(k) /\ DoneFits(k, pc, flag)
  BY DEF WaitInv, Sound
<1>3. Rescheduled(r, k)
  BY <1>2, SliceEnds
<1> HIDE DEF r
<1>4. /\ Sound(r, pc, WorkCalls)
      /\ \A w \in WaitList : Calm(r, pc, k, pc, w, WorkCalls.lists[w])
  BY <1>2, <1>3, SoundSchedules
<1>5. DoneFits(r, pc, flag)
  <2>1. Calm(r, pc, k, pc, "done", WorkCalls.lists["done"]) /\ IpcInv(r)
    BY <1>4, WorkCallsAre DEF Sound
  <2> QED BY <1>2, <2>1, DoneCalm
<1>6. Asleep(r) <=> Asleep(k)
  BY <1>3, WorkCallsAre DEF Rescheduled, Asleep
<1> QED
  BY <1>1, <1>4, <1>5, <1>6, OthersStep DEF Quiet
-----------------------------------------------------------------------------
(* Every step *)

\* Work is submitted by a thread, an interrupt handler or its timer.
LEMMA SubmittedGood ==
  ASSUME WorkInv, WaitInv, UNCHANGED flag, NEW x \in Work,
         \/ \E t \in Thread : DoWork(t, x) \/ UrgentWork(t, x)
         \/ IsrSubmit(x) \/ Expired(x)
  PROVE  WaitGood
<1>1. wq \in QueueState
  BY DEF WorkInv, TypeInv
<1>2. Submitted(x).current = wq.current /\ Hastened(x).current = wq.current
  BY <1>1 DEF Submitted, Hastened, Unlinked, QueueState
<1>3. CASE \E t \in Thread : DoWork(t, x) \/ UrgentWork(t, x)
  <2>1. PICK t \in Thread : DoWork(t, x) \/ UrgentWork(t, x)
    BY <1>3
  <2>2. Calls(t) /\ WakeThenHome(t) /\ wq'.current = wq.current
    BY <1>2, <2>1 DEF DoWork, UrgentWork
  <2> QED BY <2>2, SubmitGood
<1>4. CASE IsrSubmit(x)
  <2>1. /\ k' = IF WakesWorker THEN rt_schedule(Wake(k)) ELSE k
        /\ wq'.current = wq.current /\ UNCHANGED <<pc, flag>>
    BY <1>2, <1>4 DEF IsrSubmit
  <2> QED BY <2>1, IsrGood
<1>5. CASE Expired(x)
  <2>1. CASE UNCHANGED <<wq, k>>
    <3>1. UNCHANGED pc
      BY <1>5 DEF Expired
    <3>2. Quiet
      BY <2>1, <3>1 DEF Quiet, WaitInv
    <3> QED BY <2>1, <3>1, <3>2, OthersStep
  <2>2. CASE ~UNCHANGED <<wq, k>>
    <3>1. /\ k' = IF WakesWorker THEN rt_schedule(Wake(k)) ELSE k
          /\ UNCHANGED <<pc, flag>>
      BY <1>5, <2>2 DEF Expired
    <3>2. wq'.current = wq.current
      BY <1>1, <1>5, <2>2 DEF Expired, Unlinked, QueueState
    <3> QED BY <3>1, <3>2, IsrGood
  <2> QED BY <2>1, <2>2
<1> QED
  BY <1>3, <1>4, <1>5

\* A thread makes or goes on with one of its other calls.
LEMMA ClientGood ==
  ASSUME WorkInv, WaitInv, UNCHANGED flag, NEW t \in Thread,
         \/ \E x \in Work : SubmitDelayed(t, x) \/ CancelWork(t, x) \/ CancelSync(t, x)
         \/ CancelAll(t) \/ WorkContinue(t)
  PROVE  WaitGood
<1>1. CASE \E x \in Work : SubmitDelayed(t, x) \/ CancelWork(t, x) \/ CancelSync(t, x)
  <2>1. PICK x \in Work : SubmitDelayed(t, x) \/ CancelWork(t, x) \/ CancelSync(t, x)
    BY <1>1
  <2>2. CASE CancelWork(t, x)
    BY <2>2, CancelGood DEF CancelWork
  <2> QED BY <2>1, <2>2, DelayGood, CancelSyncGood
<1>2. CASE CancelAll(t)
  BY <1>2, CancelAllGood
<1>3. CASE CancelNow(t)
  <2>1. t \in Thread \ {Idle, Worker} /\ At(t, "cancel") /\ Goto(t, "run")
    <3>1. t # Worker
      BY <1>3 DEF CancelNow, At, WaitInv, WorkerFits
    <3> QED BY <1>3, <3>1, AtPlace DEF CancelNow
  <2>2. wq' = Cancelled(arg[t]) /\ UNCHANGED k
    BY <1>3 DEF CancelNow
  <2> QED BY <2>1, <2>2, CancelGood
<1>4. CASE Arm(t) \/ WaitSync(t) \/ SyncReturns(t) \/ Purge(t) \/ PurgeDelayed(t)
  BY <1>4, ArmGood, WaitSyncGood, SyncReturnsGood, PurgeGood
<1>5. CASE /\ ScheduleThen(t, "resched", Home(t)) \/ ScheduleThen(t, "syncing", "synced")
           /\ UNCHANGED workVars
  BY <1>5, BackGood DEF workVars
<1> QED
  BY <1>1, <1>2, <1>3, <1>4, <1>5 DEF WorkContinue

\* The worker goes its round.
LEMMA WorkerGood ==
  ASSUME WorkInv, WaitInv, UNCHANGED flag, WorkerStep \/ WorkSleeps
  PROVE  WaitGood
<1>1. CASE WorkerSchedule
  <2>1. Worker \in Thread
    BY WorkCallsAre
  <2> QED BY <1>1, <2>1, BackGood DEF WorkerSchedule, workVars
<1> QED
  BY <1>1, WorkerWaitsGood, WorkerTakesGood, WorkEndsGood, WorkAckGood, WorkSleepsGood
     DEF WorkerStep

\* Somebody waits for the completion or completes it.
LEMMA CompletionGood ==
  ASSUME WaitInv, CompletionNext, UNCHANGED workVars
  PROVE  WaitGood
<1>1. UNCHANGED wq
  BY DEF workVars
<1>2. CASE AwaitSchedule
  <2>1. Waiter \in Thread
    BY WorkCallsAre
  <2> QED BY <1>1, <1>2, <2>1, BackGood DEF AwaitSchedule
<1> QED
  BY <1>1, <1>2, AwaitGood, AwaitReturnGood, IsrDoneGood, DoneGood DEF CompletionNext

DeferredInv == WorkInv /\ WaitInv

LEMMA NextDeferred ==
  ASSUME DeferredInv, [Next]_vars
  PROVE  DeferredInv' /\ Undisturbed
<1>1. WorkInv'
  BY NextInv DEF DeferredInv
<1>2. WaitGood
  <2>1. WorkInv /\ WaitInv
    BY DEF DeferredInv
  <2>2. CASE WorkNext /\ UNCHANGED flag
    BY <2>1, <2>2, SubmittedGood, ClientGood, WorkerGood DEF WorkNext
  <2>3. CASE CompletionNext /\ UNCHANGED workVars
    BY <2>1, <2>3, CompletionGood
  <2>4. CASE \/ \E t \in Thread : ClientSleeps(t) \/ Timeout(t)
             \/ SliceEnd /\ UNCHANGED <<workVars, flag>>
    BY <2>1, <2>4, SleepGood, TimeoutGood, SliceGood DEF workVars
  <2>5. CASE UNCHANGED vars
    <3>1. Quiet
      BY <2>1, <2>5 DEF Quiet, WaitInv, vars
    <3> QED BY <2>1, <2>5, <3>1, OthersStep DEF vars, workVars
  <2> QED BY <2>2, <2>3, <2>4, <2>5 DEF Next, Running, Halted
<1> QED
  BY <1>1, <1>2 DEF WaitGood, DeferredInv

LEMMA InitDeferred == Init => DeferredInv
<1> SUFFICES ASSUME Init PROVE DeferredInv
  OBVIOUS
<1>1. WorkInv
  BY InitInv
<1> DEFINE s  == Started(Main, InitPrio)
           at == [t \in Thread |-> "run"]
<1>2. k = s /\ pc = at /\ wq.list = <<>> /\ wq.current = None /\ flag = FALSE
  BY DEF Init, StartedKernel, WorkInit, CompletionInit
<1>3. Main \in Thread /\ InitPrio \in [Thread -> Prio]
  BY MainAssumption, InitPrioAssumption
<1>4. at = [t \in Thread |-> "run"]
  OBVIOUS
<1>5. \A w \in WaitList, t \in Thread : ~On(s, w, t)
  BY <1>3, StartedInv
<1>6. \A t \in Thread : at[t] = "run"
  OBVIOUS
<1> HIDE DEF s, at
<1>7. Sound(Started(Main, InitPrio), at, WorkCalls)
  BY <1>3, <1>4, WorkCallsAre, SoundStarts
<1>8. DoneFits(s, at, FALSE)
  <2>1. Untold(s, "done")
    BY <1>5, WorkCallsAre DEF Untold
  <2>2. \A t \in Thread : at[t] \notin CompletionLabel
    BY <1>6 DEF CompletionLabel
  <2> QED BY <2>1, <2>2 DEF DoneFits, Alert
<1>9. WorkerFits(wq, pc[Worker])
  BY <1>2, <1>6, WorkCallsAre DEF WorkerFits
<1> QED
  BY <1>1, <1>2, <1>7, <1>8, <1>9 DEF DeferredInv, WaitInv, NoLostWork, s

\* In every reachable state the threads wait where they say, the worker is in
\* its loop or in a work function, and who was woken finds the flag set.
THEOREM DeferredInvHolds == Spec => []DeferredInv
<1>1. Init => DeferredInv
  BY InitDeferred
<1>2. DeferredInv /\ [Next]_vars => DeferredInv'
  BY NextDeferred
<1> QED
  BY <1>1, <1>2, PTL DEF Spec

\* The worker does not wait for work while there is some: a submission by a
\* thread, an interrupt handler or a timer is never lost between the worker's
\* look at its list and its rt_schedule.
THEOREM NoLostWorkHolds == Spec => []NoLostWork
<1>1. DeferredInv => NoLostWork
  BY DEF DeferredInv, WaitInv
<1> QED
  BY <1>1, DeferredInvHolds, PTL

\* Nobody sleeps on a completion that is done, and a wait that will return
\* RT_EOK finds the flag still set: a timeout is not taken for a wake-up.
THEOREM NoMissedCompletionHolds == Spec => []NoMissedCompletion
<1>1. DeferredInv => NoMissedCompletion
  <2> SUFFICES ASSUME WaitInv PROVE NoMissedCompletion
    BY DEF DeferredInv
  <2>1. ASSUME pc[Waiter] \in CompletionLabel, k.wait["done"] = <<>>, k.err[Waiter] = "EOK"
        PROVE  flag
    <3>1. ~On(k, "done", Waiter)
      BY <2>1 DEF On, Contains
    <3>2. Waiter \in Alert(k, pc, "done", CompletionLabel)
      BY <2>1, <3>1, WorkCallsAre DEF Alert
    <3> QED BY <3>2 DEF WaitInv, DoneFits
  <2> QED BY <2>1 DEF WaitInv, DoneFits, NoMissedCompletion
<1> QED
  BY <1>1, DeferredInvHolds, PTL

\* A submission does not cut short what a work function waits for: only its own
\* timer wakes it.
THEOREM SleepKeptHolds == Spec => SleepKept
<1>1. DeferredInv /\ [Next]_vars => Undisturbed
  BY NextDeferred
<1>2. Undisturbed => [ wq.current # None /\ k.stat[Worker] = "suspend" /\ k'.stat[Worker] # "suspend"
                         => k'.err[Worker] = "ETIMEOUT" ]_<<k, wq>>
  BY DEF Undisturbed, Asleep
<1> QED
  BY <1>1, <1>2, DeferredInvHolds, PTL DEF Spec, SleepKept
=============================================================================
