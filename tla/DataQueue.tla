----------------------------- MODULE DataQueue -----------------------------
(***************************************************************************)
(* A data queue of components/drivers/ipc/dataqueue.c: a ring of items     *)
(* with two indices and two flags, threads that wait for an item and       *)
(* threads that wait for room.  A push wakes one waiting pop; a pop wakes  *)
(* a waiting push only when it leaves no more than the low water mark.     *)
(* Interrupt handlers push and pop without waiting.  A reset empties the   *)
(* ring first and then wakes the threads one by one.                       *)
(***************************************************************************)
EXTENDS Ipc

CONSTANTS
  Item,         \* what is pushed
  NoItem,       \* no item
  ItemMax,      \* size: the number of items the ring holds
  LowMark,      \* lwm
  Pusher,       \* threads that push
  Popper,       \* threads that pop
  QueueReset    \* threads that call rt_data_queue_reset

\* With a low water mark of size or more a pop would wake a push that has room
\* already; the drivers pass less.
ASSUME DataQueueAssumption ==
  /\ {"pushers", "poppers"} \subseteq WaitList
  /\ NoItem \notin Item
  /\ ItemMax \in 1..32767 /\ LowMark \in 0..ItemMax-1
  /\ Pusher \union Popper \union QueueReset \subseteq Thread \ {Idle}

VARIABLES
  dq,           \* queue, put_index, get_index, is_empty, is_full
  calling,      \* the item and the kind of timeout of each thread's call
  popped        \* what the last successful pop, of a thread or a handler, gave

dataVars == <<dq, calling, popped>>

ResetLabel == {"emptied", "testpop", "wakepop", "testpush", "wakepush", "wrecked"}

DataLabel == {"pushing", "push", "popping", "pop"} \union ResetLabel

DataType ==
  /\ dq \in [ items : [0..ItemMax-1 -> Item \union {NoItem}],
              put : 0..ItemMax-1, get : 0..ItemMax-1,
              empty : BOOLEAN, full : BOOLEAN ]
  /\ calling \in [Thread -> [item : Item \union {NoItem}, finite : BOOLEAN]]
  /\ popped \in Item \union {NoItem}

NoCall == [item |-> NoItem, finite |-> FALSE]

\* rt_data_queue_init
DataInit ==
  /\ dq = [items |-> [i \in 0..ItemMax-1 |-> NoItem],
           put |-> 0, get |-> 0, empty |-> TRUE, full |-> FALSE]
  /\ calling = [t \in Thread |-> NoCall]
  /\ popped = NoItem

-----------------------------------------------------------------------------
(* The ring *)

Step(i) == IF i + 1 = ItemMax THEN 0 ELSE i + 1

\* rt_data_queue_len
ItemCount(q) ==
  IF q.empty THEN 0 ELSE IF q.put > q.get THEN q.put - q.get ELSE ItemMax + q.put - q.get

\* Mutant of PutItem: the flag of a full ring is not set.
PutItemNeverFull(v) ==
  [dq EXCEPT !.items[dq.put] = v, !.put = Step(@), !.empty = FALSE]

PutItem(v) ==
  LET p == Step(dq.put)
  IN  [dq EXCEPT !.items[dq.put] = v, !.put = p, !.empty = FALSE, !.full = @ \/ p = dq.get]

GetItem ==
  LET g == Step(dq.get)
  IN  [dq EXCEPT !.get = g, !.full = FALSE, !.empty = @ \/ g = dq.put]

-----------------------------------------------------------------------------
(* rt_data_queue_push *)

\* Resume the first thread of a list; its error is that of its own call.
WakeHead(w) == rt_thread_resume(k, Head(k.wait[w]))

PushItem(t, v) ==
  /\ ~dq.full /\ dq' = PutItem(v)
  /\ IF k.wait["poppers"] = <<>> THEN UNCHANGED k /\ Goto(t, "run")
     ELSE k' = WakeHead("poppers") /\ Goto(t, "resched")
  /\ calling' = [calling EXCEPT ![t] = NoCall]
  /\ UNCHANGED popped

\* One turn of the wait loop: the timer starts anew in every turn.
WaitToPush(t, v, finite) ==
  /\ dq.full
  /\ k' = SuspendTimed([k EXCEPT !.err[t] = "EOK"], "pushers", "FIFO", t, finite)
  /\ calling' = [calling EXCEPT ![t] = [item |-> v, finite |-> finite]]
  /\ Goto(t, "pushing")
  /\ UNCHANGED <<dq, popped>>

Push(t, v) ==
  /\ At(t, "run") /\ t \in Pusher
  /\ PushItem(t, v) \/ \E finite \in BOOLEAN : WaitToPush(t, v, finite)

PushSchedule(t) == ScheduleThen(t, "pushing", "push") /\ UNCHANGED dataVars

PushAgain(t) ==
  /\ At(t, "push") /\ k.err[t] = "EOK"
  /\ PushItem(t, calling[t].item) \/ WaitToPush(t, calling[t].item, calling[t].finite)

\* Back from rt_schedule with an error, in a push or in a pop.
DataFails(t) ==
  /\ At(t, "push") \/ At(t, "pop")
  /\ k.err[t] # "EOK"
  /\ calling' = [calling EXCEPT ![t] = NoCall]
  /\ Goto(t, "run")
  /\ UNCHANGED <<k, dq, popped>>

\* From an interrupt handler, with timeout 0.
IsrPush(v) ==
  /\ ~dq.full /\ dq' = PutItem(v)
  /\ k' = IF k.wait["poppers"] = <<>> THEN k ELSE rt_schedule(WakeHead("poppers"))
  /\ UNCHANGED <<pc, calling, popped>>

-----------------------------------------------------------------------------
(* rt_data_queue_pop *)

\* Mutant of RoomIsMade: a push is woken below the mark only.
RoomBelowMark == ItemCount(GetItem) < LowMark /\ k.wait["pushers"] # <<>>

\* The pop leaves so few items that a waiting push is woken.
RoomIsMade == ItemCount(GetItem) <= LowMark /\ k.wait["pushers"] # <<>>

PopItem(t) ==
  /\ ~dq.empty /\ dq' = GetItem
  /\ popped' = dq.items[dq.get]
  /\ IF RoomIsMade THEN k' = WakeHead("pushers") /\ Goto(t, "resched")
                   ELSE UNCHANGED k /\ Goto(t, "run")
  /\ calling' = [calling EXCEPT ![t] = NoCall]

WaitToPop(t, finite) ==
  /\ dq.empty
  /\ k' = SuspendTimed([k EXCEPT !.err[t] = "EOK"], "poppers", "FIFO", t, finite)
  /\ calling' = [calling EXCEPT ![t].finite = finite]
  /\ Goto(t, "popping")
  /\ UNCHANGED <<dq, popped>>

Pop(t) ==
  /\ At(t, "run") /\ t \in Popper
  /\ PopItem(t) \/ \E finite \in BOOLEAN : WaitToPop(t, finite)

PopSchedule(t) == ScheduleThen(t, "popping", "pop") /\ UNCHANGED dataVars

PopAgain(t) ==
  /\ At(t, "pop") /\ k.err[t] = "EOK"
  /\ PopItem(t) \/ WaitToPop(t, calling[t].finite)

IsrPop ==
  /\ ~dq.empty /\ dq' = GetItem
  /\ popped' = dq.items[dq.get]
  /\ k' = IF RoomIsMade THEN rt_schedule(WakeHead("pushers")) ELSE k
  /\ UNCHANGED <<pc, calling>>

-----------------------------------------------------------------------------
(* rt_data_queue_reset: interrupts are on between these steps. *)

\* Where the two loops test their list, and where they wake its first thread.
TestAt == [poppers |-> "testpop", pushers |-> "testpush"]
WakeAt == [poppers |-> "wakepop", pushers |-> "wakepush"]

EmptyQueue(t) ==
  /\ At(t, "run") /\ t \in QueueReset
  /\ dq' = [dq EXCEPT !.get = 0, !.put = 0, !.empty = TRUE, !.full = FALSE]
  /\ Goto(t, "emptied")
  /\ UNCHANGED <<k, calling, popped>>

\* rt_enter_critical
LockToWake(t) ==
  /\ At(t, "emptied")
  /\ k' = [k EXCEPT !.lock = @ + 1]
  /\ Goto(t, "testpop")
  /\ UNCHANGED dataVars

\* The list is not empty: on to disabling interrupts.
FindWaiter(t, w) ==
  /\ At(t, TestAt[w]) /\ k.wait[w] # <<>>
  /\ Goto(t, WakeAt[w])
  /\ UNCHANGED <<k, dataVars>>

\* Wake the first thread with an error.  When a timeout or a handler has
\* emptied the list since the test, the code takes the list head for a thread:
\* what it does from there on is undefined, and this thread goes no further.
WakeWaiter(t, w) ==
  /\ At(t, WakeAt[w])
  /\ \/ k.wait[w] # <<>>
        /\ k' = rt_thread_resume([k EXCEPT !.err[Head(k.wait[w])] = "ERROR"], Head(k.wait[w]))
        /\ Goto(t, TestAt[w])
     \/ k.wait[w] = <<>> /\ Goto(t, "wrecked") /\ UNCHANGED k
  /\ UNCHANGED dataVars

PoppersWoken(t) ==
  /\ At(t, "testpop") /\ k.wait["poppers"] = <<>>
  /\ Goto(t, "testpush")
  /\ UNCHANGED <<k, dataVars>>

\* rt_exit_critical, which calls rt_schedule when it unlocks, and rt_schedule.
PushersWoken(t) ==
  /\ At(t, "testpush") /\ k.wait["pushers"] = <<>>
  /\ k' = rt_schedule([k EXCEPT !.lock = @ - 1])
  /\ Goto(t, "resched")
  /\ UNCHANGED dataVars

DataNext ==
  \/ \E t \in Thread, v \in Item : Push(t, v)
  \/ \E v \in Item : IsrPush(v)
  \/ \E t \in Thread :
       \/ PushSchedule(t) \/ PushAgain(t) \/ DataFails(t)
       \/ Pop(t) \/ PopSchedule(t) \/ PopAgain(t)
       \/ EmptyQueue(t) \/ LockToWake(t) \/ PoppersWoken(t) \/ PushersWoken(t)
  \/ \E t \in Thread, w \in {"poppers", "pushers"} : FindWaiter(t, w) \/ WakeWaiter(t, w)
  \/ IsrPop

-----------------------------------------------------------------------------
(* Properties *)

\* The items between the two indices, oldest first.
Items == [i \in 1..ItemCount(dq) |-> dq.items[(dq.get + i - 1) % ItemMax]]

\* A data queue is a bounded queue: with pushes and pops of threads and
\* handlers and a reset in each other's windows no item is lost, duplicated or
\* overtaken.
Data == INSTANCE BoundedQueue WITH
          Value <- Item, Nothing <- NoItem, Receiver <- {"last"},
          Size <- ItemMax, queue <- Items, got <- [r \in {"last"} |-> popped]

DataKept == Data!Spec

\* Threads on their way to look at the queue again.
Awake(w, labels) ==
  {t \in Thread : pc[t] \in labels /\ k.err[t] = "EOK" /\ t \notin ToSet(k.wait[w])}

Resetting == \E t \in Thread : pc[t] \in ResetLabel

\* No wake-up is lost: while pops wait there is an awake one for each item, and
\* while pushes wait and the items are down to the low water mark there is an
\* awake push that will take them above it.  (A reset has yet to wake them.)
DataWaiters ==
  /\ k.wait["poppers"] # <<>> =>
       Cardinality(Awake("poppers", {"popping", "pop"})) >= ItemCount(dq)
  /\ k.wait["pushers"] # <<>> /\ ~Resetting =>
       ItemCount(dq) + Cardinality(Awake("pushers", {"pushing", "push"})) > LowMark
=============================================================================
