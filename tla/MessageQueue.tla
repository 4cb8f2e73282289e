---------------------------- MODULE MessageQueue ----------------------------
(***************************************************************************)
(* A message queue of ipc.c: cells of one message each, linked in a free   *)
(* list or in the queue, one list of threads that wait for a message and   *)
(* one of threads that wait for a free cell.                               *)
(*                                                                         *)
(* Unlike a mailbox, it copies messages with interrupts enabled.  A sender *)
(* takes a free cell, fills it in a window in which anything may happen,   *)
(* and links it; a receiver unlinks a cell, reads it in such a window, and *)
(* frees it.  In between the cell is on neither list.                      *)
(***************************************************************************)
EXTENDS Ipc

CONSTANTS
  Value,      \* the messages sent
  Cell,       \* the cells of msg_pool
  Null,       \* RT_NULL, and the message of a receiver that has none
  Flag,       \* RT_IPC_FLAG_FIFO or RT_IPC_FLAG_PRIO
  Sender,     \* threads that send
  Sends,      \* the messages each of them may send
  IsrSends,   \* the messages the interrupt handler may send
  Receiver,   \* threads that receive
  Resetter    \* threads that call rt_mq_control

ASSUME MessageQueueAssumption ==
  /\ WaitList = {"receivers", "senders"}
  /\ Null \notin Value \union Cell
  /\ IsFiniteSet(Cell) /\ Cell # {} /\ Cardinality(Cell) <= 65535
  /\ Flag \in {"FIFO", "PRIO"}
  /\ Sends \in [Sender -> SUBSET Value] /\ IsrSends \subseteq Value
  /\ Sender \union Receiver \union Resetter \subseteq Thread \ {Idle}

VARIABLES
  mq,         \* msg_queue_head, _tail and _free, entry; next and data of a cell
  buffer,     \* the message a sender wants to send
  msg,        \* the cell a call has taken off a list, with interrupts enabled
  timed,      \* threads whose call still has a finite timeout
  got         \* what the last successful receive of a thread returned

vars == <<k, pc, mq, buffer, msg, timed, got>>

Label == {"run", "resched", "sending", "send", "fill", "urgent",
          "receiving", "receive", "read"}

TypeOK ==
  /\ k \in KernelState
  /\ pc \in [Thread -> Label]
  /\ mq \in [ head  : Cell \union {Null},
              tail  : Cell \union {Null},
              free  : Cell \union {Null},
              next  : [Cell -> Cell \union {Null}],
              data  : [Cell -> Value \union {Null}],
              entry : 0..Cardinality(Cell) ]
  /\ buffer \in [Thread -> Value \union {Null}]
  /\ msg \in [Thread -> Cell \union {Null}]
  /\ timed \subseteq Thread
  /\ got \in [Receiver -> Value \union {Null}]

\* rt_mq_init frees the cells of the pool one after the other.
Init ==
  /\ k = StartedKernel
  /\ pc = [t \in Thread |-> "run"]
  /\ LET pool == SetToSeq(Cell)
         At0(c) == CHOOSE i \in 1..Len(pool) : pool[i] = c
     IN  mq = [ head |-> Null, tail |-> Null, free |-> Last(pool),
                next |-> [c \in Cell |-> IF At0(c) = 1 THEN Null
                                                       ELSE pool[At0(c) - 1]],
                data |-> [c \in Cell |-> Null], entry |-> 0 ]
  /\ buffer = [t \in Thread |-> Null]
  /\ msg = [t \in Thread |-> Null]
  /\ timed = {}
  /\ got = [r \in Receiver |-> Null]

-----------------------------------------------------------------------------
(* The lists of cells.  Each operator is one stretch with interrupts off.  *)

\* Take the first free cell.
Taken(q) == [q EXCEPT !.free = q.next[q.free]]

\* Fill cell c, and link it at the end of the queue.
Linked(q, c, v) ==
  [q EXCEPT !.next = IF q.tail = Null THEN [@ EXCEPT ![c] = Null]
                     ELSE [@ EXCEPT ![c] = Null, ![q.tail] = c],
            !.data[c] = v, !.tail = c, !.entry = @ + 1,
            !.head = IF @ = Null THEN c ELSE @]

\* Fill cell c, and link it at the front.
LinkedFirst(q, c, v) ==
  [q EXCEPT !.next[c] = q.head, !.data[c] = v, !.head = c, !.entry = @ + 1,
            !.tail = IF @ = Null THEN c ELSE @]

\* Mutant of Unlinked: the cell is free before it has been read.
UnlinkedAndFreed(q) ==
  [q EXCEPT !.head = q.next[q.head], !.entry = @ - 1, !.free = q.head,
            !.next[q.head] = q.free,
            !.tail = IF @ = q.head THEN Null ELSE @]

\* Take the first cell out of the queue.
Unlinked(q) ==
  [q EXCEPT !.head = q.next[q.head], !.entry = @ - 1,
            !.tail = IF @ = q.head THEN Null ELSE @]

Freed(q, c) == [q EXCEPT !.next[c] = q.free, !.free = c]

\* The cells from c on along next, up to the one that points to Null.
Chain(q, c) ==
  LET at[i \in 1..Cardinality(Cell) + 1] ==
        IF i = 1 THEN c ELSE IF at[i-1] = Null THEN Null ELSE q.next[at[i-1]]
  IN  [i \in 1..Cardinality({j \in DOMAIN at : at[j] # Null}) |-> at[i]]

\* Mutant of Emptied: the cells that were queued are not given back.
EmptiedOnly(q) == [q EXCEPT !.head = Null, !.tail = Null, !.entry = 0]

\* Free every cell of the queue, the first one first; After[i] is the message
\* queue when i cells are free.
Emptied(q) ==
  LET list == Chain(q, q.head)
      After[i \in 0..Len(list)] == IF i = 0 THEN q ELSE Freed(After[i-1], list[i])
  IN  [After[Len(list)] EXCEPT !.head = Null, !.tail = Null, !.entry = 0]

-----------------------------------------------------------------------------
(* The parts _rt_mq_send_wait, rt_mq_urgent and _rt_mq_recv share *)

\* Mutant of WakeOne: a thread is woken only by the first message or free cell.
WakeOneAtEdge(t, w) ==
  IF k.wait[w] = <<>> \/ mq.entry > 0
  THEN UNCHANGED k /\ Goto(t, "run")
  ELSE k' = ResumeFirst(k, w) /\ Goto(t, "resched")

\* Wake the first thread of a list, if there is one, and leave the call
\* through rt_schedule.
WakeOne(t, w) ==
  IF k.wait[w] = <<>>
  THEN UNCHANGED k /\ Goto(t, "run")
  ELSE k' = ResumeFirst(k, w) /\ Goto(t, "resched")

\* One turn of the wait loop of t: suspended on w, the timer started when the
\* timeout is finite, interrupts on, rt_schedule next.
WaitOn(t, w, finite, l) ==
  /\ k' = SuspendTimed([k EXCEPT !.err[t] = "EINTR"], w, Flag, t, finite)
  /\ timed' = IF finite THEN timed \union {t} ELSE timed \ {t}
  /\ Goto(t, l)
  /\ UNCHANGED <<mq, msg, got>>

\* The call returns without having sent or received.
Return(t) ==
  /\ Goto(t, "run")
  /\ timed' = timed \ {t}
  /\ buffer' = [buffer EXCEPT ![t] = Null]
  /\ UNCHANGED <<mq, msg, got>>

\* Back from rt_schedule with an error.
Fails(t, l) ==
  /\ At(t, l) /\ k.err[t] # "EOK"
  /\ Return(t)
  /\ UNCHANGED k

\* Woken, but another thread was faster, and the time is up.
GivesUp(t, error) ==
  /\ t \in timed
  /\ k' = [k EXCEPT !.err[t] = error]
  /\ Return(t)

-----------------------------------------------------------------------------
(* _rt_mq_send_wait and rt_mq_urgent *)

\* Take a cell for v; interrupts are enabled at l, where it is filled.
TakeCell(t, v, l) ==
  /\ mq.free # Null
  /\ mq' = Taken(mq)
  /\ msg' = [msg EXCEPT ![t] = mq.free]
  /\ buffer' = [buffer EXCEPT ![t] = v]
  /\ timed' = timed \ {t}
  /\ Goto(t, l)
  /\ UNCHANGED <<k, got>>

WaitForCell(t, v, finite) ==
  /\ mq.free = Null
  /\ WaitOn(t, "senders", finite, "sending")
  /\ buffer' = [buffer EXCEPT ![t] = v]

Send(t, v) ==
  /\ At(t, "run")
  /\ \/ TakeCell(t, v, "fill")
     \/ \E finite \in BOOLEAN : WaitForCell(t, v, finite)

SendSchedule(t) ==
  ScheduleThen(t, "sending", "send") /\ UNCHANGED <<mq, buffer, msg, timed, got>>

SendAgain(t) ==
  /\ At(t, "send") /\ k.err[t] = "EOK"
  /\ \/ TakeCell(t, buffer[t], "fill")
     \/ WaitForCell(t, buffer[t], t \in timed)
     \/ mq.free = Null /\ GivesUp(t, "EINTR")

Urgent(t, v) == At(t, "run") /\ TakeCell(t, v, "urgent")

\* The cell is filled: link it, and wake a receiver.
Link(t) ==
  /\ \/ At(t, "fill")   /\ mq' = Linked(mq, msg[t], buffer[t])
     \/ At(t, "urgent") /\ mq' = LinkedFirst(mq, msg[t], buffer[t])
  /\ WakeOne(t, "receivers")
  /\ msg' = [msg EXCEPT ![t] = Null]
  /\ buffer' = [buffer EXCEPT ![t] = Null]
  /\ UNCHANGED <<timed, got>>

\* An interrupt handler sends without waiting.
IsrSend(v) ==
  /\ mq.free # Null
  /\ mq' = Linked(Taken(mq), mq.free, v)
  /\ k' = IF k.wait["receivers"] = <<>> THEN k
          ELSE rt_schedule(ResumeFirst(k, "receivers"))
  /\ UNCHANGED <<pc, buffer, msg, timed, got>>

-----------------------------------------------------------------------------
(* _rt_mq_recv *)

\* Unlink the first message; interrupts are enabled while it is read.
Unlink(t) ==
  /\ mq.entry # 0
  /\ mq' = Unlinked(mq)
  /\ msg' = [msg EXCEPT ![t] = mq.head]
  /\ timed' = timed \ {t}
  /\ Goto(t, "read")
  /\ UNCHANGED <<k, buffer, got>>

WaitForMessage(t, finite) ==
  /\ mq.entry = 0
  /\ WaitOn(t, "receivers", finite, "receiving")
  /\ UNCHANGED buffer

Receive(t) ==
  /\ At(t, "run") /\ t \in Receiver
  /\ \/ Unlink(t)
     \/ \E finite \in BOOLEAN : WaitForMessage(t, finite)

ReceiveSchedule(t) ==
  ScheduleThen(t, "receiving", "receive") /\ UNCHANGED <<mq, buffer, msg, timed, got>>

ReceiveAgain(t) ==
  /\ At(t, "receive") /\ k.err[t] = "EOK"
  /\ \/ Unlink(t)
     \/ WaitForMessage(t, t \in timed)
     \/ mq.entry = 0 /\ GivesUp(t, "ETIMEOUT")

\* The message is read: free the cell, and wake a sender.
Free(t) ==
  /\ At(t, "read")
  /\ got' = [got EXCEPT ![t] = mq.data[msg[t]]]
  /\ mq' = Freed(mq, msg[t])
  /\ WakeOne(t, "senders")
  /\ msg' = [msg EXCEPT ![t] = Null]
  /\ UNCHANGED <<buffer, timed>>

-----------------------------------------------------------------------------
\* RT_IPC_CMD_RESET: all waiting threads return with an error; the cells that
\* a sender fills or a receiver reads are on no list and stay with them.
Reset(t) ==
  /\ At(t, "run") /\ t \in Resetter
  /\ k' = ResumeAll(ResumeAll(k, "receivers"), "senders")
  /\ mq' = Emptied(mq)
  /\ Goto(t, "resched")
  /\ UNCHANGED <<buffer, msg, timed, got>>

Reschedule(t) ==
  ScheduleThen(t, "resched", "run") /\ UNCHANGED <<mq, buffer, msg, timed, got>>

\* A thread spends time elsewhere.
Sleep(t) == SleepStart(t) /\ UNCHANGED <<mq, buffer, msg, timed, got>>

Tick == SliceEnd /\ UNCHANGED <<mq, buffer, msg, timed, got>>

Timeout(t) == TimerExpires(t) /\ UNCHANGED <<mq, buffer, msg, timed, got>>

\* The rest of a call already begun.
Continue(t) ==
  \/ SendSchedule(t) \/ SendAgain(t) \/ Fails(t, "send") \/ Link(t)
  \/ ReceiveSchedule(t) \/ ReceiveAgain(t) \/ Fails(t, "receive") \/ Free(t)
  \/ Reschedule(t)

Next ==
  \/ \E t \in Sender : \E v \in Sends[t] : Send(t, v) \/ Urgent(t, v)
  \/ \E v \in IsrSends : IsrSend(v)
  \/ \E t \in Thread : Receive(t) \/ Reset(t) \/ Sleep(t) \/ Continue(t) \/ Timeout(t)
  \/ Tick

Spec == Init /\ [][Next]_vars

-----------------------------------------------------------------------------
(* Properties *)

Queued    == Chain(mq, mq.head)
FreeCells == Chain(mq, mq.free)
Messages  == [i \in 1..Len(Queued) |-> mq.data[Queued[i]]]

\* What a receiver has: the message in the cell it is reading, or the last one
\* it was given.
Given == [r \in Receiver |-> IF pc[r] = "read" THEN mq.data[msg[r]] ELSE got[r]]

\* A message queue is a bounded queue although it copies with interrupts
\* enabled: a message enters it whole when its cell is linked, and the receiver
\* reads, from a cell nobody reuses meanwhile, the message that was first.
Queue == INSTANCE BoundedQueue
           WITH queue <- Messages, got <- Given, Nothing <- Null,
                Size <- Cardinality(Cell)

QueueSpec == Queue!Spec

\* Every cell is in exactly one place: once in the queue, once in the free
\* list, or with one thread that is filling or reading it; entry counts the
\* cells of the queue.  Calls that fail, time out or race a reset leak no cell.
CellsAccounted ==
  LET places == Queued \o FreeCells
      holders(c) == {t \in Thread : msg[t] = c}
  IN  /\ Len(Queued) = mq.entry
      /\ \A c \in Cell : Cardinality({i \in 1..Len(places) : places[i] = c})
                           + Cardinality(holders(c)) = 1
      /\ \A t \in Thread : msg[t] # Null <=> pc[t] \in {"fill", "urgent", "read"}

\* Threads that were woken for a message, or a cell, and have not looked yet.
Woken(ls) == {t \in Thread : pc[t] \in ls /\ k.err[t] = "EOK"}

\* No lost wake-up: while receivers wait, a woken receiver is on its way for
\* each message; while senders wait, a woken sender for each free cell.
NoLostWakeup ==
  /\ k.wait["receivers"] # <<>> =>
       Cardinality(Woken({"receiving", "receive"})) >= mq.entry
  /\ k.wait["senders"] # <<>> =>
       Cardinality(Woken({"sending", "send"})) >= Len(FreeCells)
=============================================================================
