------------------------------ MODULE Mailbox ------------------------------
(***************************************************************************)
(* A mailbox of ipc.c: a ring of Size values, one list of threads that     *)
(* wait for a value and one of threads that wait for room.  Threads send   *)
(* and receive with no timeout or a finite one, an interrupt handler sends *)
(* without waiting, a thread resets the mailbox.                           *)
(*                                                                         *)
(* A thread that is woken does not own what it was woken for: it looks     *)
(* again when it gets the processor, and waits again if another thread was *)
(* faster.                                                                 *)
(***************************************************************************)
EXTENDS Ipc

CONSTANTS
  Value,      \* the values sent
  Nothing,    \* no value
  Size,       \* number of values the ring holds
  Flag,       \* RT_IPC_FLAG_FIFO or RT_IPC_FLAG_PRIO
  Sender,     \* threads that send
  Receiver,   \* threads that receive
  Resetter    \* threads that call rt_mb_control

ASSUME MailboxAssumption ==
  /\ WaitList = {"receivers", "senders"}
  /\ Nothing \notin Value
  /\ Size \in Nat /\ 0 < Size /\ Size <= 65535
  /\ Flag \in {"FIFO", "PRIO"}
  /\ Sender \union Receiver \union Resetter \subseteq Thread \ {Idle}

VARIABLES
  box,        \* msg_pool, in_offset, out_offset and entry
  value,      \* the value a sender wants to store
  timed,      \* threads whose call still has a finite timeout
  got         \* what the last successful receive of a thread returned

vars == <<k, pc, box, value, timed, got>>

Label == {"run", "resched", "sending", "send", "receiving", "receive"}

TypeOK ==
  /\ k \in KernelState
  /\ pc \in [Thread -> Label]
  /\ box \in [ pool  : [0..Size-1 -> Value \union {Nothing}],
               in    : 0..Size-1,
               out   : 0..Size-1,
               entry : 0..Size ]
  /\ value \in [Thread -> Value \union {Nothing}]
  /\ timed \subseteq Thread
  /\ got \in [Receiver -> Value \union {Nothing}]

Init ==
  /\ k = StartedKernel
  /\ pc = [t \in Thread |-> "run"]
  /\ box = [pool |-> [i \in 0..Size-1 |-> Nothing], in |-> 0, out |-> 0,
            entry |-> 0]
  /\ value = [t \in Thread |-> Nothing]
  /\ timed = {}
  /\ got = [r \in Receiver |-> Nothing]

-----------------------------------------------------------------------------
(* The ring *)

Forward(i)  == IF i + 1 >= Size THEN 0 ELSE i + 1
Backward(i) == IF i > 0 THEN i - 1 ELSE Size - 1

Stored(v) ==
  [box EXCEPT !.pool[box.in] = v, !.in = Forward(@), !.entry = @ + 1]

StoredFirst(v) ==
  LET o == Backward(box.out)
  IN  [box EXCEPT !.pool[o] = v, !.out = o, !.entry = @ + 1]

\* Mutant of Emptied: the place of the next receive is kept.
EmptiedInPlace == [box EXCEPT !.entry = 0, !.in = 0]

Emptied == [box EXCEPT !.entry = 0, !.in = 0, !.out = 0]

Fetched == [box EXCEPT !.out = Forward(@), !.entry = @ - 1]

-----------------------------------------------------------------------------
(* The parts rt_mb_send_wait, rt_mb_urgent and rt_mb_recv share *)

\* Mutant of WakeOne: a thread is woken only when the box was empty or full.
WakeOneAtEdge(t, w) ==
  IF k.wait[w] = <<>> \/ box.entry \notin {0, Size}
  THEN UNCHANGED k /\ Goto(t, "run")
  ELSE k' = ResumeFirst(k, w) /\ Goto(t, "resched")

\* Wake the first thread of a list, if there is one, and leave the call
\* through rt_schedule.
WakeOne(t, w) ==
  IF k.wait[w] = <<>>
  THEN UNCHANGED k /\ Goto(t, "run")
  ELSE k' = ResumeFirst(k, w) /\ Goto(t, "resched")

\* One turn of the wait loop of t: suspended on w, the timer started when the
\* timeout is finite, interrupts on, rt_schedule next.
WaitOn(t, w, finite, l) ==
  /\ k' = SuspendTimed([k EXCEPT !.err[t] = "EINTR"], w, Flag, t, finite)
  /\ timed' = IF finite THEN timed \union {t} ELSE timed \ {t}
  /\ Goto(t, l)

\* Back from rt_schedule with an error: the call returns it.
Fails(t, l) ==
  /\ At(t, l) /\ k.err[t] # "EOK"
  /\ Goto(t, "run")
  /\ timed' = timed \ {t}
  /\ value' = [value EXCEPT ![t] = Nothing]
  /\ UNCHANGED <<k, box, got>>

\* Woken, but another thread was faster, and the time is up.
GivesUp(t, error) ==
  /\ t \in timed
  /\ k' = [k EXCEPT !.err[t] = error]
  /\ Goto(t, "run")
  /\ timed' = timed \ {t}
  /\ value' = [value EXCEPT ![t] = Nothing]
  /\ UNCHANGED <<box, got>>

-----------------------------------------------------------------------------
(* rt_mb_send_wait, rt_mb_send, rt_mb_urgent *)

Store(t, v) ==
  /\ box.entry # Size
  /\ box' = Stored(v)
  /\ WakeOne(t, "receivers")
  /\ value' = [value EXCEPT ![t] = Nothing]
  /\ timed' = timed \ {t}
  /\ UNCHANGED got

WaitForRoom(t, v, finite) ==
  /\ box.entry = Size
  /\ WaitOn(t, "senders", finite, "sending")
  /\ value' = [value EXCEPT ![t] = v]
  /\ UNCHANGED <<box, got>>

Send(t, v) ==
  /\ At(t, "run") /\ t \in Sender
  /\ \/ Store(t, v)
     \/ \E finite \in BOOLEAN : WaitForRoom(t, v, finite)

SendSchedule(t) ==
  ScheduleThen(t, "sending", "send") /\ UNCHANGED <<box, value, timed, got>>

SendAgain(t) ==
  /\ At(t, "send") /\ k.err[t] = "EOK"
  /\ \/ Store(t, value[t])
     \/ WaitForRoom(t, value[t], t \in timed)
     \/ box.entry = Size /\ GivesUp(t, "EINTR")

Urgent(t, v) ==
  /\ At(t, "run") /\ t \in Sender /\ box.entry # Size
  /\ box' = StoredFirst(v)
  /\ WakeOne(t, "receivers")
  /\ UNCHANGED <<value, timed, got>>

\* An interrupt handler sends; it leaves through rt_schedule.
IsrSend(v) ==
  /\ box.entry # Size
  /\ box' = Stored(v)
  /\ k' = IF k.wait["receivers"] = <<>> THEN k
          ELSE rt_schedule(ResumeFirst(k, "receivers"))
  /\ UNCHANGED <<pc, value, timed, got>>

-----------------------------------------------------------------------------
(* rt_mb_recv *)

Fetch(t) ==
  /\ box.entry # 0
  /\ got' = [got EXCEPT ![t] = box.pool[box.out]]
  /\ box' = Fetched
  /\ WakeOne(t, "senders")
  /\ timed' = timed \ {t}
  /\ UNCHANGED value

WaitForMail(t, finite) ==
  /\ box.entry = 0
  /\ WaitOn(t, "receivers", finite, "receiving")
  /\ UNCHANGED <<box, value, got>>

Receive(t) ==
  /\ At(t, "run") /\ t \in Receiver
  /\ \/ Fetch(t)
     \/ \E finite \in BOOLEAN : WaitForMail(t, finite)

ReceiveSchedule(t) ==
  ScheduleThen(t, "receiving", "receive") /\ UNCHANGED <<box, value, timed, got>>

ReceiveAgain(t) ==
  /\ At(t, "receive") /\ k.err[t] = "EOK"
  /\ \/ Fetch(t)
     \/ WaitForMail(t, t \in timed)
     \/ box.entry = 0 /\ GivesUp(t, "ETIMEOUT")

-----------------------------------------------------------------------------
\* RT_IPC_CMD_RESET: all waiting threads return with an error.
Reset(t) ==
  /\ At(t, "run") /\ t \in Resetter
  /\ k' = ResumeAll(ResumeAll(k, "receivers"), "senders")
  /\ box' = Emptied
  /\ Goto(t, "resched")
  /\ UNCHANGED <<value, timed, got>>

Reschedule(t) ==
  ScheduleThen(t, "resched", "run") /\ UNCHANGED <<box, value, timed, got>>

\* A thread spends time elsewhere.
Sleep(t) == SleepStart(t) /\ UNCHANGED <<box, value, timed, got>>

Tick == SliceEnd /\ UNCHANGED <<box, value, timed, got>>

Timeout(t) == TimerExpires(t) /\ UNCHANGED <<box, value, timed, got>>

\* The rest of a call already begun.
Continue(t) ==
  \/ SendSchedule(t) \/ SendAgain(t) \/ Fails(t, "send")
  \/ ReceiveSchedule(t) \/ ReceiveAgain(t) \/ Fails(t, "receive")
  \/ Reschedule(t)

Next ==
  \/ \E t \in Thread, v \in Value : Send(t, v) \/ Urgent(t, v)
  \/ \E v \in Value : IsrSend(v)
  \/ \E t \in Thread : Receive(t) \/ Reset(t) \/ Sleep(t) \/ Continue(t) \/ Timeout(t)
  \/ Tick

Spec == Init /\ [][Next]_vars

-----------------------------------------------------------------------------
(* Properties *)

\* The values between out_offset and in_offset, oldest first.
Mails == [i \in 1..box.entry |-> box.pool[(box.out + i - 1) % Size]]

\* A mailbox is a bounded queue: whatever the threads and the interrupt do in
\* each other's windows, no mail is lost, duplicated or overtaken.
Queue == INSTANCE BoundedQueue WITH queue <- Mails

QueueSpec == Queue!Spec

\* Threads that were woken for a mail, or for room, and have not looked yet.
Woken(ls) == {t \in Thread : pc[t] \in ls /\ k.err[t] = "EOK"}

\* No lost wake-up: while receivers wait there is a woken receiver on its way
\* for each mail in the box, and while senders wait a woken sender for each
\* free place, whoever else took the mail or the place in between.
NoLostWakeup ==
  /\ k.wait["receivers"] # <<>> =>
       Cardinality(Woken({"receiving", "receive"})) >= box.entry
  /\ k.wait["senders"] # <<>> =>
       Cardinality(Woken({"sending", "send"})) >= Size - box.entry
=============================================================================
