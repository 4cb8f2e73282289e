--------------------------- MODULE Mailbox_proofs ---------------------------
(***************************************************************************)
(* Proofs about mailboxes: for any threads, any values and any size the    *)
(* ring of ipc.c implements BoundedQueue, however its calls interleave,    *)
(* and no wake-up is lost.                                                 *)
(***************************************************************************)
EXTENDS Mailbox, Kernel_proofs

Mail == Value \union {Nothing}

BoxState ==
  [ pool  : [0..Size-1 -> Mail],
    in    : 0..Size-1,
    out   : 0..Size-1,
    entry : 0..Size ]

\* The offsets are as far apart as there are mails.
RingInv == box \in BoxState /\ box.in = RingPlace(Size, box.out, box.entry)

\* A thread that waits to send has a value to send; one that waits for a mail
\* may receive.
CallInv ==
  /\ pc \in [Thread -> Label]
  /\ value \in [Thread -> Mail]
  /\ \A t \in Thread :
       /\ pc[t] \in {"sending", "send"} => value[t] \in Value
       /\ pc[t] \in {"receiving", "receive"} => t \in Receiver

BoxInv == RingInv /\ CallInv

QueueStep == Queue!Next \/ UNCHANGED <<Mails, got>>

-----------------------------------------------------------------------------
(* The ring *)

\* The pool holds one mail at least.
LEMMA SizeNat == Size \in Nat /\ Size > 0
BY MailboxAssumption

\* The steps of the offsets, and the mails as a ring of cells.
LEMMA RingWords ==
  /\ \A o \in 0..Size-1 : /\ Forward(o) = RingPlace(Size, o, 1)
                          /\ Backward(o) \in 0..Size-1
                          /\ RingPlace(Size, Backward(o), 1) = o
  /\ RingPlace(Size, 0, 0) = 0
  /\ Mails = RingSeq(box.pool, Size, box.out, box.entry)
  /\ Mails' = RingSeq(box'.pool, Size, box'.out, box'.entry)
<1>1. \A o \in 0..Size-1 : /\ Forward(o) = RingPlace(Size, o, 1)
                           /\ Backward(o) \in 0..Size-1
                           /\ RingPlace(Size, Backward(o), 1) = o
  BY SizeNat DEF Forward, Backward, RingPlace
<1>2. RingPlace(Size, 0, 0) = 0
  BY SizeNat DEF RingPlace
<1>3. Mails = RingSeq(box.pool, Size, box.out, box.entry)
  BY DEF Mails, RingSeq
<1>4. Mails' = RingSeq(box'.pool, Size, box'.out, box'.entry)
  BY DEF Mails, RingSeq
<1> QED
  BY <1>1, <1>2, <1>3, <1>4

-----------------------------------------------------------------------------
(* The operations on the ring are those on the queue. *)

\* A mail is stored behind the others.
LEMMA StoredAppends ==
  ASSUME RingInv, NEW v \in Mail, box.entry # Size, box' = Stored(v)
  PROVE  RingInv' /\ Len(Mails) < Size /\ Mails' = Append(Mails, v)
<1> DEFINE n == box.entry
           o == box.out
           p == box.pool
           i == RingPlace(Size, o, n)
           q == [p EXCEPT ![i] = v]
<1>1. /\ n \in 0..Size-1 /\ o \in 0..Size-1 /\ Size \in Nat
      /\ p \in Cells(Mail, Size) /\ box.in = i /\ box \in BoxState
  BY SizeNat DEF RingInv, BoxState, Cells
<1>2. box' = [box EXCEPT !.pool = q, !.in = Forward(i), !.entry = n + 1]
  BY <1>1 DEF Stored
<1> HIDE DEF n, o, p
<1>3. n \in 0..Size /\ n + 1 \in 0..Size
  BY <1>1
<1>4. i \in 0..Size-1
  BY <1>1, <1>3, PlaceValue
<1>5. Forward(i) = RingPlace(Size, o, n + 1) /\ Forward(i) \in 0..Size-1
  <2>1. RingPlace(Size, i, 1) = RingPlace(Size, o, n + 1)
    BY <1>1, PlaceForward
  <2>2. Forward(i) = RingPlace(Size, i, 1)
    BY <1>4, RingWords
  <2>3. RingPlace(Size, o, n + 1) \in 0..Size-1
    BY <1>1, <1>3, PlaceValue
  <2> QED BY <2>1, <2>2, <2>3
<1>6. q \in Cells(Mail, Size) /\ RingSeq(q, Size, o, n + 1) = Append(RingSeq(p, Size, o, n), v)
  <2>1. q \in Cells(Mail, Size)
    BY <1>1 DEF Cells
  <2>2. RingSeq(q, Size, o, n + 1) = Append(RingSeq(p, Size, o, n), v)
    <3> HIDE DEF q
    <3>1. Filled(q, p, i, v)
      BY <1>1, <1>4 DEF q, Filled, Cells
    <3> QED BY <1>1, <2>1, <3>1, RingAppends
  <2> QED BY <2>1, <2>2
<1> HIDE DEF i, q
<1>7. /\ box' \in BoxState
      /\ box'.pool = q /\ box'.in = Forward(i) /\ box'.entry = n + 1 /\ box'.out = o
  BY <1>1, <1>2, <1>3, <1>5, <1>6 DEF BoxState, Cells, o
<1>8. RingInv'
  BY <1>5, <1>7 DEF RingInv, BoxState, Mail
<1>9. Mails' = Append(Mails, v)
  BY <1>6, <1>7, RingWords DEF n, o, p
<1>10. Len(Mails) = n
  BY <1>1, RingWords, RingLen DEF n
<1> QED
  BY <1>1, <1>8, <1>9, <1>10

\* An urgent mail is stored in front of the others.
LEMMA StoredFirstPrepends ==
  ASSUME RingInv, NEW v \in Mail, box.entry # Size, box' = StoredFirst(v)
  PROVE  RingInv' /\ Len(Mails) < Size /\ Mails' = <<v>> \o Mails
<1> DEFINE n == box.entry
           o == Backward(box.out)
           p == box.pool
           q == [p EXCEPT ![o] = v]
<1>1. /\ n \in 0..Size-1 /\ box.out \in 0..Size-1 /\ Size \in Nat
      /\ p \in Cells(Mail, Size) /\ box.in = RingPlace(Size, box.out, n)
      /\ box \in BoxState
  BY SizeNat DEF RingInv, BoxState, Cells
<1>2. box' = [box EXCEPT !.pool = q, !.out = o, !.entry = n + 1]
  BY DEF StoredFirst
<1>3. o \in 0..Size-1 /\ RingPlace(Size, o, 1) = box.out
  BY <1>1, RingWords
<1> HIDE DEF n, o, p
<1>4. n + 1 \in 0..Size
  BY <1>1
<1>5. box.in = RingPlace(Size, o, n + 1)
  <2>1. RingPlace(Size, RingPlace(Size, o, 1), n) = RingPlace(Size, o, n + 1)
    BY <1>1, <1>3, PlaceForward
  <2> QED BY <1>1, <1>3, <2>1
<1>6. /\ q \in Cells(Mail, Size)
      /\ RingSeq(q, Size, o, n + 1) = <<v>> \o RingSeq(p, Size, RingPlace(Size, o, 1), n)
  <2>1. q \in Cells(Mail, Size)
    BY <1>1 DEF Cells
  <2>2. RingSeq(q, Size, o, n + 1) = <<v>> \o RingSeq(p, Size, RingPlace(Size, o, 1), n)
    <3> HIDE DEF q, o
    <3>1. Filled(q, p, o, v)
      BY <1>1, <1>3 DEF q, Filled, Cells
    <3> QED BY <1>1, <1>3, <2>1, <3>1, RingPrepends
  <2> QED BY <2>1, <2>2
<1> HIDE DEF q
<1>7. /\ box' \in BoxState
      /\ box'.pool = q /\ box'.in = box.in /\ box'.entry = n + 1 /\ box'.out = o
  BY <1>1, <1>2, <1>3, <1>4, <1>6 DEF BoxState, Cells
<1>8. RingInv'
  BY <1>5, <1>7 DEF RingInv, BoxState, Mail
<1>9. Mails' = <<v>> \o Mails
  BY <1>3, <1>6, <1>7, RingWords DEF n, p
<1>10. Len(Mails) = n
  BY <1>1, RingWords, RingLen DEF n
<1> QED
  BY <1>1, <1>8, <1>9, <1>10

\* The oldest mail is fetched.
LEMMA FetchedTakesHead ==
  ASSUME RingInv, box.entry # 0, box' = Fetched
  PROVE  /\ RingInv' /\ Mails # <<>>
         /\ Mails' = Tail(Mails)
         /\ Head(Mails) = box.pool[box.out]
<1> DEFINE n == box.entry
           o == box.out
           p == box.pool
           f == Forward(o)
<1>1. /\ n \in 1..Size /\ o \in 0..Size-1 /\ Size \in Nat
      /\ p \in Cells(Mail, Size) /\ box.in = RingPlace(Size, o, n)
      /\ box \in BoxState
  BY SizeNat DEF RingInv, BoxState, Cells
<1>2. box' = [box EXCEPT !.out = f, !.entry = n - 1]
  BY DEF Fetched
<1> HIDE DEF n, o, p
<1>3. n - 1 \in 0..Size-1 /\ n - 1 \in 0..Size /\ (n - 1) + 1 = n /\ 0 \in 0..Size-1
  BY <1>1
<1>4. f = RingPlace(Size, o, 1) /\ f \in 0..Size-1
  <2>1. RingPlace(Size, o, 1) \in 0..Size-1
    BY <1>1, <1>3, PlaceForward
  <2> QED BY <1>1, <2>1, RingWords
<1>5. box.in = RingPlace(Size, f, n - 1)
  <2>1. RingPlace(Size, RingPlace(Size, o, 1), n - 1) = RingPlace(Size, o, (n - 1) + 1)
    BY <1>1, <1>3, PlaceForward
  <2> QED BY <1>1, <1>3, <1>4, <2>1
<1> HIDE DEF f
<1>6. /\ box' \in BoxState
      /\ box'.pool = p /\ box'.in = box.in /\ box'.entry = n - 1 /\ box'.out = f
  BY <1>1, <1>2, <1>3, <1>4 DEF BoxState, Cells, p
<1>7. RingInv'
  BY <1>5, <1>6 DEF RingInv, BoxState, Mail
<1> DEFINE s == RingSeq(p, Size, o, n)
<1>8. s # <<>> /\ Head(s) = p[o] /\ RingSeq(p, Size, RingPlace(Size, o, 1), n - 1) = Tail(s)
  BY <1>1, RingTakesHead
<1>9. Mails = s /\ Mails' = RingSeq(p, Size, f, n - 1)
  BY <1>6, RingWords DEF n, o, p
<1> QED
  BY <1>4, <1>7, <1>8, <1>9 DEF o, p

\* A reset leaves no mail.
LEMMA EmptiedIsEmpty ==
  ASSUME RingInv, box' = Emptied
  PROVE  RingInv' /\ Mails' = <<>>
<1>1. box \in BoxState /\ 0 \in 0..Size-1 /\ 0 \in 0..Size
  BY SizeNat DEF RingInv
<1>2. /\ box' \in BoxState
      /\ box'.in = 0 /\ box'.out = 0 /\ box'.entry = 0
  <2>1. box' = [box EXCEPT !.entry = 0, !.in = 0, !.out = 0]
    BY DEF Emptied
  <2> QED BY <1>1, <2>1 DEF BoxState
<1>3. RingInv'
  BY <1>2, RingWords DEF RingInv, BoxState, Mail
<1>4. Mails' = <<>>
  BY <1>2 DEF Mails
<1> QED
  BY <1>3, <1>4

\* What changes neither the box nor what receivers got is no step of the queue.
LEMMA QuietStep ==
  ASSUME RingInv, UNCHANGED <<box, got>>
  PROVE  RingInv' /\ QueueStep
<1>1. RingInv'
  BY DEF RingInv, BoxState, Mail
<1>2. Mails' = Mails
  BY DEF Mails
<1> QED
  BY <1>1, <1>2 DEF QueueStep

-----------------------------------------------------------------------------
(* The calls *)

\* A thread goes on at a label that fits the value it has to send.
LEMMA CallMoves ==
  ASSUME CallInv, NEW t \in Thread, NEW l \in Label, Goto(t, l),
         value' \in [Thread -> Mail], \A u \in Thread \ {t} : value'[u] = value[u],
         l \in {"sending", "send"} => value'[t] \in Value,
         l \in {"receiving", "receive"} => t \in Receiver
  PROVE  CallInv'
<1>1. pc \in [Thread -> Label]
  BY DEF CallInv
<1>2. pc' = [pc EXCEPT ![t] = l]
  BY DEF Goto
<1>3. pc' \in [Thread -> Label]
  BY <1>1, <1>2
<1>4. ASSUME NEW u \in Thread
      PROVE  /\ pc'[u] \in {"sending", "send"} => value'[u] \in Value
             /\ pc'[u] \in {"receiving", "receive"} => u \in Receiver
  <2>1. CASE u = t
    BY <1>1, <1>2, <2>1
  <2>2. CASE u # t
    <3>1. pc'[u] = pc[u] /\ value'[u] = value[u]
      BY <1>1, <1>2, <2>2
    <3> QED BY <3>1 DEF CallInv
  <2> QED BY <2>1, <2>2
<1> QED
  BY <1>3, <1>4 DEF CallInv, Mail, Label

\* The same for a thread whose value is cleared or kept.
LEMMA CallEnds ==
  ASSUME CallInv, NEW t \in Thread, NEW l \in {"run", "resched"}, Goto(t, l),
         value' = [value EXCEPT ![t] = Nothing] \/ value' = value
  PROVE  CallInv'
<1>1. value \in [Thread -> Mail] /\ Nothing \in Mail
  BY DEF CallInv, Mail
<1>2. value' \in [Thread -> Mail] /\ \A u \in Thread \ {t} : value'[u] = value[u]
  BY <1>1
<1>3. l \in Label /\ l \notin {"sending", "send"} /\ l \notin {"receiving", "receive"}
  BY DEF Label
<1> QED
  BY <1>2, <1>3, CallMoves

\* Interrupts and steps that leave the calls alone.
LEMMA CallKept ==
  ASSUME CallInv, UNCHANGED <<pc, value>>
  PROVE  CallInv'
BY DEF CallInv, Mail, Label

\* What waking a thread does to the caller.
LEMMA WakeGoes ==
  ASSUME NEW t, NEW w, WakeOne(t, w)
  PROVE  Goto(t, "run") \/ Goto(t, "resched")
BY DEF WakeOne

\* What every action keeps and how it looks to the users of the mailbox.
StepGood == BoxInv' /\ QueueStep

\* A thread that finds room stores: the send of the queue.
LEMMA StoreStep ==
  ASSUME BoxInv, NEW t \in Thread, NEW v \in Value, Store(t, v)
  PROVE  StepGood
<1>1. RingInv /\ CallInv /\ v \in Mail
  BY DEF BoxInv, Mail
<1>2. /\ box.entry # Size /\ box' = Stored(v) /\ WakeOne(t, "receivers")
      /\ value' = [value EXCEPT ![t] = Nothing] /\ got' = got
  BY DEF Store
<1>3. RingInv' /\ Len(Mails) < Size /\ Mails' = Append(Mails, v)
  BY <1>1, <1>2, StoredAppends
<1>4. Queue!Send(v)
  BY <1>2, <1>3 DEF Queue!Send
<1>5. CallInv'
  BY <1>1, <1>2, WakeGoes, CallEnds
<1> QED
  BY <1>3, <1>4, <1>5 DEF StepGood, BoxInv, QueueStep, Queue!Next

\* A thread stores in front: the urgent send of the queue.
LEMMA UrgentStep ==
  ASSUME BoxInv, NEW t \in Thread, NEW v \in Value, Urgent(t, v)
  PROVE  StepGood
<1>1. RingInv /\ CallInv /\ v \in Mail
  BY DEF BoxInv, Mail
<1>2. /\ box.entry # Size /\ box' = StoredFirst(v) /\ WakeOne(t, "receivers")
      /\ value' = value /\ got' = got
  BY DEF Urgent
<1>3. RingInv' /\ Len(Mails) < Size /\ Mails' = <<v>> \o Mails
  BY <1>1, <1>2, StoredFirstPrepends
<1>4. Queue!Urgent(v)
  BY <1>2, <1>3 DEF Queue!Urgent
<1>5. CallInv'
  BY <1>1, <1>2, WakeGoes, CallEnds
<1> QED
  BY <1>3, <1>4, <1>5 DEF StepGood, BoxInv, QueueStep, Queue!Next

\* The interrupt handler sends between two steps of the threads.
LEMMA IsrSendStep ==
  ASSUME BoxInv, NEW v \in Value, IsrSend(v)
  PROVE  StepGood
<1>1. RingInv /\ CallInv /\ v \in Mail
  BY DEF BoxInv, Mail
<1>2. box.entry # Size /\ box' = Stored(v) /\ UNCHANGED <<pc, value, got>>
  BY DEF IsrSend
<1>3. RingInv' /\ Len(Mails) < Size /\ Mails' = Append(Mails, v)
  BY <1>1, <1>2, StoredAppends
<1>4. Queue!Send(v)
  BY <1>2, <1>3 DEF Queue!Send
<1>5. CallInv'
  BY <1>1, <1>2, CallKept
<1> QED
  BY <1>3, <1>4, <1>5 DEF StepGood, BoxInv, QueueStep, Queue!Next

\* A receiver takes the oldest mail: the receive of the queue.
LEMMA FetchStep ==
  ASSUME BoxInv, NEW t \in Thread, t \in Receiver, Fetch(t)
  PROVE  StepGood
<1>1. RingInv /\ CallInv
  BY DEF BoxInv
<1>2. /\ box.entry # 0 /\ box' = Fetched /\ WakeOne(t, "senders")
      /\ value' = value /\ got' = [got EXCEPT ![t] = box.pool[box.out]]
  BY DEF Fetch
<1>3. /\ RingInv' /\ Mails # <<>> /\ Mails' = Tail(Mails)
      /\ Head(Mails) = box.pool[box.out]
  BY <1>1, <1>2, FetchedTakesHead
<1>4. Queue!Receive(t)
  BY <1>2, <1>3 DEF Queue!Receive
<1>5. CallInv'
  BY <1>1, <1>2, WakeGoes, CallEnds
<1> QED
  BY <1>3, <1>4, <1>5 DEF StepGood, BoxInv, QueueStep, Queue!Next

\* A thread empties the mailbox: the reset of the queue.
LEMMA ResetStep ==
  ASSUME BoxInv, NEW t \in Thread, Reset(t)
  PROVE  StepGood
<1>1. RingInv /\ CallInv
  BY DEF BoxInv
<1>2. box' = Emptied /\ Goto(t, "resched") /\ value' = value /\ got' = got
  BY DEF Reset
<1>3. RingInv' /\ Mails' = <<>>
  BY <1>1, <1>2, EmptiedIsEmpty
<1>4. Queue!Reset
  BY <1>2, <1>3 DEF Queue!Reset
<1>5. CallInv'
  BY <1>1, <1>2, CallEnds
<1> QED
  BY <1>3, <1>4, <1>5 DEF StepGood, BoxInv, QueueStep, Queue!Next

\* A thread that waits for room keeps its value.
LEMMA WaitForRoomStep ==
  ASSUME BoxInv, NEW t \in Thread, NEW v \in Value, NEW finite \in BOOLEAN,
         WaitForRoom(t, v, finite)
  PROVE  StepGood
<1>1. RingInv /\ CallInv /\ v \in Mail
  BY DEF BoxInv, Mail
<1>2. Goto(t, "sending") /\ value' = [value EXCEPT ![t] = v] /\ UNCHANGED <<box, got>>
  BY DEF WaitForRoom, WaitOn
<1>3. value \in [Thread -> Mail]
  BY <1>1 DEF CallInv
<1>4. /\ value' \in [Thread -> Mail] /\ value'[t] = v
      /\ \A u \in Thread \ {t} : value'[u] = value[u]
  BY <1>1, <1>2, <1>3
<1>5. CallInv'
  BY <1>1, <1>2, <1>4, CallMoves DEF Label
<1> QED
  BY <1>1, <1>2, <1>5, QuietStep DEF StepGood, BoxInv

\* A receiver that waits for a mail is a receiver.
LEMMA WaitForMailStep ==
  ASSUME BoxInv, NEW t \in Thread, t \in Receiver, NEW finite \in BOOLEAN,
         WaitForMail(t, finite)
  PROVE  StepGood
<1>1. RingInv /\ CallInv
  BY DEF BoxInv
<1>2. Goto(t, "receiving") /\ UNCHANGED <<box, value, got>>
  BY DEF WaitForMail, WaitOn
<1>3. value' \in [Thread -> Mail] /\ \A u \in Thread \ {t} : value'[u] = value[u]
  BY <1>1, <1>2 DEF CallInv
<1>4. CallInv'
  BY <1>1, <1>2, <1>3, CallMoves DEF Label
<1> QED
  BY <1>1, <1>2, <1>4, QuietStep DEF StepGood, BoxInv

\* A call that ends without having touched the box.
LEMMA QuietCall ==
  ASSUME BoxInv, NEW t \in Thread, NEW l \in {"run", "resched"}, Goto(t, l),
         value' = [value EXCEPT ![t] = Nothing] \/ value' = value,
         UNCHANGED <<box, got>>
  PROVE  StepGood
<1>1. RingInv /\ CallInv
  BY DEF BoxInv
<1>2. CallInv'
  BY <1>1, CallEnds
<1> QED
  BY <1>1, <1>2, QuietStep DEF StepGood, BoxInv

\* rt_schedule inside a wait loop: the thread goes on behind it.
LEMMA LoopScheduleStep ==
  ASSUME BoxInv, NEW t \in Thread, SendSchedule(t) \/ ReceiveSchedule(t)
  PROVE  StepGood
<1>1. RingInv /\ CallInv
  BY DEF BoxInv
<1>2. UNCHANGED <<box, value, got>>
  BY DEF SendSchedule, ReceiveSchedule
<1>3. /\ \A u \in Thread \ {t} : value'[u] = value[u]
      /\ value' \in [Thread -> Mail]
      /\ pc[t] \in {"sending", "send"} => value[t] \in Value
      /\ pc[t] \in {"receiving", "receive"} => t \in Receiver
  BY <1>1, <1>2 DEF CallInv
<1>4. CASE SendSchedule(t)
  <2>1. pc[t] = "sending" /\ Goto(t, "send")
    BY <1>4 DEF SendSchedule, ScheduleThen, At
  <2>2. CallInv'
    BY <1>1, <1>2, <1>3, <2>1, CallMoves DEF Label
  <2> QED BY <1>1, <1>2, <2>2, QuietStep DEF StepGood, BoxInv
<1>5. CASE ReceiveSchedule(t)
  <2>1. pc[t] = "receiving" /\ Goto(t, "receive")
    BY <1>5 DEF ReceiveSchedule, ScheduleThen, At
  <2>2. CallInv'
    BY <1>1, <1>2, <1>3, <2>1, CallMoves DEF Label
  <2> QED BY <1>1, <1>2, <2>2, QuietStep DEF StepGood, BoxInv
<1> QED
  BY <1>4, <1>5

\* Whatever a thread that has begun a call does next.
LEMMA ContinueStep ==
  ASSUME BoxInv, NEW t \in Thread, Continue(t)
  PROVE  StepGood
<1>1. /\ pc[t] = "send" => value[t] \in Value
      /\ pc[t] = "receive" => t \in Receiver
  BY DEF BoxInv, CallInv
<1>2. (t \in timed) \in BOOLEAN
  OBVIOUS
<1>3. CASE SendSchedule(t) \/ ReceiveSchedule(t)
  BY <1>3, LoopScheduleStep
<1>4. CASE SendAgain(t)
  <2>1. value[t] \in Value
    BY <1>1, <1>4 DEF SendAgain, At
  <2>2. CASE Store(t, value[t])
    BY <2>1, <2>2, StoreStep
  <2>3. CASE WaitForRoom(t, value[t], t \in timed)
    BY <1>2, <2>1, <2>3, WaitForRoomStep
  <2>4. CASE GivesUp(t, "EINTR")
    <3>1. /\ Goto(t, "run") /\ value' = [value EXCEPT ![t] = Nothing]
          /\ UNCHANGED <<box, got>>
      BY <2>4 DEF GivesUp
    <3> QED BY <3>1, QuietCall
  <2> QED BY <1>4, <2>2, <2>3, <2>4 DEF SendAgain
<1>5. CASE ReceiveAgain(t)
  <2>1. t \in Receiver
    BY <1>1, <1>5 DEF ReceiveAgain, At
  <2>2. CASE Fetch(t)
    BY <2>1, <2>2, FetchStep
  <2>3. CASE WaitForMail(t, t \in timed)
    BY <1>2, <2>1, <2>3, WaitForMailStep
  <2>4. CASE GivesUp(t, "ETIMEOUT")
    <3>1. /\ Goto(t, "run") /\ value' = [value EXCEPT ![t] = Nothing]
          /\ UNCHANGED <<box, got>>
      BY <2>4 DEF GivesUp
    <3> QED BY <3>1, QuietCall
  <2> QED BY <1>5, <2>2, <2>3, <2>4 DEF ReceiveAgain
<1>6. CASE Fails(t, "send") \/ Fails(t, "receive")
  <2>1. /\ Goto(t, "run") /\ value' = [value EXCEPT ![t] = Nothing]
        /\ UNCHANGED <<box, got>>
    BY <1>6 DEF Fails
  <2> QED BY <2>1, QuietCall
<1>7. CASE Reschedule(t)
  <2>1. Goto(t, "run") /\ UNCHANGED <<box, value, got>>
    BY <1>7 DEF Reschedule, ScheduleThen
  <2> QED BY <2>1, QuietCall
<1> QED
  BY <1>3, <1>4, <1>5, <1>6, <1>7 DEF Continue

\* Every step keeps the invariant, and is a step of the queue or none.
LEMMA NextStep ==
  ASSUME BoxInv, [Next]_vars
  PROVE  StepGood
<1>1. RingInv /\ CallInv
  BY DEF BoxInv
<1>2. ASSUME UNCHANGED <<box, got, pc, value>> PROVE StepGood
  BY <1>1, <1>2, QuietStep, CallKept DEF StepGood, BoxInv
<1>3. ASSUME NEW t \in Thread, NEW v \in Value, Send(t, v) PROVE StepGood
  <2>1. CASE Store(t, v)
    BY <2>1, StoreStep
  <2>2. CASE \E finite \in BOOLEAN : WaitForRoom(t, v, finite)
    BY <2>2, WaitForRoomStep
  <2> QED BY <1>3, <2>1, <2>2 DEF Send
<1>4. ASSUME NEW t \in Thread, Receive(t) PROVE StepGood
  <2>1. t \in Receiver
    BY <1>4 DEF Receive
  <2>2. CASE Fetch(t)
    BY <2>1, <2>2, FetchStep
  <2>3. CASE \E finite \in BOOLEAN : WaitForMail(t, finite)
    BY <2>1, <2>3, WaitForMailStep
  <2> QED BY <1>4, <2>2, <2>3 DEF Receive
<1>5. ASSUME NEW t \in Thread, Sleep(t) PROVE StepGood
  <2>1. Goto(t, "resched") /\ UNCHANGED <<box, value, got>>
    BY <1>5 DEF Sleep, SleepStart
  <2> QED BY <2>1, QuietCall
<1>6. ASSUME NEW t \in Thread, Timeout(t) PROVE StepGood
  BY <1>2, <1>6 DEF Timeout, TimerExpires
<1>7. ASSUME Tick PROVE StepGood
  BY <1>2, <1>7 DEF Tick, SliceEnd
<1>8. ASSUME UNCHANGED vars PROVE StepGood
  BY <1>2, <1>8 DEF vars
<1>9. CASE Next
  BY <1>3, <1>4, <1>5, <1>6, <1>7, <1>9, UrgentStep, IsrSendStep, ResetStep,
     ContinueStep DEF Next
<1> QED
  BY <1>8, <1>9

\* The mailbox starts empty, with nobody in a call.
LEMMA InitStep ==
  ASSUME Init
  PROVE  BoxInv /\ Queue!Init
<1>1. Size \in Nat /\ 0 \in 0..Size-1 /\ 0 \in 0..Size
  BY SizeNat
<1>2. /\ box = [pool |-> [i \in 0..Size-1 |-> Nothing], in |-> 0, out |-> 0, entry |-> 0]
      /\ got = [r \in Receiver |-> Nothing]
      /\ pc = [t \in Thread |-> "run"] /\ value = [t \in Thread |-> Nothing]
  BY DEF Init
<1>3. box.in = 0 /\ box.out = 0 /\ box.entry = 0 /\ box \in BoxState
  <2>1. [i \in 0..Size-1 |-> Nothing] \in [0..Size-1 -> Mail]
    BY DEF Mail
  <2> QED BY <1>1, <1>2, <2>1 DEF BoxState
<1>4. RingInv
  BY <1>3, RingWords DEF RingInv
<1>5. CallInv
  BY <1>2 DEF CallInv, Mail, Label
<1>6. Mails = <<>>
  BY <1>3 DEF Mails
<1> QED
  BY <1>2, <1>4, <1>5, <1>6 DEF BoxInv, Queue!Init

\* The offsets of the ring are always as far apart as there are mails, and a
\* thread that waits has what its call needs when it goes on.
THEOREM RingHolds == Spec => []BoxInv
<1>1. Init => BoxInv
  BY InitStep
<1>2. BoxInv /\ [Next]_vars => BoxInv'
  BY NextStep DEF StepGood
<1> QED
  BY <1>1, <1>2, PTL DEF Spec

\* The mailbox is a bounded queue for every number of threads, every size of
\* the ring and every set of values: rt_mb_send_wait, rt_mb_urgent, rt_mb_recv
\* and the reset lose, double and overtake no mail, with the interrupt handler
\* and the time limits anywhere in between.
THEOREM QueueHolds == Spec => QueueSpec
<1>1. Init => Queue!Init
  BY InitStep
<1>2. BoxInv /\ [Next]_vars => [Queue!Next]_<<Mails, got>>
  BY NextStep DEF StepGood, QueueStep
<1>3. Queue!Spec <=> Queue!Init /\ [][Queue!Next]_<<Mails, got>>
  BY DEF Queue!Spec
<1> QED
  BY <1>1, <1>2, <1>3, RingHolds, PTL DEF Spec, QueueSpec

-----------------------------------------------------------------------------
(* No wake-up is lost. *)

Receiving == {"receiving", "receive"}
Sending   == {"sending", "send"}

\* The calls on the mailbox, for the lemmas about suspend lists.
BoxCalls ==
  [ labels |-> Label,
    lists  |-> [w \in WaitList |-> IF w = "receivers" THEN Receiving ELSE Sending],
    out    |-> {"sending", "receiving", "resched"},
    locked |-> {} ]

\* The threads are on the lists and in the calls that belong together, and while
\* threads wait enough others are on their way: a receiver for each mail, a
\* sender for each free place.
WakeInv ==
  /\ Sound(k, pc, BoxCalls)
  /\ Enough(k, pc, "receivers", Receiving, box.entry)
  /\ Enough(k, pc, "senders", Sending, Size - box.entry)

MailInv == BoxInv /\ WakeInv

LEMMA BoxCallsOK ==
  /\ CallsOK(BoxCalls)
  /\ BoxCalls.lists["receivers"] = Receiving /\ BoxCalls.lists["senders"] = Sending
  /\ BoxCalls.labels = Label /\ BoxCalls.out = {"sending", "receiving", "resched"}
  /\ BoxCalls.locked = {}
  /\ WaitList = {"receivers", "senders"}
<1>1. WaitList = {"receivers", "senders"}
  BY MailboxAssumption
<1>2. /\ BoxCalls.lists["receivers"] = Receiving /\ BoxCalls.lists["senders"] = Sending
      /\ BoxCalls.labels = Label /\ BoxCalls.out = {"sending", "receiving", "resched"}
      /\ BoxCalls.locked = {}
  BY <1>1 DEF BoxCalls
<1>3. CallsOK(BoxCalls)
  BY <1>1, <1>2 DEF CallsOK, Label, Receiving, Sending
<1> QED
  BY <1>1, <1>2, <1>3

\* What the mailbox holds counts.
LEMMA EntryNat ==
  ASSUME RingInv
  PROVE  /\ box.entry \in Nat /\ box.entry \in Int /\ Size - box.entry \in Int
         /\ Size \in Int
BY SizeNat DEF RingInv, BoxState

\* A thread that goes on after a wait, or begins a call, is not the idle thread.
LEMMA CallerOK ==
  ASSUME WakeInv, NEW t, NEW l \in Label, At(t, l)
  PROVE  /\ t = k.cur /\ t \in Thread
         /\ l # "run" => t # Idle
<1>1. k.cur \in Thread /\ pc[Idle] = "run"
  BY DEF WakeInv, Sound, IpcInv, KernelInv, ListFacts, KernelState
<1> QED
  BY <1>1 DEF At

\* Steps that leave the mailbox and whoever is on the way alone.
LEMMA WakeKept ==
  ASSUME WakeInv, RingInv, box' = box, Sound(k', pc', BoxCalls),
         Calm(k', pc', k, pc, "receivers", Receiving),
         Calm(k', pc', k, pc, "senders", Sending)
  PROVE  WakeInv'
<1> DEFINE n == box.entry
           m == Size - box.entry
<1>1. n \in Int /\ m \in Int /\ n <= n /\ m <= m
  BY EntryNat
<1>2. /\ Enough(k, pc, "receivers", Receiving, n)
      /\ Enough(k, pc, "senders", Sending, m)
      /\ IpcInv(k) /\ IpcInv(k')
      /\ "receivers" \in WaitList /\ "senders" \in WaitList
  BY BoxCallsOK DEF WakeInv, Sound
<1> HIDE DEF n, m
<1>3. Enough(k', pc', "receivers", Receiving, n)
  BY <1>1, <1>2, EnoughKept DEF Calm
<1>4. Enough(k', pc', "senders", Sending, m)
  BY <1>1, <1>2, EnoughKept DEF Calm
<1>5. WakeInv' <=> /\ Sound(k', pc', BoxCalls)
                   /\ Enough(k', pc', "receivers", Receiving, box'.entry)
                   /\ Enough(k', pc', "senders", Sending, Size - box'.entry)
  BY DEF WakeInv, BoxCalls, Receiving, Sending
<1> QED
  BY <1>3, <1>4, <1>5 DEF n, m

\* What WakeInv says of the next state.
LEMMA WakeInvNext ==
  WakeInv' <=> /\ Sound(k', pc', BoxCalls)
               /\ Enough(k', pc', "receivers", Receiving, box'.entry)
               /\ Enough(k', pc', "senders", Sending, Size - box'.entry)
BY DEF WakeInv, BoxCalls, Receiving, Sending

\* WakeOne in the words of the lemmas.
LEMMA WakeOneSound ==
  ASSUME WakeInv, NEW t, NEW l \in Label, At(t, l), t # Idle, l \notin BoxCalls.out,
         NEW w \in WaitList, l \notin BoxCalls.lists[w], WakeOne(t, w)
  PROVE  /\ Sound(k', pc', BoxCalls)
         /\ OneMore(k', pc', k, pc, w, BoxCalls.lists[w])
         /\ \A v \in WaitList : v # w => Leaves(k', pc', k, pc, v, BoxCalls.lists[v], t)
<1> DEFINE c == BoxCalls
<1>1. CallsOK(c) /\ Sound(k, pc, c) /\ t = k.cur /\ pc[t] = l /\ pc[t] \notin c.locked
  BY BoxCallsOK, CallerOK DEF WakeInv, At
<1>2. WakesFirst(k', pc', k, pc, w, t)
  BY DEF WakeOne, WakesFirst, Goto
<1> HIDE DEF c
<1>3. /\ Sound(k', pc', c)
      /\ OneMore(k', pc', k, pc, w, c.lists[w])
      /\ \A v \in WaitList : v # w => Leaves(k', pc', k, pc, v, c.lists[v], t)
  BY <1>1, <1>2, SoundWakesOne DEF c
<1> QED
  BY <1>3 DEF c

\* A mail more: a receiver is woken for it.
LEMMA StoreWakes ==
  ASSUME WakeInv, RingInv, NEW t, NEW l \in {"run", "send"}, At(t, l), t # Idle,
         box'.entry = box.entry + 1, WakeOne(t, "receivers")
  PROVE  WakeInv'
<1>1. /\ "receivers" \in WaitList /\ "senders" \in WaitList
      /\ IpcInv(k) /\ box.entry \in Int /\ Size - box.entry \in Int
      /\ box'.entry \in Int /\ Size - box'.entry \in Int
      /\ box'.entry <= box.entry + 1 /\ Size - box'.entry <= (Size - box.entry) - 1
  BY BoxCallsOK, EntryNat DEF WakeInv, Sound
<1>2. /\ Sound(k', pc', BoxCalls)
      /\ OneMore(k', pc', k, pc, "receivers", Receiving)
      /\ Leaves(k', pc', k, pc, "senders", Sending, t)
  <2>1. l \in Label /\ l \notin BoxCalls.out /\ l \notin Receiving
    BY BoxCallsOK DEF Label, Receiving
  <2> QED BY <1>1, <2>1, WakeOneSound, BoxCallsOK
<1>3. Enough(k', pc', "receivers", Receiving, box'.entry)
  BY <1>1, <1>2, EnoughWithOneMore DEF WakeInv, Sound
<1>4. Enough(k', pc', "senders", Sending, Size - box'.entry)
  BY <1>1, <1>2, EnoughLess DEF WakeInv, Sound
<1> QED
  BY <1>2, <1>3, <1>4, WakeInvNext

\* A free place more: a sender is woken for it.
LEMMA FetchWakes ==
  ASSUME WakeInv, RingInv, NEW t, NEW l \in {"run", "receive"}, At(t, l), t # Idle,
         box'.entry = box.entry - 1, WakeOne(t, "senders")
  PROVE  WakeInv'
<1>1. /\ "receivers" \in WaitList /\ "senders" \in WaitList
      /\ IpcInv(k) /\ box.entry \in Int /\ Size - box.entry \in Int
      /\ box'.entry \in Int /\ Size - box'.entry \in Int
      /\ box'.entry <= box.entry - 1 /\ Size - box'.entry <= (Size - box.entry) + 1
  BY BoxCallsOK, EntryNat DEF WakeInv, Sound
<1>2. /\ Sound(k', pc', BoxCalls)
      /\ OneMore(k', pc', k, pc, "senders", Sending)
      /\ Leaves(k', pc', k, pc, "receivers", Receiving, t)
  <2>1. l \in Label /\ l \notin BoxCalls.out /\ l \notin Sending
    BY BoxCallsOK DEF Label, Sending
  <2> QED BY <1>1, <2>1, WakeOneSound, BoxCallsOK
<1>3. Enough(k', pc', "senders", Sending, Size - box'.entry)
  BY <1>1, <1>2, EnoughWithOneMore DEF WakeInv, Sound
<1>4. Enough(k', pc', "receivers", Receiving, box'.entry)
  BY <1>1, <1>2, EnoughLess DEF WakeInv, Sound
<1> QED
  BY <1>2, <1>3, <1>4, WakeInvNext

\* A thread waits for what the mailbox has none of.
LEMMA WaitOnSound ==
  ASSUME WakeInv, RingInv, NEW t, NEW l \in Label, At(t, l), t # Idle, l \notin BoxCalls.out,
         NEW w \in WaitList, NEW n \in BoxCalls.lists[w] \intersect BoxCalls.out,
         NEW finite \in BOOLEAN, WaitOn(t, w, finite, n),
         \A v \in WaitList : v # w => l \notin BoxCalls.lists[v]
  PROVE  /\ Sound(k', pc', BoxCalls)
         /\ \A v \in WaitList : v # w => Calm(k', pc', k, pc, v, BoxCalls.lists[v])
<1> DEFINE c == BoxCalls
<1>1. CallsOK(c) /\ Sound(k, pc, c) /\ t = k.cur /\ pc[t] = l /\ pc[t] \notin c.locked
  BY BoxCallsOK, CallerOK DEF WakeInv, At
<1>2. pc' = [pc EXCEPT ![t] = n] /\ Suspended(k', k, w, t) /\ n \in c.labels
  <2>1. "EINTR" \in Error /\ Flag \in {"FIFO", "PRIO"} /\ n \in Label
    BY MailboxAssumption, BoxCallsOK DEF Error, Label
  <2> QED BY <2>1, BoxCallsOK DEF WaitOn, Goto, Suspended
<1> HIDE DEF c
<1>3. /\ Sound(k', pc', c)
      /\ \A v \in WaitList : v # w /\ pc[t] \notin c.lists[v]
                               => Calm(k', pc', k, pc, v, c.lists[v])
  BY <1>1, <1>2, SoundSuspends DEF c
<1> QED
  BY <1>1, <1>3 DEF c

LEMMA WaitForRoomWakes ==
  ASSUME WakeInv, RingInv, NEW t, NEW l \in {"run", "send"}, At(t, l), t # Idle,
         NEW v, NEW finite \in BOOLEAN, WaitForRoom(t, v, finite)
  PROVE  WakeInv'
<1>1. /\ "receivers" \in WaitList /\ "senders" \in WaitList
      /\ IpcInv(k) /\ box' = box /\ box.entry \in Int /\ box.entry <= box.entry
      /\ Size - box.entry = 0 /\ 0 <= 0 /\ 0 \in Int
  BY BoxCallsOK, EntryNat DEF WakeInv, Sound, WaitForRoom
<1>2. /\ Sound(k', pc', BoxCalls) /\ Calm(k', pc', k, pc, "receivers", Receiving)
  <2>1. /\ l \in Label /\ l \notin BoxCalls.out /\ l \notin Receiving
        /\ "sending" \in BoxCalls.lists["senders"] \intersect BoxCalls.out
        /\ WaitOn(t, "senders", finite, "sending")
        /\ \A w \in WaitList : w # "senders" => l \notin BoxCalls.lists[w]
    BY BoxCallsOK DEF Label, Receiving, Sending, WaitForRoom
  <2> QED BY <1>1, <2>1, WaitOnSound, BoxCallsOK
<1>3. Enough(k', pc', "senders", Sending, 0)
  BY <1>1, EnoughNone
<1>4. Enough(k', pc', "receivers", Receiving, box.entry)
  BY <1>1, <1>2, EnoughKept DEF WakeInv, Sound, Calm
<1> QED
  BY <1>1, <1>2, <1>3, <1>4, WakeInvNext

LEMMA WaitForMailWakes ==
  ASSUME WakeInv, RingInv, NEW t, NEW l \in {"run", "receive"}, At(t, l), t # Idle,
         NEW finite \in BOOLEAN, WaitForMail(t, finite)
  PROVE  WakeInv'
<1>1. /\ "receivers" \in WaitList /\ "senders" \in WaitList
      /\ IpcInv(k) /\ box' = box /\ box.entry = 0 /\ 0 <= 0 /\ 0 \in Int
      /\ Size - box.entry \in Int /\ Size - box.entry <= Size - box.entry
  BY BoxCallsOK, EntryNat DEF WakeInv, Sound, WaitForMail
<1>2. /\ Sound(k', pc', BoxCalls) /\ Calm(k', pc', k, pc, "senders", Sending)
  <2>1. /\ l \in Label /\ l \notin BoxCalls.out /\ l \notin Sending
        /\ "receiving" \in BoxCalls.lists["receivers"] \intersect BoxCalls.out
        /\ WaitOn(t, "receivers", finite, "receiving")
        /\ \A w \in WaitList : w # "receivers" => l \notin BoxCalls.lists[w]
    BY BoxCallsOK DEF Label, Receiving, Sending, WaitForMail
  <2> QED BY <1>1, <2>1, WaitOnSound, BoxCallsOK
<1>3. Enough(k', pc', "receivers", Receiving, 0)
  BY <1>1, EnoughNone
<1>4. Enough(k', pc', "senders", Sending, Size - box.entry)
  BY <1>1, <1>2, EnoughKept DEF WakeInv, Sound, Calm
<1> QED
  BY <1>1, <1>2, <1>3, <1>4, WakeInvNext

\* A call that fails, for a reason other than the box.
LEMMA FailsWakes ==
  ASSUME WakeInv, RingInv, NEW t, NEW l \in {"send", "receive"}, Fails(t, l)
  PROVE  WakeInv'
<1>1. /\ At(t, l) /\ k.err[t] # "EOK" /\ k' = k /\ box' = box
      /\ pc' = [pc EXCEPT ![t] = "run"]
  BY DEF Fails, Goto
<1>2. /\ t = k.cur /\ t # Idle /\ pc[t] = l
      /\ pc[t] \notin BoxCalls.out /\ pc[t] \notin BoxCalls.locked
  BY <1>1, CallerOK, BoxCallsOK DEF Label, At
<1>3. /\ Sound(k, pc', BoxCalls)
      /\ \A w \in WaitList : Calm(k, pc', k, pc, w, BoxCalls.lists[w])
  BY <1>1, <1>2, SoundFails, BoxCallsOK DEF WakeInv
<1> QED
  BY <1>1, <1>3, BoxCallsOK, WakeKept

\* A call whose time is up, while the box has nothing for it.
LEMMA GivesUpWakes ==
  ASSUME WakeInv, RingInv, NEW t, NEW e \in Error, GivesUp(t, e),
         \/ At(t, "send") /\ box.entry = Size
         \/ At(t, "receive") /\ box.entry = 0
  PROVE  WakeInv'
<1> DEFINE c == BoxCalls
<1>1. /\ GivenError(k', k, t, e) /\ box' = box /\ pc' = [pc EXCEPT ![t] = "run"]
  BY DEF GivesUp, Goto, GivenError
<1>2. /\ t = k.cur /\ t # Idle
      /\ pc[t] \notin c.out /\ pc[t] \notin c.locked
      /\ "run" \in c.labels /\ "run" \notin c.locked
      /\ "run" \notin Receiving /\ "run" \notin Sending
      /\ CallsOK(c) /\ Sound(k, pc, c)
  BY CallerOK, BoxCallsOK DEF Label, At, Receiving, Sending, WakeInv
<1> HIDE DEF c
<1>3. /\ Sound(k', pc', c)
      /\ \A w \in WaitList : "run" \notin c.lists[w] /\ pc[t] \notin c.lists[w]
                               => Calm(k', pc', k, pc, w, c.lists[w])
  BY <1>1, <1>2, SoundMoves
<1>4. /\ "receivers" \in WaitList /\ "senders" \in WaitList /\ Sound(k', pc', BoxCalls)
      /\ pc[t] \notin Receiving => Calm(k', pc', k, pc, "receivers", Receiving)
      /\ pc[t] \notin Sending => Calm(k', pc', k, pc, "senders", Sending)
  BY <1>2, <1>3, BoxCallsOK DEF c
<1>5. /\ IpcInv(k) /\ IpcInv(k') /\ 0 \in Int /\ 0 <= 0 /\ Size \in Int /\ Size <= Size
      /\ Size - Size = 0 /\ Size - 0 = Size
  BY <1>4, SizeNat DEF WakeInv, Sound
<1>6. CASE At(t, "send") /\ box.entry = Size
  <2>1. Enough(k', pc', "senders", Sending, 0)
    BY <1>5, EnoughNone
  <2>2. Calm(k', pc', k, pc, "receivers", Receiving)
    BY <1>4, <1>6 DEF At, Receiving
  <2>3. Enough(k, pc, "receivers", Receiving, Size)
    BY <1>6 DEF WakeInv
  <2>4. Enough(k', pc', "receivers", Receiving, Size)
    BY <1>4, <1>5, <2>2, <2>3, EnoughKept DEF Calm
  <2> QED BY <1>1, <1>4, <1>5, <1>6, <2>1, <2>4, WakeInvNext
<1>7. CASE At(t, "receive") /\ box.entry = 0
  <2>1. Enough(k', pc', "receivers", Receiving, 0)
    BY <1>5, EnoughNone
  <2>2. Calm(k', pc', k, pc, "senders", Sending)
    BY <1>4, <1>7 DEF At, Sending
  <2>3. Enough(k, pc, "senders", Sending, Size)
    BY <1>5, <1>7 DEF WakeInv
  <2>4. Enough(k', pc', "senders", Sending, Size)
    BY <1>4, <1>5, <2>2, <2>3, EnoughKept DEF Calm
  <2> QED BY <1>1, <1>4, <1>5, <1>7, <2>1, <2>4, WakeInvNext
<1> QED
  BY <1>6, <1>7

\* rt_schedule, in a call or at its end.
LEMMA SchedulesWakes ==
  ASSUME WakeInv, RingInv, NEW t, SendSchedule(t) \/ ReceiveSchedule(t) \/ Reschedule(t)
  PROVE  WakeInv'
<1>1. PICK p \in Label, l \in Label :
        /\ ScheduleThen(t, p, l) /\ box' = box
        /\ <<p, l>> \in {<<"sending", "send">>, <<"receiving", "receive">>,
                         <<"resched", "run">>}
  BY DEF SendSchedule, ReceiveSchedule, Reschedule, Label
<1>2. /\ At(t, p) /\ t = k.cur /\ pc[t] = p /\ p \in BoxCalls.out
      /\ l \in BoxCalls.labels \ BoxCalls.locked
      /\ pc' = [pc EXCEPT ![t] = l]
      /\ \A w \in WaitList : pc[t] \in BoxCalls.lists[w] <=> l \in BoxCalls.lists[w]
  BY <1>1, BoxCallsOK, CallerOK DEF ScheduleThen, At, Goto, Receiving, Sending, Label
<1>3. Rescheduled(k', k)
  BY <1>1, Reschedules DEF ScheduleThen, WakeInv, Sound
<1>4. /\ Sound(k', pc', BoxCalls)
      /\ \A w \in WaitList : Calm(k', pc', k, pc, w, BoxCalls.lists[w])
  BY <1>2, <1>3, SoundGoesOn, BoxCallsOK DEF WakeInv
<1> QED
  BY <1>1, <1>4, BoxCallsOK, WakeKept

\* Sleeping, the clock, and the timer of a thread.
LEMMA ElsewhereWakes ==
  ASSUME WakeInv, RingInv, Tick \/ \E t \in Thread : Sleep(t) \/ Timeout(t)
  PROVE  WakeInv'
<1>1. box' = box
  BY DEF Tick, Sleep, Timeout
<1>2. CallsOK(BoxCalls) /\ Sound(k, pc, BoxCalls)
  BY BoxCallsOK DEF WakeInv
<1>3. CASE Tick
  <2>1. k' = rt_schedule([k EXCEPT !.yield = @ \union {k.cur}]) /\ pc' = pc
    BY <1>3 DEF Tick, SliceEnd
  <2>2. /\ Sound(k', pc, BoxCalls)
        /\ \A w \in WaitList : Calm(k', pc, k, pc, w, BoxCalls.lists[w])
    BY <1>2, <2>1, SoundSlice
  <2> QED BY <1>1, <2>1, <2>2, BoxCallsOK, WakeKept
<1>4. ASSUME NEW t \in Thread, Timeout(t) PROVE WakeInv'
  <2>1. t \in k.armed /\ k' = _thread_timeout(k, t) /\ pc' = pc
    BY <1>4 DEF Timeout, TimerExpires
  <2>2. /\ Sound(k', pc, BoxCalls)
        /\ \A w \in WaitList : Calm(k', pc, k, pc, w, BoxCalls.lists[w])
    BY <1>2, <2>1, SoundTimeout
  <2> QED BY <1>1, <2>1, <2>2, BoxCallsOK, WakeKept
<1>5. ASSUME NEW t \in Thread, Sleep(t) PROVE WakeInv'
  <2>1. /\ At(t, "run") /\ t # Idle /\ Sleeps(k', k, t, "EINTR") /\ "EINTR" \in Error
        /\ pc' = [pc EXCEPT ![t] = "resched"]
    BY <1>5 DEF Sleep, SleepStart, Sleeps, Error, Goto
  <2>2. t = k.cur /\ pc[t] = "run"
    BY <2>1 DEF At
  <2>3. /\ Sound(k', pc', BoxCalls)
        /\ \A w \in WaitList : Calm(k', pc', k, pc, w, BoxCalls.lists[w])
    BY <1>2, <2>1, <2>2, SoundSleep
  <2> QED BY <1>1, <2>3, BoxCallsOK, WakeKept
<1> QED
  BY <1>3, <1>4, <1>5

\* The interrupt handler stores a mail between any two steps of the threads.
LEMMA IsrWakes ==
  ASSUME WakeInv, RingInv, NEW v, IsrSend(v)
  PROVE  WakeInv'
<1>1. /\ box'.entry = box.entry + 1 /\ pc' = pc
      /\ k' = IF k.wait["receivers"] = <<>> THEN k
              ELSE rt_schedule(ResumeFirst(k, "receivers"))
  BY EntryNat DEF IsrSend, Stored, RingInv, BoxState
<1>2. /\ "receivers" \in WaitList /\ "senders" \in WaitList
      /\ IpcInv(k) /\ box.entry \in Int /\ Size - box.entry \in Int
      /\ box'.entry \in Int /\ Size - box'.entry \in Int
      /\ box'.entry <= box.entry + 1 /\ Size - box'.entry <= Size - box.entry
      /\ CallsOK(BoxCalls)
  BY <1>1, BoxCallsOK, EntryNat DEF WakeInv, Sound
<1>3. CASE k.wait["receivers"] = <<>>
  <2>1. k' = k
    BY <1>1, <1>3
  <2>2. Enough(k', pc', "receivers", Receiving, box'.entry)
    BY <1>3, <2>1 DEF Enough
  <2>3. Enough(k', pc', "senders", Sending, Size - box'.entry)
    BY <1>1, <1>2, <2>1, AlertFinite DEF Enough, WakeInv
  <2> QED BY <1>1, <2>1, <2>2, <2>3, WakeInvNext DEF WakeInv
<1>4. CASE k.wait["receivers"] # <<>>
  <2> DEFINE u == ResumeFirst(k, "receivers")
  <2>1. PICK h \in Thread : On(k, "receivers", h) /\ Woke(u, k, h, "EOK")
    BY <1>2, <1>4, ResumeFirstWakes
  <2>2. k' = rt_schedule(u)
    BY <1>1, <1>4
  <2> HIDE DEF u
  <2>3. /\ Sound(u, pc, BoxCalls) /\ Joins(u, pc, k, pc, "receivers", Receiving, h)
        /\ Calm(u, pc, k, pc, "senders", Sending)
    <3>1. "EOK" \in Error
      BY DEF Error
    <3> QED BY <1>2, <2>1, <3>1, SoundWakes, BoxCallsOK DEF WakeInv
  <2>4. Rescheduled(k', u)
    BY <2>2, <2>3, Reschedules DEF Sound
  <2>5. /\ Sound(k', pc, BoxCalls) /\ Calm(k', pc, u, pc, "receivers", Receiving)
        /\ Calm(k', pc, u, pc, "senders", Sending)
    BY <1>2, <2>3, <2>4, SoundSchedules, BoxCallsOK
  <2>6. /\ Joins(k', pc', k, pc, "receivers", Receiving, h)
        /\ Calm(k', pc', k, pc, "senders", Sending)
    BY <1>1, <2>3, <2>5 DEF Joins, Calm, Fewer, AsMany, Stay
  <2>7. IpcInv(k')
    BY <2>5 DEF Sound
  <2>8. Enough(k', pc', "receivers", Receiving, box'.entry)
    BY <1>2, <2>6, <2>7, EnoughMore DEF WakeInv
  <2>9. Enough(k', pc', "senders", Sending, Size - box'.entry)
    BY <1>2, <2>6, <2>7, EnoughKept DEF WakeInv, Calm
  <2> QED BY <1>1, <2>5, <2>8, <2>9, WakeInvNext
<1> QED
  BY <1>3, <1>4

\* Nobody waits after a reset.
LEMMA ResetWakes ==
  ASSUME WakeInv, RingInv, NEW t, t # Idle, Reset(t)
  PROVE  WakeInv'
<1> DEFINE u == ResumeAll(k, "receivers")
<1>1. /\ At(t, "run") /\ k' = ResumeAll(u, "senders") /\ pc' = [pc EXCEPT ![t] = "resched"]
  BY DEF Reset, Goto
<1>2. Sound(k, pc', BoxCalls)
  <2>1. /\ t = k.cur /\ pc[t] = "run" /\ pc[t] \notin BoxCalls.out
        /\ "resched" \in BoxCalls.labels
        /\ (pc[t] \in BoxCalls.locked <=> "resched" \in BoxCalls.locked)
    BY <1>1, BoxCallsOK DEF At, Label
  <2> QED BY <1>1, <2>1, SoundMoves, BoxCallsOK DEF WakeInv
<1>3. "receivers" \in WaitList /\ "senders" \in WaitList /\ CallsOK(BoxCalls)
  BY BoxCallsOK
<1>4. Sound(u, pc', BoxCalls) /\ u.wait["receivers"] = <<>>
  BY <1>2, <1>3, SoundWakesAll
<1> HIDE DEF u
<1>5. /\ Sound(k', pc', BoxCalls) /\ k'.wait["senders"] = <<>>
      /\ k'.wait["receivers"] = u.wait["receivers"]
  BY <1>1, <1>3, <1>4, SoundWakesAll
<1> QED
  BY <1>4, <1>5, WakeInvNext DEF Enough

\* Every step keeps enough threads on their way.
LEMMA NextWakes ==
  ASSUME BoxInv, WakeInv, [Next]_vars
  PROVE  WakeInv'
<1>1. RingInv /\ box \in BoxState /\ box.entry \in Int
  BY EntryNat DEF BoxInv, RingInv
<1>2. Sender \union Receiver \union Resetter \subseteq Thread \ {Idle}
  BY MailboxAssumption
<1>3. ASSUME NEW t, NEW v, NEW l \in {"run", "send"}, At(t, l), t # Idle, Store(t, v)
      PROVE  WakeInv'
  <2>1. box'.entry = box.entry + 1 /\ WakeOne(t, "receivers")
    BY <1>1, <1>3 DEF Store, Stored, BoxState
  <2> QED BY <1>1, <1>3, <2>1, StoreWakes
<1>4. ASSUME NEW t, NEW l \in {"run", "receive"}, At(t, l), t # Idle, Fetch(t)
      PROVE  WakeInv'
  <2>1. box'.entry = box.entry - 1 /\ WakeOne(t, "senders")
    BY <1>1, <1>4 DEF Fetch, Fetched, BoxState
  <2> QED BY <1>1, <1>4, <2>1, FetchWakes
<1>5. ASSUME NEW t \in Thread, NEW v \in Value, Send(t, v) PROVE WakeInv'
  <2>1. At(t, "run") /\ t # Idle
    BY <1>2, <1>5 DEF Send
  <2>2. CASE Store(t, v)
    BY <1>3, <2>1, <2>2
  <2>3. CASE \E finite \in BOOLEAN : WaitForRoom(t, v, finite)
    BY <1>1, <2>1, <2>3, WaitForRoomWakes
  <2> QED BY <1>5, <2>2, <2>3 DEF Send
<1>6. ASSUME NEW t \in Thread, NEW v \in Value, Urgent(t, v) PROVE WakeInv'
  <2>1. At(t, "run") /\ t # Idle /\ box'.entry = box.entry + 1 /\ WakeOne(t, "receivers")
    BY <1>1, <1>2, <1>6 DEF Urgent, StoredFirst, BoxState
  <2> QED BY <1>1, <2>1, StoreWakes
<1>7. ASSUME NEW t \in Thread, Receive(t) PROVE WakeInv'
  <2>1. At(t, "run") /\ t # Idle
    BY <1>2, <1>7 DEF Receive
  <2>2. CASE Fetch(t)
    BY <1>4, <2>1, <2>2
  <2>3. CASE \E finite \in BOOLEAN : WaitForMail(t, finite)
    BY <1>1, <2>1, <2>3, WaitForMailWakes
  <2> QED BY <1>7, <2>2, <2>3 DEF Receive
<1>8. ASSUME NEW t \in Thread, Reset(t) PROVE WakeInv'
  BY <1>1, <1>2, <1>8, ResetWakes DEF Reset
<1>9. ASSUME NEW t \in Thread, SendAgain(t) PROVE WakeInv'
  <2>1. At(t, "send") /\ t # Idle /\ (t \in timed) \in BOOLEAN /\ "EINTR" \in Error
    BY <1>9, CallerOK DEF SendAgain, Label, Error
  <2>2. CASE Store(t, value[t])
    BY <1>3, <2>1, <2>2
  <2>3. CASE WaitForRoom(t, value[t], t \in timed)
    BY <1>1, <2>1, <2>3, WaitForRoomWakes
  <2>4. CASE box.entry = Size /\ GivesUp(t, "EINTR")
    BY <1>1, <2>1, <2>4, GivesUpWakes
  <2> QED BY <1>9, <2>2, <2>3, <2>4 DEF SendAgain
<1>10. ASSUME NEW t \in Thread, ReceiveAgain(t) PROVE WakeInv'
  <2>1. At(t, "receive") /\ t # Idle /\ (t \in timed) \in BOOLEAN /\ "ETIMEOUT" \in Error
    BY <1>10, CallerOK DEF ReceiveAgain, Label, Error
  <2>2. CASE Fetch(t)
    BY <1>4, <2>1, <2>2
  <2>3. CASE WaitForMail(t, t \in timed)
    BY <1>1, <2>1, <2>3, WaitForMailWakes
  <2>4. CASE box.entry = 0 /\ GivesUp(t, "ETIMEOUT")
    BY <1>1, <2>1, <2>4, GivesUpWakes
  <2> QED BY <1>10, <2>2, <2>3, <2>4 DEF ReceiveAgain
<1>11. ASSUME NEW t \in Thread, Continue(t) PROVE WakeInv'
  BY <1>1, <1>9, <1>10, <1>11, SchedulesWakes, FailsWakes DEF Continue
<1>12. ASSUME UNCHANGED vars PROVE WakeInv'
  BY <1>12, WakeInvNext DEF vars, WakeInv
<1>13. CASE Next
  BY <1>1, <1>5, <1>6, <1>7, <1>8, <1>11, <1>13, ElsewhereWakes, IsrWakes DEF Next
<1> QED
  BY <1>12, <1>13

\* At the start nobody waits.
LEMMA InitWakes ==
  ASSUME Init
  PROVE  WakeInv
<1>1. k = Started(Main, InitPrio) /\ pc = [t \in Thread |-> "run"]
  BY DEF Init, StartedKernel
<1>2. Sound(k, pc, BoxCalls)
  BY <1>1, MainAssumption, InitPrioAssumption, SoundStarts, BoxCallsOK
<1>3. k.wait["receivers"] = <<>> /\ k.wait["senders"] = <<>>
  BY <1>1, BoxCallsOK DEF Started
<1> QED
  BY <1>2, <1>3 DEF WakeInv, Enough

\* Who is on the way has been woken and has not looked.
LEMMA AlertWoken ==
  ASSUME NEW w, NEW ls, NEW n \in Int, Enough(k, pc, w, ls, n), k.wait[w] # <<>>
  PROVE  Cardinality(Woken(ls)) >= n
<1> DEFINE A == Alert(k, pc, w, ls)
           W == Woken(ls)
<1>1. A \subseteq W /\ W \subseteq Thread
  BY DEF Alert, Woken
<1>2. IsFiniteSet(W)
  BY <1>1, ThreadAssumption, FS_Subset
<1>3. IsFiniteSet(A) /\ Cardinality(A) <= Cardinality(W)
  BY <1>1, <1>2, FS_Subset
<1>4. Cardinality(A) \in Nat /\ Cardinality(W) \in Nat /\ Cardinality(A) >= n
  BY <1>2, <1>3, FS_CardinalityType DEF Enough
<1> HIDE DEF A, W
<1>5. Cardinality(W) >= n
  BY <1>3, <1>4
<1> QED
  BY <1>5 DEF W

\* What the calls keep while they interleave: the suspend lists of the mailbox
\* hold the threads that wait in its calls, and threads enough are woken.
THEOREM MailInvHolds == Spec => []MailInv
<1>1. Init => MailInv
  BY InitStep, InitWakes DEF MailInv
<1>2. MailInv /\ [Next]_vars => MailInv'
  BY NextStep, NextWakes DEF MailInv, StepGood
<1> QED
  BY <1>1, <1>2, PTL DEF Spec

\* No mail and no free place is left lying while a thread waits for it: in
\* ipc.c a woken thread owns nothing, others may be faster, and an interrupt
\* handler sends and timers expire in between; still for every mail one woken
\* receiver, and for every free place one woken sender, has yet to look.
THEOREM NoLostWakeupHolds == Spec => []NoLostWakeup
<1>1. MailInv => NoLostWakeup
  <2> SUFFICES ASSUME MailInv PROVE NoLostWakeup
    OBVIOUS
  <2>1. box.entry \in Int /\ Size - box.entry \in Int /\ WakeInv
    BY EntryNat DEF MailInv, BoxInv
  <2>2. k.wait["receivers"] # <<>> => Cardinality(Woken(Receiving)) >= box.entry
    BY <2>1, AlertWoken DEF WakeInv
  <2>3. k.wait["senders"] # <<>> => Cardinality(Woken(Sending)) >= Size - box.entry
    BY <2>1, AlertWoken DEF WakeInv
  <2> QED BY <2>2, <2>3 DEF NoLostWakeup, Receiving, Sending
<1> QED
  BY <1>1, MailInvHolds, PTL

\* The lists of the kernel are as they should be under all of this.
THEOREM MailListsHold == Spec => []ListsOK(k)
<1>1. MailInv => ListsOK(k)
  BY IpcInvLists DEF MailInv, WakeInv, Sound
<1> QED
  BY <1>1, MailInvHolds, PTL
=============================================================================
