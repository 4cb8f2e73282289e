------------------------------- MODULE Event -------------------------------
(***************************************************************************)
(* An event object of ipc.c: a set of event bits, and threads that wait    *)
(* for all (AND) or for one (OR) of the bits they name, and that may clear *)
(* what they received (CLEAR).  One send wakes every thread it satisfies;  *)
(* the bits they clear are cleared after the last of them was looked at.   *)
(***************************************************************************)
EXTENDS Ipc

CONSTANTS
  Bit,        \* the event bits in use
  EventFlag,  \* RT_IPC_FLAG_FIFO or RT_IPC_FLAG_PRIO
  Listener,   \* threads that receive
  Asks,       \* the bits and the option of the calls each of them makes
  Notifier,   \* threads that send
  EventReset  \* threads that call rt_event_control

\* RT_EVENT_FLAG_AND or RT_EVENT_FLAG_OR, with or without RT_EVENT_FLAG_CLEAR.
\* rt_event_recv asserts that one of the two is there.
Option == [all : BOOLEAN, clear : BOOLEAN]

ASSUME EventAssumption ==
  /\ "event" \in WaitList
  /\ EventFlag \in {"FIFO", "PRIO"}
  /\ Asks \in [Listener -> SUBSET [bits : (SUBSET Bit) \ {{}}, option : Option]]
  /\ Listener \union Notifier \union EventReset \subseteq Thread \ {Idle}

VARIABLES
  set,        \* set of the event object
  eset,       \* event_set of each thread
  einfo       \* event_info of each thread

eventVars == <<set, eset, einfo>>

EventLabel == {"recving", "recv"}

EventType ==
  /\ set \subseteq Bit
  /\ eset \in [Listener -> SUBSET Bit]
  /\ einfo \in [Listener -> Option]

EventInit ==
  /\ set = {}
  /\ eset = [t \in Listener |-> {}]
  /\ einfo = [t \in Listener |-> [all |-> FALSE, clear |-> FALSE]]

-----------------------------------------------------------------------------
\* The bits s satisfy a receiver that names the bits `asked'.
Satisfies(s, asked, option) ==
  IF option.all THEN asked \subseteq s ELSE asked \intersect s # {}

\* _rt_event_recv: the bits are there, or the thread waits.
Recv(t, asked, option) ==
  /\ At(t, "run")
  /\ einfo' = [einfo EXCEPT ![t] = option]
  /\ \/ /\ Satisfies(set, asked, option)
        /\ eset' = [eset EXCEPT ![t] = set \intersect asked]
        /\ set' = IF option.clear THEN set \ asked ELSE set
        /\ k' = [k EXCEPT !.err[t] = "EOK"]
        /\ UNCHANGED pc
     \/ /\ ~Satisfies(set, asked, option)
        /\ eset' = [eset EXCEPT ![t] = asked]
        /\ \E finite \in BOOLEAN :
             k' = SuspendTimed([k EXCEPT !.err[t] = "EINTR"], "event", EventFlag, t, finite)
        /\ Goto(t, "recving")
        /\ UNCHANGED set

RecvSchedule(t) == ScheduleThen(t, "recving", "recv") /\ UNCHANGED eventVars

\* Back from rt_schedule, with event_set or with an error.
RecvReturn(t) == At(t, "recv") /\ Goto(t, "run") /\ UNCHANGED <<k, eventVars>>

\* Threads on the list that the bits s satisfy.
Satisfied(s) == {t \in ToSet(k.wait["event"]) : Satisfies(s, eset[t], einfo[t])}

\* The bits that a thread receives when the bits s are set.
Received(t, s) == IF einfo[t].all THEN eset[t] ELSE eset[t] \intersect s

\* Mutant of Sent: the walk ends with the first thread that is woken.
SentToFirst(s) ==
  LET bits  == set \union s
      ready == SelectSeq(k.wait["event"], LAMBDA t : t \in Satisfied(bits))
      woken == IF ready = <<>> THEN {} ELSE {Head(ready)}
  IN  [ k    |-> ResumeChosen(k, "event", woken),
        eset |-> [t \in Listener |-> IF t \in woken THEN Received(t, bits) ELSE eset[t]],
        set  |-> bits \ UNION {Received(t, bits) : t \in {u \in woken : einfo[u].clear}},
        any  |-> woken # {} ]

\* Mutant of Sent: all bits a woken thread named are cleared for all of them.
SentClearsAll(s) ==
  LET bits  == set \union s
      woken == Satisfied(bits)
  IN  [ k    |-> ResumeChosen(k, "event", woken),
        eset |-> [t \in Listener |-> IF t \in woken THEN Received(t, bits) ELSE eset[t]],
        set  |-> bits \ UNION {Received(t, bits) : t \in woken},
        any  |-> woken # {} ]

\* What rt_event_send does with interrupts disabled: it walks the waiting
\* threads, wakes each one the bits satisfy, and then clears.
Sent(s) ==
  LET bits  == set \union s
      woken == Satisfied(bits)
  IN  [ k    |-> ResumeChosen(k, "event", woken),
        eset |-> [t \in Listener |-> IF t \in woken THEN Received(t, bits) ELSE eset[t]],
        set  |-> bits \ UNION {Received(t, bits) : t \in {u \in woken : einfo[u].clear}},
        any  |-> woken # {} ]

Notify(t, s) ==
  /\ At(t, "run") /\ t \in Notifier /\ s # {}
  /\ LET n == Sent(s)
     IN  /\ k' = n.k /\ eset' = n.eset /\ set' = n.set
         /\ IF n.any THEN Goto(t, "resched") ELSE UNCHANGED pc
  /\ UNCHANGED einfo

\* An interrupt handler sends; it leaves through rt_schedule.
IsrNotify(s) ==
  /\ s # {}
  /\ LET n == Sent(s)
     IN  /\ k' = IF n.any THEN rt_schedule(n.k) ELSE n.k
         /\ eset' = n.eset /\ set' = n.set
  /\ UNCHANGED <<pc, einfo>>

\* RT_IPC_CMD_RESET: the waiting threads return with an error.
ResetEvent(t) ==
  /\ At(t, "run") /\ t \in EventReset
  /\ k' = ResumeAll(k, "event")
  /\ set' = {}
  /\ Goto(t, "resched")
  /\ UNCHANGED <<eset, einfo>>

EventNext ==
  \/ \E t \in Listener : \E c \in Asks[t] : Recv(t, c.bits, c.option)
  \/ \E t \in Thread : RecvSchedule(t) \/ RecvReturn(t) \/ ResetEvent(t)
  \/ \E t \in Thread, s \in SUBSET Bit : Notify(t, s)
  \/ \E s \in SUBSET Bit : IsrNotify(s)

-----------------------------------------------------------------------------
(* Properties *)

\* No thread is left waiting for bits that are set: neither by a send that
\* wakes several threads, nor by the bits that another one clears or leaves.
NoMissedEvent ==
  \A i \in 1..Len(k.wait["event"]) :
    LET t == k.wait["event"][i] IN ~Satisfies(set, eset[t], einfo[t])

\* A bit that was sent stays set until a thread that asked for CLEAR has been
\* given it, or until a reset clears all bits.
BitsKept ==
  [][ \/ \E t \in Thread : ResetEvent(t)
      \/ \A b \in set \ set' : \E t \in Listener :
           /\ einfo'[t].clear /\ b \in eset'[t] /\ k'.err[t] = "EOK"
           /\ \/ At(t, "run")
              \/ t \in ToSet(k.wait["event"]) \ ToSet(k'.wait["event"])
    ]_<<k, pc, eventVars>>
=============================================================================
