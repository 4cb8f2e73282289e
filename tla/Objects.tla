------------------------------ MODULE Objects ------------------------------
(***************************************************************************)
(* IPC objects on one kernel: the same threads wait on all of them through *)
(* their one list node, one timer, one error field, and are preempted      *)
(* between the halves of any call.  An application uses some of the        *)
(* objects: inUse says which ones, and never changes.                      *)
(***************************************************************************)
EXTENDS Semaphore, Event, MemPool, DataQueue, Serial

CONSTANTS
  Setups      \* the sets of objects that applications use together

\* A UART is there under the names of the ways it is used.  The first open decides
\* how it is read and how it is written.  The shell's semaphore, rx_sem, is its own:
\* where the shell runs no other call takes or releases sem.
ASSUME SetupsAssumption ==
  /\ Setups \subseteq SUBSET {"sem", "event", "pool", "data", "shell", "reader", "queuer", "writer"}
  /\ \A s \in Setups :
       /\ ~({"shell", "reader"} \subseteq s) /\ ~({"queuer", "writer"} \subseteq s)
       /\ ~({"shell", "sem"} \subseteq s)

VARIABLE
  inUse       \* the objects of this application

vars == <<k, pc, inUse, sem, eventVars, poolVars, dataVars, serialVars>>

Label == {"run", "resched"} \union SemLabel \union EventLabel \union PoolLabel
           \union DataLabel \union RxLabel \union TxLabel

TypeOK ==
  /\ k \in KernelState /\ pc \in [Thread -> Label] /\ inUse \in Setups
  /\ SemType /\ EventType /\ PoolType /\ DataType /\ SerialType

\* The shell's semaphore starts at 0; a port for writes that are queued was
\* opened just now.
Init ==
  /\ k = StartedKernel
  /\ pc = [t \in Thread |-> "run"]
  /\ inUse \in Setups
  /\ SemInit /\ EventInit /\ PoolInit /\ DataInit /\ SerialInit
  /\ "sem" \notin inUse => sem = 0
  /\ line.txe = ("queuer" \in inUse)

\* The end of a call that woke a thread, time spent elsewhere, the clock.
Common ==
  \/ \E t \in Thread : ScheduleThen(t, "resched", "run") \/ SleepStart(t) \/ TimerExpires(t)
  \/ SliceEnd

SerialNext ==
  \/ "shell"  \in inUse /\ ShellNext
  \/ "reader" \in inUse /\ ReaderNext
  \/ "queuer" \in inUse /\ QueuerNext
  \/ "writer" \in inUse /\ WriterNext

Next ==
  \/ "sem"   \in inUse /\ SemNext   /\ UNCHANGED <<inUse, eventVars, poolVars, dataVars, serialVars>>
  \/ "event" \in inUse /\ EventNext /\ UNCHANGED <<inUse, sem, poolVars, dataVars, serialVars>>
  \/ "pool"  \in inUse /\ PoolNext  /\ UNCHANGED <<inUse, sem, eventVars, dataVars, serialVars>>
  \/ "data"  \in inUse /\ DataNext  /\ UNCHANGED <<inUse, sem, eventVars, poolVars, serialVars>>
  \/ SerialNext /\ UNCHANGED <<inUse, eventVars, poolVars, dataVars>>
  \/ Common /\ UNCHANGED <<inUse, sem, eventVars, poolVars, dataVars, serialVars>>

Spec == Init /\ [][Next]_vars

-----------------------------------------------------------------------------
(* Properties *)

\* A handler sends what is in the ring, or a thread is about to start it.
Sending == line.txe \/ line.tc \/ \E t \in Thread : pc[t] \in {"start", "transmit"}

\* Tokens are neither lost nor used twice, whatever else the threads wait for.
TokensCounted == Counter!Spec

\* No thread is left on the list of a semaphore that has a token, or of an event
\* object whose bits it asked for.
NoIdleWait == NoIdleToken /\ NoMissedEvent

\* Nobody waits for what has come, or for a handler that will not come: the
\* shell waits only when there is no byte to read; a reader that was completed
\* finds what it asked for, and one that waits has the next byte looked at;
\* bytes in the ring are being sent or about to be, a writer waits only while they
\* are, and a port is left active only by a writer in its call or by what it
\* sends: nobody else would start it again.
BytesFlow ==
  /\ "shell" \in inUse /\ Shell \in ToSet(k.wait["sem"]) => DataLen(rx.ring) = 0
  /\ pc[Reader] = "given" => DataLen(rx.ring) >= reading.asked
  /\ Reader \in ToSet(k.wait["rx_cpt"]) => rx.index = reading.asked
  /\ DataLen(tx.ring) > 0 => Sending
  /\ Writer \in ToSet(k.wait["tx_cpt"]) => Sending
  /\ tx.active => Sending \/ pc[Writer] \in TxLabel

\* A thread on a suspend list is suspended in a call on that object and on the list of
\* no other one: no call, timeout or reset leaves it behind where a later
\* wake-up of that object would reach it.
WaitsWhereItSays ==
  \A t \in Thread, w \in WaitList :
    t \in ToSet(k.wait[w]) =>
      /\ k.stat[t] = "suspend"
      /\ pc[t] \in CASE w = "sem"   -> SemLabel
                     [] w = "event" -> EventLabel
                     [] w = "pool"  -> PoolLabel
                     [] w \in {"pushers", "poppers"} -> DataLabel
                     [] w = "rx_cpt" -> RxLabel
                     [] w = "tx_cpt" -> TxLabel
      /\ \A x \in WaitList \ {w} : t \notin ToSet(k.wait[x])
=============================================================================
