------------------------------ MODULE Deferred ------------------------------
(***************************************************************************)
(* Deferred work and its completion, as a driver uses them: a client hands *)
(* work to the queue, the work function or an interrupt signals, a client  *)
(* waits.                                                                  *)
(***************************************************************************)
EXTENDS WorkQueue, Completion

\* The worker calls done from work functions only, and does not wait.
ASSUME DeferredAssumption ==
  /\ Waiter # Worker
  /\ \A d \in Doer : d[1] = Worker => d[2] = "work"

vars == <<k, pc, workVars, flag>>

Label == {"run", "resched"} \union WorkLabel \union CompletionLabel

TypeOK ==
  /\ k \in KernelState /\ pc \in [Thread -> Label]
  /\ WorkType /\ CompletionType

Init ==
  /\ k = StartedKernel
  /\ pc = [t \in Thread |-> "run"]
  /\ WorkInit /\ CompletionInit

\* Time a client spends elsewhere, timers of threads, the end of a time slice.
ClientSleeps(t) == t \in Client /\ SleepStart(t) /\ UNCHANGED <<workVars, flag>>

Timeout(t) == TimerExpires(t) /\ UNCHANGED <<workVars, flag>>

\* rt_assert_handler loops for ever.
Halted == halted /\ UNCHANGED vars

Running ==
  \/ WorkNext /\ UNCHANGED flag
  \/ CompletionNext /\ UNCHANGED workVars
  \/ \E t \in Thread : ClientSleeps(t) \/ Timeout(t)
  \/ SliceEnd /\ UNCHANGED <<workVars, flag>>

Next == (~halted /\ Running) \/ Halted

Spec == Init /\ [][Next]_vars

\* The worker goes on when it has the processor again and again, and work
\* functions return: SF_vars(WorkerGoes), with the action's guard written in
\* place of its ENABLED.  Clients leave the processor to others again and again.
WorkerGoes ==
  (WorkerStep \/ WorkContinue(Worker)) /\ UNCHANGED flag

Fairness ==
  /\ []<>(~halted /\ k.cur = Worker) => []<><<WorkerGoes>>_vars
  /\ \A t \in Client : []<>(k.cur # t)

FairSpec == Spec /\ Fairness
=============================================================================
