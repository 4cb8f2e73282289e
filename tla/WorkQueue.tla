----------------------------- MODULE WorkQueue -----------------------------
(***************************************************************************)
(* A work queue of components/drivers/ipc/workqueue.c: a worker thread, a  *)
(* list of work to do, a list of work whose timer runs, the work in        *)
(* progress.  Threads, the functions of the work and interrupt handlers    *)
(* submit and cancel while the worker and the timers move the same work.   *)
(*                                                                         *)
(* Without RT_USING_TIMER_SOFT the timers of delayed work expire in the    *)
(* clock interrupt.  A failed RT_ASSERT stops the system for ever.         *)
(***************************************************************************)
EXTENDS Ipc

CONSTANTS
  Worker,     \* work_thread
  Client,     \* threads that submit and cancel
  Work,       \* the work items
  None,       \* no work
  MaxCalls    \* bound: calls of clients, work functions and interrupt handlers

ASSUME WorkQueueAssumption ==
  /\ "sync" \in WaitList
  /\ Worker \in Thread \ {Idle}
  /\ Client \subseteq Thread \ {Idle, Worker}
  /\ None \notin Work
  /\ MaxCalls \in Nat

VARIABLES
  wq,         \* the queue and its work
  arg,        \* the work a call in progress is about
  calls,      \* calls left
  halted      \* an assertion has failed

workVars == <<wq, arg, calls, halted>>

WorkLabel ==
  {"work", "loop", "ack", "arm", "cancel", "sync", "syncing", "synced",
   "purge", "purged"}

WorkType ==
  /\ wq \in [ list    : Seq(Work),                 \* work_list
              delayed : Seq(Work),                 \* delayed_list
              current : Work \union {None},        \* work_current
              bound   : SUBSET Work,               \* workqueue # RT_NULL
              timer   : [Work -> {"none", "stopped", "running"}] ]
              \* "none": RT_WORK_STATE_SUBMITTING is not set
  /\ arg \in [Client \union {Worker} -> Work \union {None}]
  /\ calls \in 0..MaxCalls
  /\ halted \in BOOLEAN

WorkInit ==
  /\ wq = [ list |-> <<>>, delayed |-> <<>>, current |-> None, bound |-> {},
            timer |-> [x \in Work |-> "none"] ]
  /\ arg = [t \in Client \union {Worker} |-> None]
  /\ calls = MaxCalls
  /\ halted = FALSE

-----------------------------------------------------------------------------
(* Helpers *)

Unlinked(x) == [wq EXCEPT !.list = RemoveFirst(@, x), !.delayed = RemoveFirst(@, x)]

\* Mutant of Wake: whatever the worker is suspended for.
WakeAlways(s) == rt_thread_resume(s, Worker)

\* Resume the worker when it waits for work, not when a work function blocks.
Wake(s) == IF wq.current = None THEN rt_thread_resume(s, Worker) ELSE s

WakesWorker == wq.current = None /\ k.stat[Worker] = "suspend"

\* The label of a thread's own code: a work function runs at "work".
Home(t) == IF t = Worker THEN "work" ELSE "run"

\* Thread t makes one of its calls.
Calls(t) ==
  /\ t \in Client \union {Worker} /\ At(t, Home(t))
  /\ calls > 0 /\ calls' = calls - 1
  /\ UNCHANGED halted

\* End of a call that may have made the worker ready.
WakeThenHome(t) ==
  /\ k' = Wake(k)
  /\ Goto(t, IF WakesWorker THEN "resched" ELSE Home(t))

-----------------------------------------------------------------------------
(* Submitting *)

Submitted(x) ==
  [Unlinked(x) EXCEPT !.list = Append(@, x), !.bound = @ \union {x}]

\* rt_workqueue_dowork, and rt_workqueue_submit_work with no delay
DoWork(t, x) ==
  /\ Calls(t)
  /\ wq' = Submitted(x)
  /\ WakeThenHome(t)
  /\ UNCHANGED arg

\* Mutant of SubmitDelayed: a timer that exists is stopped and not restarted.
SubmitDelayedOnce(t, x) ==
  /\ Calls(t)
  /\ wq' = [Unlinked(x) EXCEPT !.delayed = Append(@, x), !.bound = @ \union {x},
                               !.timer[x] = "stopped"]
  /\ IF wq.timer[x] = "none"
     THEN arg' = [arg EXCEPT ![t] = x] /\ Goto(t, "arm")
     ELSE UNCHANGED <<arg, pc>>
  /\ UNCHANGED k

\* rt_workqueue_submit_work with a delay: the timer is set up, or stopped when
\* it runs; it is started when interrupts are on again.
SubmitDelayed(t, x) ==
  /\ Calls(t)
  /\ wq' = [Unlinked(x) EXCEPT !.delayed = Append(@, x), !.bound = @ \union {x},
                               !.timer[x] = "stopped"]
  /\ arg' = [arg EXCEPT ![t] = x] /\ Goto(t, "arm")
  /\ UNCHANGED k

\* rt_timer_start asserts that the timer is one: a cancel in the window has
\* detached it.
Arm(t) ==
  /\ At(t, "arm")
  /\ IF wq.timer[arg[t]] = "none"
     THEN halted' = TRUE /\ UNCHANGED wq
     ELSE wq' = [wq EXCEPT !.timer[arg[t]] = "running"] /\ UNCHANGED halted
  /\ arg' = [arg EXCEPT ![t] = None] /\ Goto(t, Home(t))
  /\ UNCHANGED <<k, calls>>

\* Mutant of Hastened: the work is not taken off the list it is on.
HastenedTwice(x) == [wq EXCEPT !.list = Cons(x, @)]

Hastened(x) == [Unlinked(x) EXCEPT !.list = Cons(x, @)]

\* rt_workqueue_urgent_work
UrgentWork(t, x) ==
  /\ Calls(t)
  /\ wq' = Hastened(x)
  /\ WakeThenHome(t)
  /\ UNCHANGED arg

\* The same two calls from an interrupt handler.
IsrSubmit(x) ==
  /\ calls > 0 /\ calls' = calls - 1
  /\ wq' = Submitted(x) \/ wq' = Hastened(x)
  /\ k' = IF WakesWorker THEN rt_schedule(Wake(k)) ELSE k
  /\ UNCHANGED <<pc, arg, halted>>

\* Mutant of Expired: the work is moved, and the worker goes on waiting.
ExpiredQuietly(x) ==
  /\ wq.timer[x] = "running"
  /\ IF x \notin wq.bound
     THEN halted' = TRUE /\ UNCHANGED <<wq, k>>
     ELSE /\ wq' = [Unlinked(x) EXCEPT !.timer[x] = "none",
                      !.list = IF wq.current = x THEN @ ELSE Append(@, x)]
          /\ UNCHANGED <<halted, k>>
  /\ UNCHANGED <<pc, arg, calls>>

\* _delayed_work_timeout_handler, from the clock interrupt.  The queue must be
\* known: the worker forgets it when it takes the work.  Work in progress is
\* not queued again.
Expired(x) ==
  /\ wq.timer[x] = "running"
  /\ IF x \notin wq.bound
     THEN halted' = TRUE /\ UNCHANGED <<wq, k>>
     ELSE LET moved == RemoveFirst(wq.list, x)
          IN  /\ wq' = [Unlinked(x) EXCEPT !.timer[x] = "none",
                          !.list = IF wq.current = x THEN moved ELSE Append(moved, x)]
              /\ k' = IF WakesWorker THEN rt_schedule(Wake(k)) ELSE k
              /\ UNCHANGED halted
  /\ UNCHANGED <<pc, arg, calls>>

-----------------------------------------------------------------------------
(* Cancelling *)

Cancelled(x) ==
  [Unlinked(x) EXCEPT !.timer[x] = "none", !.bound = @ \ {x}]

\* rt_workqueue_cancel_work; -RT_EBUSY tells that the work is in progress.
CancelWork(t, x) ==
  /\ Calls(t)
  /\ wq' = Cancelled(x)
  /\ UNCHANGED <<k, pc, arg>>

\* rt_workqueue_cancel_work_sync looks at work_current with interrupts on.
CancelSync(t, x) ==
  /\ Calls(t) /\ t # Worker
  /\ arg' = [arg EXCEPT ![t] = x]
  /\ Goto(t, IF wq.current = x THEN "sync" ELSE "cancel")
  /\ UNCHANGED <<k, wq>>

\* Then it cancels, or waits for the semaphore of the queue.
CancelNow(t) ==
  /\ At(t, "cancel")
  /\ wq' = Cancelled(arg[t])
  /\ arg' = [arg EXCEPT ![t] = None] /\ Goto(t, "run")
  /\ UNCHANGED <<k, calls, halted>>

WaitSync(t) ==
  /\ At(t, "sync")
  /\ k' = SuspendTimed([k EXCEPT !.err[t] = "EINTR"], "sync", "FIFO", t, FALSE)
  /\ arg' = [arg EXCEPT ![t] = None] /\ Goto(t, "syncing")
  /\ UNCHANGED <<wq, calls, halted>>

\* Back from rt_schedule, woken by the worker.
SyncReturns(t) == At(t, "synced") /\ Goto(t, "run") /\ UNCHANGED <<k, workVars>>

\* rt_workqueue_cancel_all_work: with the scheduler locked, first the work to
\* do is cancelled, one after the other, then the delayed work.
CancelAll(t) ==
  /\ Calls(t)
  /\ k' = [k EXCEPT !.lock = @ + 1]
  /\ Goto(t, "purge")
  /\ UNCHANGED <<wq, arg>>

Purge(t) ==
  /\ At(t, "purge")
  /\ IF wq.list = <<>> THEN Goto(t, "purged") /\ UNCHANGED wq
     ELSE wq' = Cancelled(Head(wq.list)) /\ UNCHANGED pc
  /\ UNCHANGED <<k, arg, calls, halted>>

PurgeDelayed(t) ==
  /\ At(t, "purged")
  /\ IF wq.delayed = <<>>
     THEN k' = [k EXCEPT !.lock = @ - 1] /\ Goto(t, "resched") /\ UNCHANGED wq
     ELSE wq' = Cancelled(Head(wq.delayed)) /\ UNCHANGED <<k, pc>>
  /\ UNCHANGED <<arg, calls, halted>>

-----------------------------------------------------------------------------
(* The worker: _workqueue_thread_entry *)

\* Nothing to do: suspend, then rt_schedule with interrupts on.
WorkerWaits ==
  /\ At(Worker, "run") /\ wq.list = <<>>
  /\ k' = rt_thread_suspend(k, Worker)
  /\ Goto(Worker, "loop")
  /\ UNCHANGED workVars

WorkerSchedule ==
  ScheduleThen(Worker, "loop", "run") /\ UNCHANGED workVars

\* Take the first work and forget that it belongs to this queue.
WorkerTakes ==
  /\ At(Worker, "run") /\ wq.list # <<>>
  /\ wq' = [wq EXCEPT !.list = Tail(@), !.current = Head(wq.list),
                      !.bound = @ \ {Head(wq.list)}]
  /\ Goto(Worker, "work")
  /\ UNCHANGED <<k, arg, calls, halted>>

\* A work function blocks, here for its timer.
WorkSleeps ==
  /\ At(Worker, "work")
  /\ k' = [rt_thread_suspend(k, Worker) EXCEPT !.armed = @ \union {Worker},
                                               !.err[Worker] = "EINTR"]
  /\ Goto(Worker, "resched")
  /\ UNCHANGED workVars

\* The function returns.
WorkEnds ==
  /\ At(Worker, "work")
  /\ wq' = [wq EXCEPT !.current = None]
  /\ Goto(Worker, "ack")
  /\ UNCHANGED <<k, arg, calls, halted>>

\* _workqueue_work_completion: with the scheduler locked, the semaphore is
\* released until nobody waits and its value is 0 again.
WorkAck ==
  /\ At(Worker, "ack")
  /\ k' = ResumeEach(k, "sync", "EOK")
  /\ Goto(Worker, "loop")
  /\ UNCHANGED workVars

-----------------------------------------------------------------------------
\* The rest of what a thread has begun.
WorkContinue(t) ==
  \/ Arm(t) \/ CancelNow(t) \/ WaitSync(t) \/ Purge(t) \/ PurgeDelayed(t)
  \/ ScheduleThen(t, "resched", Home(t)) /\ UNCHANGED workVars
  \/ ScheduleThen(t, "syncing", "synced") /\ UNCHANGED workVars
  \/ SyncReturns(t)

WorkerStep ==
  WorkerWaits \/ WorkerSchedule \/ WorkerTakes \/ WorkEnds \/ WorkAck

WorkNext ==
  \/ \E t \in Thread, x \in Work :
       \/ DoWork(t, x) \/ SubmitDelayed(t, x) \/ UrgentWork(t, x)
       \/ CancelWork(t, x) \/ CancelSync(t, x)
  \/ \E t \in Thread : CancelAll(t) \/ WorkContinue(t)
  \/ \E x \in Work : IsrSubmit(x) \/ Expired(x)
  \/ WorkerStep \/ WorkSleeps

-----------------------------------------------------------------------------
(* Properties *)

\* No lost wake-up: a worker that waits for work has none, although work comes
\* from threads, timers and interrupts and between its look and its rt_schedule.
NoLostWork ==
  k.stat[Worker] = "suspend" /\ wq.current = None => wq.list = <<>>

\* The one list node of a work is on one list at most, once, in whichever order
\* it is submitted, hastened, delayed, cancelled and expires.
OnOneList ==
  /\ NoRepeat(wq.list) /\ NoRepeat(wq.delayed)
  /\ ToSet(wq.list) \intersect ToSet(wq.delayed) = {}

\* Delayed work will be moved: its timer runs, or the call that delayed it is
\* about to start the timer; and the handler will find its queue.
DelayedIsArmed ==
  \A x \in ToSet(wq.delayed) :
    /\ x \in wq.bound
    /\ \/ wq.timer[x] = "running"
       \/ \E t \in Client \union {Worker} : pc[t] = "arm" /\ arg[t] = x

\* A submission does not cut short what a work function waits for.
SleepKept ==
  [][ wq.current # None /\ k.stat[Worker] = "suspend" /\ k'.stat[Worker] # "suspend"
        => k'.err[Worker] = "ETIMEOUT" ]_<<k, wq>>

\* Submitted work is done, or cancelled, in the end.
Served == wq.list # <<>> ~> wq.current # None \/ wq.list = <<>> \/ halted
=============================================================================
