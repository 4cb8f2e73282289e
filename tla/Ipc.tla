-------------------------------- MODULE Ipc --------------------------------
(***************************************************************************)
(* The threads that use IPC objects: a kernel k in which every thread is   *)
(* started, a place pc[t] in thread t's code, the interrupt handlers.      *)
(***************************************************************************)
EXTENDS Kernel

CONSTANTS
  Main,      \* the thread that runs first
  InitPrio   \* init_priority of each thread

ASSUME MainAssumption     == Main \in Thread \ {Idle}
ASSUME InitPrioAssumption == InitPrio \in [Thread -> Prio]

VARIABLES k, pc

-----------------------------------------------------------------------------
(* Threads and interrupts *)

\* The kernel of an application whose threads are started.
StartedKernel == Started(Main, InitPrio)

\* Thread t has the processor and is at label l.
At(t, l) == k.cur = t /\ pc[t] = l

Goto(t, l) == pc' = [pc EXCEPT ![t] = l]

\* rt_schedule, with interrupts enabled before it: t goes on at l when it is
\* given the processor again.
ScheduleThen(t, from, to) ==
  /\ At(t, from)
  /\ k' = rt_schedule(k)
  /\ Goto(t, to)

\* rt_thread_sleep: t waits for its timer.  Scheduler has the windows of this
\* call; the error it leaves is not read by the calls on IPC objects.
SleepStart(t) ==
  /\ At(t, "run") /\ t # Idle
  /\ k' = [rt_thread_suspend(k, t) EXCEPT !.armed = @ \union {t}, !.err[t] = "EINTR"]
  /\ Goto(t, "resched")

\* The clock interrupt when the slice of the current thread is used up.
SliceEnd ==
  /\ k' = rt_schedule([k EXCEPT !.yield = @ \union {k.cur}])
  /\ UNCHANGED pc

\* The clock interrupt when the timer of t has expired.
TimerExpires(t) ==
  /\ t \in k.armed
  /\ k' = _thread_timeout(k, t)
  /\ UNCHANGED pc
=============================================================================
