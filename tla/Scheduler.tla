----------------------------- MODULE Scheduler -----------------------------
(***************************************************************************)
(* Threads of one core calling the thread API of thread.c, the tick and    *)
(* device interrupts, and the idle thread that reclaims dead threads.      *)
(*                                                                         *)
(* An action is what runs with interrupts disabled.  pc[t] says where      *)
(* thread t is when interrupts are enabled: in its own code, or between    *)
(* two critical sections of a kernel function, where an interrupt handler  *)
(* or, after it, another thread may run.                                   *)
(***************************************************************************)
EXTENDS Kernel

CONSTANTS
  Main,       \* the thread rt_system_scheduler_start switches to
  InitPrio,   \* init_priority of each thread; the idle thread has the largest
  Sleeper,    \* threads that sleep or suspend themselves, and are resumed
  Victim,     \* threads that another thread detaches or deletes
  Retuned,    \* threads whose priority is changed by RT_THREAD_CTRL_CHANGE_PRIORITY
  MaxLock,    \* bound: nesting of rt_enter_critical
  Exclusive   \* no two callers are inside resume, startup, detach or control
              \* of one thread at the same time

ASSUME InitPrioAssumption == InitPrio \in [Thread -> Prio]
ASSUME MainAssumption     == Main \in Thread \ {Idle}
ASSUME StartAssumption    == InitPrio[Main] <= InitPrio[Idle]
ASSUME RoleAssumption     ==
  /\ Sleeper \subseteq Thread \ {Idle}
  /\ Victim \subseteq Thread \ {Idle}
  /\ Retuned \subseteq Thread \ {Idle}
ASSUME BoundAssumption    == MaxLock \in Nat /\ Exclusive \in BOOLEAN

VARIABLES
  k,      \* the kernel state
  pc,     \* where each thread is
  arg,    \* the thread a call in progress works on
  repri   \* a priority was changed and rt_schedule has not run since

vars == <<k, pc, arg, repri>>

Label == {"run", "resume", "insert", "detach", "resched", "exit",
          "sleepset", "sleepsched", "slept", "reap"}

TypeOK ==
  /\ k \in KernelState
  /\ pc \in [Thread -> Label]
  /\ arg \in [Thread -> Thread]
  /\ repri \in BOOLEAN

Init ==
  /\ k = [ stat    |-> [t \in Thread |-> IF t = Main THEN "running"
                                    ELSE IF t = Idle THEN "ready" ELSE "none"],
           yield   |-> {},
           prio    |-> InitPrio,
           err     |-> [t \in Thread |-> "EOK"],
           armed   |-> {},
           ready   |-> [p \in Prio |-> IF p = InitPrio[Idle] THEN <<Idle>> ELSE <<>>],
           group   |-> {InitPrio[Idle]},
           wait    |-> [w \in WaitList |-> <<>>],
           defunct |-> <<>>,
           cur     |-> Main,
           lock    |-> 0 ]
  /\ pc = [t \in Thread |-> "run"]
  /\ arg = [t \in Thread |-> t]
  /\ repri = FALSE

\* Thread t runs and is at label l.
At(t, l) == k.cur = t /\ pc[t] = l

Goto(t, l) == pc' = [pc EXCEPT ![t] = l] /\ arg' = [arg EXCEPT ![t] = t]

Call(t, l, u) == pc' = [pc EXCEPT ![t] = l] /\ arg' = [arg EXCEPT ![t] = u]

\* A state change that ends in rt_schedule.
ThenSchedule(s) == k' = rt_schedule(s) /\ repri' = (repri /\ s.lock # 0)

\* No thread is in the middle of a call that works on u.
Unattended(u) ==
  Exclusive => \A t \in Thread :
                 pc[t] \in {"resume", "insert", "detach"} => arg[t] # u

\* u is suspended by its own call, not by rt_thread_startup.
SelfSuspended(u) == u \in Sleeper /\ k.stat[u] = "suspend" /\ pc[u] # "run"

-----------------------------------------------------------------------------
(* Threads *)

\* rt_thread_init or rt_thread_create on a free control block.
Create(t, u) ==
  /\ At(t, "run") /\ k.stat[u] = "none"
  /\ k' = [k EXCEPT !.stat[u] = "init", !.prio[u] = InitPrio[u],
                    !.err[u] = "EOK"]
  /\ pc' = [pc EXCEPT ![u] = "run"]
  /\ UNCHANGED <<arg, repri>>

\* rt_thread_startup: the thread counts as suspended, then is resumed.
Startup(t, u) ==
  /\ At(t, "run") /\ k.stat[u] = "init" /\ Unattended(u)
  /\ k' = [k EXCEPT !.stat[u] = "suspend", !.yield = @ \ {u}]
  /\ Call(t, "resume", u)
  /\ UNCHANGED repri

\* A thread resumes another one that suspended itself.
ResumeOther(t, u) ==
  /\ At(t, "run") /\ SelfSuspended(u) /\ Unattended(u)
  /\ k' = ResumeUnlink(k, u)
  /\ Call(t, "insert", u)
  /\ UNCHANGED repri

\* The call of rt_thread_resume inside rt_thread_startup.
ResumeStarted(t) ==
  /\ At(t, "resume")
  /\ IF k.stat[arg[t]] = "suspend"
     THEN k' = ResumeUnlink(k, arg[t]) /\ Call(t, "insert", arg[t])
     ELSE k' = k /\ Goto(t, "resched")
  /\ UNCHANGED repri

\* Mutant of ResumeInsert: no rt_schedule after the wake-up.
ResumeInsertOnly(t) ==
  /\ At(t, "insert")
  /\ k' = rt_schedule_insert_thread(k, arg[t])
  /\ Goto(t, "run")
  /\ UNCHANGED repri

\* The second half of rt_thread_resume, after its interrupt window.
ResumeInsert(t) ==
  /\ At(t, "insert")
  /\ k' = rt_schedule_insert_thread(k, arg[t])
  /\ Goto(t, "resched")
  /\ UNCHANGED repri

\* The rt_schedule call at the end of startup, yield, close and exit_critical.
Reschedule(t) ==
  /\ At(t, "resched")
  /\ ThenSchedule(k)
  /\ Goto(t, "run")

\* rt_thread_suspend on the caller itself.
SuspendSelf(t) ==
  /\ At(t, "run") /\ t \in Sleeper /\ k.lock = 0
  /\ k' = rt_thread_suspend(k, t)
  /\ Goto(t, "resched")
  /\ UNCHANGED repri

\* Mutant of Sleep: the thread timer is not started.
SleepUntimed(t) ==
  /\ At(t, "run") /\ t \in Sleeper /\ k.lock = 0
  /\ k' = rt_thread_suspend([k EXCEPT !.err[t] = "EOK"], t)
  /\ Goto(t, "sleepset")
  /\ UNCHANGED repri

\* rt_thread_sleep: suspend and start the thread timer in one critical section.
Sleep(t) ==
  /\ At(t, "run") /\ t \in Sleeper /\ k.lock = 0
  /\ k' = [rt_thread_suspend([k EXCEPT !.err[t] = "EOK"], t)
             EXCEPT !.armed = @ \union {t}]
  /\ Goto(t, "sleepset")
  /\ UNCHANGED repri

\* Interrupts are on again when rt_thread_sleep writes -RT_EINTR.
SleepSetError(t) ==
  /\ At(t, "sleepset")
  /\ k' = [k EXCEPT !.err[t] = "EINTR"]
  /\ Goto(t, "sleepsched")
  /\ UNCHANGED repri

SleepSchedule(t) ==
  /\ At(t, "sleepsched")
  /\ ThenSchedule(k)
  /\ Goto(t, "slept")

SleepReturn(t) ==
  /\ At(t, "slept")
  /\ k' = IF k.err[t] = "ETIMEOUT" THEN [k EXCEPT !.err[t] = "EOK"] ELSE k
  /\ Goto(t, "run")
  /\ UNCHANGED repri

Yield(t) ==
  /\ At(t, "run")
  /\ k' = [k EXCEPT !.yield = @ \union {t}]
  /\ Goto(t, "resched")
  /\ UNCHANGED repri

\* _thread_exit, when the entry function returns.
Exit(t) ==
  /\ At(t, "run") /\ t # Idle /\ k.lock = 0
  /\ k' = CloseThread(rt_schedule_remove_thread(k, t), t)
  /\ Goto(t, "exit")
  /\ UNCHANGED repri

ExitSchedule(t) ==
  /\ At(t, "exit")
  /\ ThenSchedule(k)
  /\ UNCHANGED <<pc, arg>>

\* RT_THREAD_CTRL_CLOSE: rt_thread_detach or rt_thread_delete, which differ
\* only in whose memory the idle thread frees, then rt_schedule.  The stat is
\* read and the thread unlinked before interrupts are disabled ...
Detach(t, u) ==
  /\ At(t, "run") /\ u \in Victim /\ Unattended(u)
  /\ k.stat[u] \notin {"none", "close"} /\ (t = u => k.lock = 0)
  /\ k' = IF k.stat[u] # "init" THEN rt_schedule_remove_thread(k, u) ELSE k
  /\ Call(t, "detach", u)
  /\ UNCHANGED repri

\* ... and the thread is closed afterwards, whatever it has become.
DetachClose(t) ==
  /\ At(t, "detach")
  /\ k' = CloseThread(k, arg[t])
  /\ Goto(t, "resched")
  /\ UNCHANGED repri

SetPriority(t, u, p) ==
  /\ At(t, "run") /\ u \in Retuned /\ Unattended(u)
  /\ k.stat[u] \notin {"none", "close"}
  /\ k' = ChangePriority(k, u, p)
  /\ repri' = TRUE
  /\ UNCHANGED <<pc, arg>>

EnterCritical(t) ==
  /\ At(t, "run") /\ k.lock < MaxLock
  /\ k' = [k EXCEPT !.lock = @ + 1]
  /\ UNCHANGED <<pc, arg, repri>>

\* Mutant of ExitCritical: one call too many makes the nesting negative.
ExitCriticalUnclamped(t) ==
  /\ At(t, "run")
  /\ k' = [k EXCEPT !.lock = @ - 1]
  /\ IF k.lock <= 1 THEN Goto(t, "resched") ELSE UNCHANGED <<pc, arg>>
  /\ UNCHANGED repri

\* rt_exit_critical, also when it is called once too often.
ExitCritical(t) ==
  /\ At(t, "run")
  /\ k' = [k EXCEPT !.lock = IF @ <= 1 THEN 0 ELSE @ - 1]
  /\ IF k.lock <= 1 THEN Goto(t, "resched") ELSE UNCHANGED <<pc, arg>>
  /\ UNCHANGED repri

-----------------------------------------------------------------------------
(* The idle thread: rt_thread_defunct_dequeue looks at the list with          *)
(* interrupts enabled and unlinks with interrupts disabled.  Idle hooks       *)
(* return with the scheduler unlocked.                                        *)

ReapPick ==
  /\ At(Idle, "run") /\ k.lock = 0 /\ k.defunct # <<>>
  /\ Call(Idle, "reap", Head(k.defunct))
  /\ UNCHANGED <<k, repri>>

\* Mutant of ReapFree: the block is given back while it is still listed.
ReapFreeLinked ==
  /\ At(Idle, "reap")
  /\ k' = [k EXCEPT !.stat[arg[Idle]] = "none"]
  /\ Goto(Idle, "run")
  /\ UNCHANGED repri

ReapFree ==
  /\ At(Idle, "reap")
  /\ k' = [rt_list_remove(k, arg[Idle]) EXCEPT !.stat[arg[Idle]] = "none"]
  /\ Goto(Idle, "run")
  /\ UNCHANGED repri

-----------------------------------------------------------------------------
(* Interrupt handlers: at any time, to completion. *)

\* rt_tick_increase when the slice of the current thread is used up.
SliceEnd ==
  /\ ThenSchedule([k EXCEPT !.yield = @ \union {k.cur}])
  /\ UNCHANGED <<pc, arg>>

\* rt_timer_check finds the timer of u expired.
Timeout(u) ==
  /\ u \in k.armed
  /\ k' = _thread_timeout(k, u)
  /\ repri' = (repri /\ k.lock # 0)
  /\ UNCHANGED <<pc, arg>>

\* A device handler resumes a thread and leaves through rt_schedule.
IsrResume(u) ==
  /\ SelfSuspended(u) /\ Unattended(u)
  /\ ThenSchedule(rt_thread_resume(k, u))
  /\ UNCHANGED <<pc, arg>>

-----------------------------------------------------------------------------
Call1(t) ==
  \/ SuspendSelf(t) \/ Sleep(t) \/ Yield(t) \/ Exit(t)
  \/ EnterCritical(t) \/ ExitCritical(t)

Call2(t, u) ==
  \/ Create(t, u) \/ Startup(t, u) \/ ResumeOther(t, u) \/ Detach(t, u)
  \/ \E p \in Prio : SetPriority(t, u, p)

\* The rest of a kernel call already begun: straight-line code.
Continue(t) ==
  \/ ResumeStarted(t) \/ ResumeInsert(t) \/ Reschedule(t)
  \/ SleepSetError(t) \/ SleepSchedule(t) \/ SleepReturn(t)
  \/ ExitSchedule(t) \/ DetachClose(t)

Reap == ReapPick \/ ReapFree

Interrupt == SliceEnd \/ \E u \in Thread : Timeout(u) \/ IsrResume(u)

Next ==
  \/ \E t \in Thread : Call1(t) \/ Continue(t)
  \/ \E t, u \in Thread : Call2(t, u)
  \/ Reap
  \/ Interrupt

Spec == Init /\ [][Next]_vars

\* The tick keeps coming, so slices end and timers expire; a thread that is
\* given the processor again and again gets on with the kernel call it is in,
\* and leaves the critical sections it entered.  Of thread code nothing else
\* is assumed: a thread may run for ever, or never call the kernel again.
Fairness ==
  /\ \A t \in Thread : SF_vars(Continue(t)) /\ SF_vars(k.lock > 0 /\ ExitCritical(t))
  /\ \A u \in Thread : WF_vars(Timeout(u))
  /\ WF_vars(SliceEnd)

FairSpec == Spec /\ Fairness

-----------------------------------------------------------------------------
(* Properties *)

BeingDetached(u) == \E t \in Thread : pc[t] = "detach" /\ arg[t] = u

\* The lists, the bitmap and the stat fields agree: every ready thread is on
\* the list of its priority unless a caller is detaching it, every closed
\* thread waits for the idle thread, and only the current thread is running
\* (rt_schedule, rt_schedule_insert_thread, rt_schedule_remove_thread).
ListsSound ==
  /\ ListsOK(k)
  /\ \A t \in Thread :
       /\ k.stat[t] = "running" => t = k.cur
       /\ k.stat[t] = "ready" =>
            Contains(k.ready[k.prio[t]], t) \/ BeingDetached(t)
       /\ k.stat[t] = "close" => Contains(k.defunct, t)

\* _thread_timeout asserts that the thread is suspended (thread.c:144): a
\* thread timer is never left running for a thread that was woken or closed.
TimerMeansSuspended == \A t \in k.armed : k.stat[t] = "suspend"

\* A thread that executes its own code with the scheduler unlocked is beaten
\* by no ready thread: each wake-up, exit and timeout is followed by the
\* rt_schedule that it owes.  rt_thread_control leaves that call to its user.
HighestRuns ==
  k.lock = 0 /\ pc[k.cur] = "run" /\ ~repri =>
    /\ k.stat[k.cur] = "running"
    /\ \A p \in k.group : k.prio[k.cur] <= p

\* A closed thread executes nothing but its last rt_schedule, and a control
\* block the idle thread gave back is on no list, in no timer and not current.
ReclaimSafe ==
  /\ k.stat[k.cur] = "close" => pc[k.cur] \in {"exit", "resched"}
  /\ \A t \in Thread : k.stat[t] = "none" =>
       /\ t # k.cur /\ t \notin k.armed /\ ~Contains(k.defunct, t)
       /\ \A p \in Prio : ~Contains(k.ready[p], t)

\* A thread that was detached or deleted is off the ready lists: "The thread
\* object will be removed from thread queue" (thread.c:414).  The code does not
\* keep it for a thread whose timer fires in the window of rt_thread_detach.
ClosedIsUnqueued ==
  \A t \in Thread : k.stat[t] = "close" =>
    \A p \in Prio : ~Contains(k.ready[p], t)

\* A thread preempted by a more urgent one is the first of its priority to
\* continue (scheduler_up.c:383).
PreemptedFirst ==
  [][ LET t == k.cur
      IN  k.stat[t] = "running" /\ k'.stat[t] = "ready"
            /\ k'.prio[k'.cur] < k'.prio[t]
          => Head(k'.ready[k'.prio[t]]) = t ]_vars

\* A thread that yields goes behind the ready threads of its priority
\* (scheduler_up.c:377).
YieldedLast ==
  [][ LET t == k.cur
      IN  k.stat[t] = "running" /\ k'.stat[t] = "ready" /\ t \in k.yield
          => Last(k'.ready[k'.prio[t]]) = t ]_vars

\* The timeout that ends a sleep stays recorded until rt_thread_sleep itself
\* clears it on its way out (thread.c:657).  The code does not keep it: it
\* writes -RT_EINTR after the timer is started (thread.c:653).
TimeoutKept ==
  [][ \A t \in Thread : k.err[t] = "ETIMEOUT" => k'.err[t] # "EINTR" ]_vars

\* A sleeping thread that no other thread outranks comes back from
\* rt_thread_sleep, whatever the other threads and the interrupts do.
SleepEnds ==
  \A t \in Sleeper :
    (\A u \in Thread : InitPrio[t] <= InitPrio[u]) =>
      (pc[t] = "sleepset" ~> pc[t] = "run")
=============================================================================
