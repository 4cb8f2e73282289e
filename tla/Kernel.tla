------------------------------- MODULE Kernel -------------------------------
(***************************************************************************)
(* The kernel data of RT-Thread 5.0.2 on one core and the functions of     *)
(* scheduler_up.c, thread.c, idle.c and ipc.c that change it with          *)
(* interrupts disabled.  Each operator takes the kernel state k and        *)
(* returns the next one, so that a module composes the calls of a C        *)
(* function in the order the source makes them and decides where           *)
(* interrupts are enabled.                                                 *)
(*                                                                         *)
(* A thread's one list node, tlist, is on at most one of the lists below;  *)
(* a list is the sequence of threads from the head's `next'.               *)
(***************************************************************************)
EXTENDS Lists

CONSTANTS
  Thread,    \* the thread control blocks
  Idle,      \* the idle thread tidle0, created by rt_thread_idle_init
  Prio,      \* 0 .. RT_THREAD_PRIORITY_MAX - 1; a smaller number runs first
  WaitList   \* the suspend lists of the IPC objects

ASSUME ThreadAssumption == Idle \in Thread /\ IsFiniteSet(Thread)
ASSUME PrioAssumption   == Prio \subseteq Nat

Stat == {"none", "init", "ready", "running", "suspend", "close"}
Error == {"EOK", "ETIMEOUT", "EINTR", "ERROR"}

KernelState ==
  [ stat    : [Thread -> Stat],             \* stat & RT_THREAD_STAT_MASK
    yield   : SUBSET Thread,                \* stat & RT_THREAD_STAT_YIELD
    prio    : [Thread -> Prio],             \* current_priority
    err     : [Thread -> Error],            \* error
    armed   : SUBSET Thread,                \* thread_timer is in the timer list
    ready   : [Prio -> Seq(Thread)],        \* rt_thread_priority_table
    group   : SUBSET Prio,                  \* rt_thread_ready_priority_group
    wait    : [WaitList -> Seq(Thread)],    \* suspend lists of IPC objects
    defunct : Seq(Thread),                  \* _rt_thread_defunct
    cur     : Thread,                       \* rt_current_thread
    lock    : Nat ]                         \* rt_scheduler_lock_nest

-----------------------------------------------------------------------------
(* Lists (rtservice.h). *)

\* Unlink a thread from whichever list its node is on.
rt_list_remove(k, t) ==
  [k EXCEPT !.ready   = [p \in Prio |-> RemoveFirst(k.ready[p], t)],
            !.wait    = [w \in WaitList |-> RemoveFirst(k.wait[w], t)],
            !.defunct = RemoveFirst(@, t)]

-----------------------------------------------------------------------------
(* scheduler_up.c *)

\* Mutant of rt_schedule_insert_thread: a preempted thread goes to the tail.
InsertAtTail(k, t) ==
  IF t = k.cur
  THEN [k EXCEPT !.stat[t] = "running"]
  ELSE [k EXCEPT !.stat[t] = "ready", !.group = @ \union {k.prio[t]},
                 !.ready[k.prio[t]] = Append(@, t)]

\* Make a thread ready: at the tail of its list when its slice is used up, at
\* the head otherwise.  The current thread is not queued but set running.
rt_schedule_insert_thread(k, t) ==
  IF t = k.cur
  THEN [k EXCEPT !.stat[t] = "running"]
  ELSE [k EXCEPT !.stat[t] = "ready",
                 !.ready[k.prio[t]] = IF t \in k.yield THEN Append(@, t)
                                                       ELSE Cons(t, @),
                 !.group = @ \union {k.prio[t]}]

\* Mutant of rt_schedule_remove_thread: the bit of an empty list stays set.
RemoveLeavesBit(k, t) == rt_list_remove(k, t)

\* Unlink a thread, and clear the bit of its priority when that list is empty.
rt_schedule_remove_thread(k, t) ==
  LET u == rt_list_remove(k, t)
  IN  [u EXCEPT !.group = IF u.ready[u.prio[t]] = <<>>
                          THEN @ \ {u.prio[t]} ELSE @]

\* The highest ready priority is the lowest bit set in the group.
HighestPrio(k) == Min(k.group)

\* The current thread keeps the processor against the ready threads: nothing
\* ready beats it, and a tie goes to it unless it yields.
KeepsCpu(k) ==
  /\ k.stat[k.cur] = "running"
  /\ \/ k.prio[k.cur] < HighestPrio(k)
     \/ k.prio[k.cur] = HighestPrio(k) /\ k.cur \notin k.yield

\* Give the processor to the first thread of the highest list; a running
\* thread that loses it goes back to its ready list.
SwitchTo(k, to) ==
  LET moved == [k EXCEPT !.cur = to]
      queued == IF k.stat[k.cur] = "running"
                THEN rt_schedule_insert_thread(moved, k.cur) ELSE moved
  IN  [rt_schedule_remove_thread(queued, to) EXCEPT !.stat[to] = "running"]

\* Nothing happens while the scheduler is locked.  The yield bit of a running
\* thread is cleared before the thread is queued.
rt_schedule(k) ==
  LET c == [k EXCEPT !.yield = IF k.stat[k.cur] = "running"
                               THEN @ \ {k.cur} ELSE @]
  IN  IF k.lock # 0 \/ k.group = {} THEN k
      ELSE IF KeepsCpu(k) THEN rt_schedule_remove_thread(c, k.cur)
      ELSE SwitchTo(c, Head(k.ready[HighestPrio(k)]))

\* After rt_system_scheduler_start: thread `main' runs, the others are ready.
Started(main, prio) ==
  LET QueuedAt(p) == {t \in Thread \ {main} : prio[t] = p}
  IN  [ stat    |-> [t \in Thread |-> IF t = main THEN "running" ELSE "ready"],
        yield   |-> {},
        prio    |-> prio,
        err     |-> [t \in Thread |-> "EOK"],
        armed   |-> {},
        ready   |-> [p \in Prio |-> SetToSeq(QueuedAt(p))],
        group   |-> {p \in Prio : QueuedAt(p) # {}},
        wait    |-> [w \in WaitList |-> <<>>],
        defunct |-> <<>>,
        cur     |-> main,
        lock    |-> 0 ]

-----------------------------------------------------------------------------
(* thread.c *)

\* Suspend a ready or running thread: off the ready list, its timer stopped.
rt_thread_suspend(k, t) ==
  IF k.stat[t] \in {"ready", "running"}
  THEN [rt_schedule_remove_thread(k, t) EXCEPT !.stat[t] = "suspend",
                                               !.armed = @ \ {t}]
  ELSE k

\* Mutant of ResumeUnlink: the timer is left running.
ResumeKeepsTimer(k, t) == rt_list_remove(k, t)

\* The first half of rt_thread_resume: off the suspend list, timer stopped.
ResumeUnlink(k, t) == [rt_list_remove(k, t) EXCEPT !.armed = @ \ {t}]

\* The whole of rt_thread_resume as a caller with interrupts disabled sees it.
rt_thread_resume(k, t) ==
  IF k.stat[t] = "suspend"
  THEN rt_schedule_insert_thread(ResumeUnlink(k, t), t)
  ELSE k

\* Mutant of _thread_timeout: the thread is not told that it timed out.
TimeoutUntold(k, t) ==
  rt_schedule(rt_schedule_insert_thread(
    rt_list_remove([k EXCEPT !.armed = @ \ {t}], t), t))

\* Mutant of _thread_timeout: the thread stays on the list it waited on.
TimeoutStillLinked(k, t) ==
  LET late == [k EXCEPT !.armed = @ \ {t}, !.err[t] = "ETIMEOUT"]
  IN  rt_schedule(rt_schedule_insert_thread(late, t))

\* A one-shot thread timer expires: rt_timer_check takes it off the timer
\* list and calls the timeout function, which wakes the thread.
_thread_timeout(k, t) ==
  LET late == [k EXCEPT !.armed = @ \ {t}, !.err[t] = "ETIMEOUT"]
  IN  rt_schedule(rt_schedule_insert_thread(rt_list_remove(late, t), t))

\* RT_THREAD_CTRL_CHANGE_PRIORITY: a ready thread moves to its new list.
ChangePriority(k, t, p) ==
  IF k.stat[t] = "ready"
  THEN rt_schedule_insert_thread(
         [rt_schedule_remove_thread(k, t) EXCEPT !.prio[t] = p], t)
  ELSE [k EXCEPT !.prio[t] = p]

\* The dead thread goes to the front of the list the idle thread empties.
rt_thread_defunct_enqueue(k, t) == [k EXCEPT !.defunct = Cons(t, @)]

\* What the exit, detach and delete paths do with interrupts disabled, once
\* the thread is off the ready list.
CloseThread(k, t) ==
  rt_thread_defunct_enqueue(
    [k EXCEPT !.armed = @ \ {t}, !.stat[t] = "close", !.yield = @ \ {t}], t)

-----------------------------------------------------------------------------
(* The suspend lists of IPC objects (ipc.c). *)

\* Before the first thread of a lower priority, or else at the end.
PrioPosition(s, t, prio) ==
  LET lower == {i \in 1..Len(s) : prio[t] < prio[s[i]]}
  IN  IF lower = {} THEN Len(s) + 1 ELSE Min(lower)

\* _ipc_list_suspend with RT_IPC_FLAG_FIFO and with RT_IPC_FLAG_PRIO; a thread
\* that is already suspended is only linked.
SuspendOnFifo(s, w, t) ==
  LET u == rt_thread_suspend(s, t)
  IN  [u EXCEPT !.wait[w] = Append(@, t)]

SuspendOnPrio(s, w, t) ==
  LET u == rt_thread_suspend(s, t)
  IN  [u EXCEPT !.wait[w] = InsertAt(@, PrioPosition(@, t, u.prio), t)]

\* Suspend t on w and start its timer when the timeout is finite.
SuspendTimed(s, w, flag, t, finite) ==
  LET u == IF flag = "FIFO" THEN SuspendOnFifo(s, w, t) ELSE SuspendOnPrio(s, w, t)
  IN  IF finite THEN [u EXCEPT !.armed = @ \union {t}] ELSE u

\* Tell the first waiting thread why it is woken, and wake it.
ResumeHead(s, w, error) ==
  LET t == Head(s.wait[w])
  IN  rt_thread_resume([s EXCEPT !.err[t] = error], t)

\* _ipc_list_resume: wake the first thread of a list that is not empty.
ResumeFirst(s, w) == ResumeHead(s, w, "EOK")

\* Wake the first thread until the list is empty; After[i] is the kernel when
\* i threads have been woken.
ResumeEach(s, w, error) ==
  LET After[i \in 0..Len(s.wait[w])] ==
        IF i = 0 THEN s ELSE ResumeHead(After[i - 1], w, error)
  IN  After[Len(s.wait[w])]

\* _ipc_list_resume_all: wake every thread of a list with an error.
ResumeAll(s, w) == ResumeEach(s, w, "ERROR")

\* Walk a list, wake the chosen threads and tell them that they got what they
\* waited for; After[i] is the kernel when i threads have been looked at.
ResumeChosen(s, w, chosen) ==
  LET list == s.wait[w]
      After[i \in 0..Len(list)] ==
        IF i = 0 THEN s
        ELSE IF list[i] \in chosen
             THEN [rt_thread_resume(After[i - 1], list[i]) EXCEPT !.err[list[i]] = "EOK"]
             ELSE After[i - 1]
  IN  After[Len(list)]

-----------------------------------------------------------------------------
(* What the lists of a sound kernel state look like. *)

\* A thread on a ready list is ready, at that priority, and not running.
ReadyListsOK(k) ==
  \A p \in Prio : /\ NoRepeat(k.ready[p])
                  /\ \A i \in 1..Len(k.ready[p]) :
                       LET t == k.ready[p][i]
                       IN  k.stat[t] = "ready" /\ k.prio[t] = p /\ t # k.cur

\* The bitmap names exactly the lists that hold a thread.
GroupOK(k) == k.group = {p \in Prio : k.ready[p] # <<>>}

\* A thread on a suspend list is suspended, and on no second list.
WaitListsOK(k) ==
  /\ \A w \in WaitList : NoRepeat(k.wait[w]) /\ \A i \in 1..Len(k.wait[w]) :
                           k.stat[k.wait[w][i]] = "suspend"
  /\ \A w, x \in WaitList : \A i \in 1..Len(k.wait[w]), j \in 1..Len(k.wait[x]) :
       k.wait[w][i] = k.wait[x][j] => w = x

\* The list of dead threads holds closed threads, each once.
DefunctOK(k) ==
  NoRepeat(k.defunct) /\ \A i \in 1..Len(k.defunct) :
                           k.stat[k.defunct[i]] = "close"

ListsOK(k) == ReadyListsOK(k) /\ GroupOK(k) /\ WaitListsOK(k) /\ DefunctOK(k)
=============================================================================
