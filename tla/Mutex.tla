------------------------------- MODULE Mutex -------------------------------
(***************************************************************************)
(* The mutexes of ipc.c: recursive, handed over in priority order, with    *)
(* priority inheritance along chains of owners and a priority ceiling.     *)
(* Threads take and release them in any order, with or without a timeout,  *)
(* sleep while they hold them, and may be deleted while they wait.         *)
(***************************************************************************)
EXTENDS Ipc

CONSTANTS
  Mutexes,    \* the mutex objects; each is its own suspend list
  None,       \* RT_NULL
  NoPrio,     \* 0xFF: no ceiling, or no waiter
  Ceiling,    \* the values threads give to rt_mutex_setprioceiling
  Victim,     \* threads that another thread deletes
  MaxHold     \* RT_MUTEX_HOLD_MAX

ASSUME MutexAssumption ==
  /\ WaitList = Mutexes
  /\ NoPrio \in Nat /\ \A p \in Prio : p < NoPrio
  /\ Ceiling \subseteq Prio /\ Victim \subseteq Thread \ {Idle}
  /\ MaxHold \in Nat \ {0}
  /\ None \notin Thread \union Mutexes

VARIABLES
  m,      \* the fields of each mutex
  taken,  \* taken_object_list of each thread, as a set
  pend,   \* pending_object of each thread
  arg     \* the mutex, or the thread, a call in progress works on

vars == <<k, pc, m, taken, pend, arg>>

Label == {"run", "resched", "taking", "woken", "clear", "detach"}

TypeOK ==
  /\ k \in KernelState
  /\ pc \in [Thread -> Label]
  /\ m \in [ owner    : [Mutexes -> Thread \union {None}],
             hold     : [Mutexes -> 0..MaxHold],
             priority : [Mutexes -> Prio \union {NoPrio}],
             ceiling  : [Mutexes -> Prio \union {NoPrio}] ]
  /\ taken \in [Thread -> SUBSET Mutexes]
  /\ pend \in [Thread -> Mutexes \union {None}]
  /\ arg \in [Thread -> Mutexes \union Thread \union {None}]

Init ==
  /\ k = StartedKernel
  /\ pc = [t \in Thread |-> "run"]
  /\ m = [ owner    |-> [x \in Mutexes |-> None],
           hold     |-> [x \in Mutexes |-> 0],
           priority |-> [x \in Mutexes |-> NoPrio],
           ceiling  |-> [x \in Mutexes |-> NoPrio] ]
  /\ taken = [t \in Thread |-> {}]
  /\ pend = [t \in Thread |-> None]
  /\ arg = [t \in Thread |-> None]

-----------------------------------------------------------------------------
(* Priorities.  An operator on the pair [k, m] returns the next pair. *)

\* _mutex_update_priority: the priority of the first waiter.
FirstPrio(s, x) ==
  IF s.wait[x] = <<>> THEN NoPrio ELSE s.prio[Head(s.wait[x])]

\* _thread_get_mutex_priority: what a thread deserves by its own priority, the
\* waiters of its mutexes and their ceilings.
MutexPrio(mm, tk, t) ==
  Min({InitPrio[t]} \union {mm.priority[x] : x \in tk[t]}
                    \union {mm.ceiling[x] : x \in tk[t]})

\* Mutant of Reposition: a waiter keeps its place when its priority changes.
RepositionNot(s, t, x) == s

\* A waiter is linked anew, at the place its priority gives it.
Reposition(s, t, x) == SuspendOnPrio(rt_list_remove(s, t), x, t)

\* One turn of the loop in _thread_update_priority: a suspended thread whose
\* priority has changed moves in the list it waits on, and the owner of that
\* mutex is given the priority it deserves now.  The loop has ended when there
\* is no thread left whose priority has changed.
Propagate(pd, c) ==
  LET x == pd[c.thread]
      moved == Reposition(c.k, c.thread, x)
      mm == [c.m EXCEPT !.priority[x] = FirstPrio(moved, x)]
      owner == mm.owner[x]
      p == MutexPrio(mm, taken, owner)
  IN  IF c.thread = None \/ c.k.stat[c.thread] # "suspend" \/ x = None
      THEN [c EXCEPT !.thread = None]
      ELSE IF p = moved.prio[owner]
      THEN [k |-> moved, m |-> mm, thread |-> None]
      ELSE [k |-> ChangePriority(moved, owner, p), m |-> mm, thread |-> owner]

\* Mutant of UpdatePriority: no inheritance at all.
UpdatePriorityNot(s, mm, pd, t, p) == [k |-> s, m |-> mm]

\* The change travels along the chain of owners that the pending objects pd make;
\* After[i] is what i turns of the loop leave.  A chain that does not end where
\* it began has one turn for each of its threads, a circle of waiting threads at
\* most two; a turn after the last one changes nothing.
UpdatePriority(s, mm, pd, t, p) ==
  LET turns == 2 * Cardinality(Thread)
      After[i \in 0..turns] ==
        IF i = 0 THEN [k |-> ChangePriority(s, t, p), m |-> mm, thread |-> t]
        ELSE Propagate(pd, After[i - 1])
  IN  After[turns]

\* Give the owner of x the priority it deserves, if that is another one.
RefreshOwner(s, mm, x) ==
  LET p == MutexPrio(mm, taken, mm.owner[x])
  IN  IF p # s.prio[mm.owner[x]]
      THEN UpdatePriority(s, mm, pend, mm.owner[x], p) ELSE [k |-> s, m |-> mm]

\* What a waiter that gave up, or a deleted one, leaves behind: the mutex
\* priority follows the first waiter left, the owner is refreshed when it runs
\* at the priority of the waiter that left.
DropWaiter(s, x, t) ==
  LET mm == [m EXCEPT !.priority[x] = FirstPrio(s, x)]
  IN  IF mm.owner[x] # None /\ s.prio[mm.owner[x]] = s.prio[t]
      THEN RefreshOwner(s, mm, x) ELSE [k |-> s, m |-> mm]

Become(c) == k' = c.k /\ m' = c.m

-----------------------------------------------------------------------------
(* rt_mutex_take *)

\* The owner takes the mutex again; at RT_MUTEX_HOLD_MAX the call fails.
TakeAgain(t, x) ==
  /\ At(t, "run") /\ m.owner[x] = t /\ m.hold[x] < MaxHold
  /\ m' = [m EXCEPT !.hold[x] = @ + 1]
  /\ k' = [k EXCEPT !.err[t] = "EOK"]
  /\ UNCHANGED <<pc, taken, pend, arg>>

\* x is on the taken_object_list of its new owner t.
Listed(tk, t, x) == [tk EXCEPT ![t] = @ \union {x}]

\* A free mutex: the thread rises to the ceiling before the mutex is on its
\* taken list.
TakeFree(t, x) ==
  LET mine == [m EXCEPT !.owner[x] = t, !.priority[x] = NoPrio, !.hold[x] = 1]
      s == [k EXCEPT !.err[t] = "EOK"]
  IN  /\ At(t, "run") /\ t # Idle /\ m.owner[x] = None
      /\ IF m.ceiling[x] < k.prio[t]
         THEN Become(UpdatePriority(s, mine, pend, t, m.ceiling[x]))
         ELSE Become([k |-> s, m |-> mine])
      /\ taken' = Listed(taken, t, x)
      /\ UNCHANGED <<pc, pend, arg>>

\* A mutex of another thread: wait for it, and raise its owner when this is
\* the most urgent waiter.  With a timeout the thread timer is started last.
TakeWait(t, x, timed) ==
  LET p == k.prio[t]
      s == SuspendOnPrio([k EXCEPT !.err[t] = "EOK"], x, t)
      mm == IF p < m.priority[x] THEN [m EXCEPT !.priority[x] = p] ELSE m
      c == IF p < m.priority[x] /\ p < s.prio[m.owner[x]]
           THEN UpdatePriority(s, mm, pend', m.owner[x], p) ELSE [k |-> s, m |-> mm]
  IN  /\ At(t, "run") /\ t # Idle /\ m.owner[x] \notin {None, t}
      /\ pend' = [pend EXCEPT ![t] = x]
      /\ k' = IF timed THEN [c.k EXCEPT !.armed = @ \union {t}] ELSE c.k
      /\ m' = c.m
      /\ arg' = [arg EXCEPT ![t] = x]
      /\ Goto(t, "taking")
      /\ UNCHANGED taken

TakeSchedule(t) ==
  ScheduleThen(t, "taking", "woken") /\ UNCHANGED <<m, taken, pend, arg>>

\* Back from rt_schedule with the mutex ...
TakeSucceeds(t) ==
  /\ At(t, "woken") /\ k.err[t] = "EOK"
  /\ Goto(t, "run")
  /\ arg' = [arg EXCEPT ![t] = None]
  /\ UNCHANGED <<k, m, taken, pend>>

\* ... or without: the inheritance it caused is undone, and the pending object
\* is cleared after interrupts are enabled.
TakeFails(t) ==
  /\ At(t, "woken") /\ k.err[t] # "EOK"
  /\ Become(DropWaiter(k, arg[t], t))
  /\ Goto(t, "clear")
  /\ arg' = [arg EXCEPT ![t] = None]
  /\ UNCHANGED <<taken, pend>>

\* Mutant of ClearPending: the pending object is not cleared.
ClearPendingNot(t) ==
  /\ At(t, "clear")
  /\ Goto(t, "run")
  /\ UNCHANGED <<k, m, taken, pend, arg>>

ClearPending(t) ==
  /\ At(t, "clear")
  /\ pend' = [pend EXCEPT ![t] = None]
  /\ Goto(t, "run")
  /\ UNCHANGED <<k, m, taken, arg>>

-----------------------------------------------------------------------------
(* rt_mutex_release, rt_mutex_setprioceiling *)

\* One hold of several is given back.
ReleaseInner(t, x) ==
  /\ At(t, "run") /\ m.owner[x] = t /\ m.hold[x] > 1
  /\ m' = [m EXCEPT !.hold[x] = @ - 1]
  /\ UNCHANGED <<k, pc, taken, pend, arg>>

\* The last hold is given back.  The owner falls to the priority its other
\* mutexes give it, but only when it runs at the priority of the mutex or the
\* mutex has a ceiling; the first waiter becomes the owner.
Release(t, x) ==
  LET left == [taken EXCEPT ![t] = @ \ {x}]
      lower == m.ceiling[x] # NoPrio \/ k.prio[t] = m.priority[x]
      s == IF lower THEN ChangePriority(k, t, MutexPrio(m, left, t)) ELSE k
      next == Head(s.wait[x])
      handed == rt_thread_resume(s, next)
  IN  /\ At(t, "run") /\ m.owner[x] = t /\ m.hold[x] = 1
      /\ IF s.wait[x] # <<>>
         THEN /\ k' = handed
              /\ m' = [m EXCEPT !.owner[x] = next, !.hold[x] = 1,
                                !.priority[x] = FirstPrio(handed, x)]
              /\ taken' = Listed(left, next, x)
              /\ pend' = [pend EXCEPT ![next] = None]
              /\ Goto(t, "resched")
         ELSE /\ k' = s
              /\ m' = [m EXCEPT !.owner[x] = None, !.hold[x] = 0,
                                !.priority[x] = NoPrio]
              /\ taken' = left
              /\ IF lower THEN Goto(t, "resched") ELSE UNCHANGED pc
              /\ UNCHANGED pend
      /\ UNCHANGED arg

Reschedule(t) ==
  ScheduleThen(t, "resched", "run") /\ UNCHANGED <<m, taken, pend, arg>>

SetCeiling(t, x, p) ==
  LET mm == [m EXCEPT !.ceiling[x] = p]
  IN  /\ At(t, "run") /\ t # Idle /\ m.ceiling[x] # p
      /\ Become(IF m.owner[x] = None THEN [k |-> k, m |-> mm]
                ELSE RefreshOwner(k, mm, x))
      /\ UNCHANGED <<pc, taken, pend, arg>>

-----------------------------------------------------------------------------
(* rt_thread_delete of a thread that may wait for a mutex.  Nothing in the    *)
(* code takes a mutex from a thread that is deleted while it owns one, so     *)
(* only threads without a mutex are deleted here; nor are threads whose timer *)
(* runs, for what a timeout does in the window of the call is in Scheduler.   *)

Unattended(u) == \A t \in Thread : pc[t] = "detach" => arg[t] # u

Detach(t, u) ==
  /\ At(t, "run") /\ u \in Victim \ {t} /\ taken[u] = {}
  /\ k.stat[u] # "close" /\ u \notin k.armed /\ Unattended(u)
  /\ k' = rt_schedule_remove_thread(k, u)
  /\ arg' = [arg EXCEPT ![t] = u]
  /\ Goto(t, "detach")
  /\ UNCHANGED <<m, taken, pend>>

\* The thread is closed, dropped from the mutex it waited for
\* (rt_mutex_drop_thread), and queued for the idle thread.
DetachClose(t) ==
  LET u == arg[t]
      closed == [k EXCEPT !.armed = @ \ {u}, !.stat[u] = "close",
                          !.yield = @ \ {u}]
      c == IF pend[u] = None THEN [k |-> closed, m |-> m]
           ELSE DropWaiter(rt_list_remove(closed, u), pend[u], u)
  IN  /\ At(t, "detach")
      /\ k' = rt_thread_defunct_enqueue(c.k, u) /\ m' = c.m
      /\ pend' = [pend EXCEPT ![u] = None]
      /\ arg' = [arg EXCEPT ![t] = None]
      /\ Goto(t, "resched")
      /\ UNCHANGED taken

-----------------------------------------------------------------------------
Sleep(t) == SleepStart(t) /\ UNCHANGED <<m, taken, pend, arg>>

Tick == SliceEnd /\ UNCHANGED <<m, taken, pend, arg>>

Timeout(t) == TimerExpires(t) /\ UNCHANGED <<m, taken, pend, arg>>

\* The rest of a call already begun.
Continue(t) ==
  \/ TakeSchedule(t) \/ TakeSucceeds(t) \/ TakeFails(t) \/ ClearPending(t)
  \/ Reschedule(t) \/ DetachClose(t)

Take(t, x) ==
  \/ TakeAgain(t, x) \/ TakeFree(t, x)
  \/ \E timed \in BOOLEAN : TakeWait(t, x, timed)

Next ==
  \/ \E t \in Thread, x \in Mutexes :
       Take(t, x) \/ ReleaseInner(t, x) \/ Release(t, x)
         \/ \E p \in Ceiling : SetCeiling(t, x, p)
  \/ \E t \in Thread : Continue(t) \/ Sleep(t) \/ Timeout(t)
  \/ \E t, u \in Thread : Detach(t, u)
  \/ Tick

Spec == Init /\ [][Next]_vars

\* As in Scheduler, and owners release what they hold whenever they get to run;
\* a thread that owns nothing may run for ever.  Each line is an SF_vars or
\* WF_vars with the action's guard written in place of its ENABLED.
Fairness ==
  /\ WF_vars(Tick)
  /\ \A t \in Thread \ {Idle} :
       /\ []<>(k.cur = t /\ pc[t] # "run") => []<><<Continue(t)>>_vars
       /\ <>[](t \in k.armed) => []<><<Timeout(t)>>_vars
       /\ \A x \in Mutexes :
            []<>(At(t, "run") /\ m.owner[x] = t) => []<><<Release(t, x)>>_vars

FairSpec == Spec /\ Fairness

-----------------------------------------------------------------------------
(* Properties *)

Waiting(t, x) == Contains(k.wait[x], t)

\* A mutex without an owner has no hold, no waiter and no inherited priority:
\* a release with threads waiting hands the mutex over, however many of them
\* gave up or were deleted in the meantime.
FreeMeansIdle ==
  \A x \in Mutexes :
    /\ m.owner[x] = None <=> m.hold[x] = 0
    /\ m.owner[x] = None => k.wait[x] = <<>> /\ m.priority[x] = NoPrio
    /\ \A t \in Thread : x \in taken[t] <=> m.owner[x] = t

\* The links the code follows in both directions agree: a suspended thread is
\* on the list of its pending object, and a thread on a list has that object
\* pending.
PendingAgrees ==
  \A t \in Thread, x \in Mutexes :
    /\ Waiting(t, x) => pend[t] = x
    /\ pend[t] = x /\ k.stat[t] = "suspend" /\ pc[t] # "run" =>
         Waiting(t, x) \/ \E u \in Thread : pc[u] = "detach" /\ arg[u] = t

\* Whoever takes, releases, times out or is deleted, a mutex has its owner and
\* its waiters know what they wait for.
HandOverSound == FreeMeansIdle /\ PendingAgrees

\* Waiters stand in the order of their current priorities, also after
\* inheritance has changed them while they wait (_ipc_list_suspend,
\* _thread_update_priority).
WaitersSorted ==
  \A x \in Mutexes :
    \A i, j \in 1..Len(k.wait[x]) :
      i < j => k.prio[k.wait[x][i]] <= k.prio[k.wait[x][j]]

\* No owner runs at a lower priority than a thread that waits for one of its
\* mutexes, through any chain of owners: no unbounded priority inversion.
OwnerInherits ==
  \A x \in Mutexes : \A i \in 1..Len(k.wait[x]) :
    k.prio[m.owner[x]] <= k.prio[k.wait[x][i]]

\* Inheritance has gone all the way along the chain of owners: in every list the
\* most urgent waiter is the first, and the owner is as urgent as it is.
InheritanceSound == WaitersSorted /\ OwnerInherits

\* A take that comes back without an error comes back with the mutex.
TakeGivesOwnership ==
  \A t \in Thread : pc[t] = "woken" /\ k.cur = t /\ k.err[t] = "EOK" =>
    m.owner[arg[t]] = t

\* The boost is given back: a thread that holds no mutex runs at its own
\* priority; "it had already reset its priority" (ipc.c:1318).
BoostReturned ==
  \A t \in Thread : taken[t] = {} => k.prio[t] = InitPrio[t]

\* The owner of a mutex with a ceiling runs at the ceiling or above: "prio at
\* least be priority ceiling" (ipc.c:779).  The code does not keep it when a
\* release hands the mutex over.
CeilingHeld ==
  \A x \in Mutexes : m.owner[x] # None => k.prio[m.owner[x]] <= m.ceiling[x]

\* The thread that outranks all others gets every mutex it waits for, even
\* when a thread of a middle priority never blocks.
UrgentGetsMutex ==
  \A t \in Thread :
    (\A u \in Thread \ {t} : InitPrio[t] < InitPrio[u]) =>
      (pc[t] = "taking" ~> pc[t] = "run")
=============================================================================
