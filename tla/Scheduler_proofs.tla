-------------------------- MODULE Scheduler_proofs --------------------------
(***************************************************************************)
(* The invariants of Scheduler.tla, proved for any number of threads,      *)
(* priorities and nested critical sections.                                *)
(***************************************************************************)
EXTENDS Scheduler, Kernel_proofs

-----------------------------------------------------------------------------
(* The inductive invariant. *)

\* What the users of the thread API keep to: a thread is worked on by one
\* caller at a time, and a thread that sleeps is not detached.
Discipline == Exclusive /\ Victim \cap Sleeper = {}

\* The calls that hold another thread between two critical sections.
Serving == {"resume", "insert", "detach"}

OneServer ==
  \A t, u \in Thread : pc[t] \in Serving /\ pc[u] \in Serving /\ arg[t] = arg[u]
                       => t = u

\* While t is inside a call, in kernel state s: a thread it is about to make
\* ready is suspended, off every timer, and not current; a thread it is about
\* to close is alive, and, when it is another one, neither queued nor current;
\* the idle thread is about to free a closed thread.
ServesOK(s, t) ==
  /\ pc[t] \in {"resume", "insert"} =>
       s.stat[arg[t]] = "suspend" /\ arg[t] \notin s.armed /\ arg[t] # s.cur
  /\ pc[t] = "detach" =>
       /\ arg[t] \in Victim /\ s.stat[arg[t]] \notin {"none", "close"}
       /\ arg[t] # t => ~InReadyList(s, arg[t]) /\ arg[t] # s.cur
  /\ t = Idle /\ pc[t] = "reap" => s.stat[arg[t]] = "close"

\* A thread that closed itself, or is about to, has the scheduler unlocked and
\* nothing left to do but its last rt_schedule.
LastStepsOK(s) ==
  /\ s.stat[s.cur] = "close" => s.lock = 0 /\ pc[s.cur] \in {"exit", "resched"}
  /\ pc[s.cur] = "detach" /\ arg[s.cur] = s.cur => s.lock = 0

\* The kernel state is sound, no thread waits for an IPC object, and only
\* threads that sleep have a timer.
KernelOK(s) ==
  /\ KernelInv(s)
  /\ \A t \in Thread : ~WaitsSomewhere(s, t)
  /\ s.armed \subseteq Sleeper

\* At most one thread is ever detached by others.
LoneVictim == \A u, v \in Victim : u = v

\* Then a ready thread is queued or being detached, and the thread that
\* detaches it is alive: nobody detaches the one who does.
QueuedOK(s) ==
  LoneVictim =>
    \A t \in Thread :
      /\ s.stat[t] = "ready" => InReadyList(s, t) \/ BeingDetached(t)
      /\ pc[t] = "detach" => s.stat[t] \notin {"none", "close"}

SchedInv ==
  /\ TypeOK /\ OneServer
  /\ KernelOK(k) /\ LastStepsOK(k) /\ QueuedOK(k)
  /\ \A t \in Thread : ServesOK(k, t)

-----------------------------------------------------------------------------
(* Control and rt_schedule. *)

\* A thread that goes on alone serves nobody.
LEMMA GotoControl ==
  ASSUME TypeOK, OneServer, NEW t \in Thread, NEW l \in Label \ Serving, Goto(t, l)
  PROVE  /\ pc' \in [Thread -> Label] /\ arg' \in [Thread -> Thread]
         /\ pc'[t] = l /\ arg'[t] = t
         /\ \A x \in Thread : x # t => pc'[x] = pc[x] /\ arg'[x] = arg[x]
         /\ OneServer'
<1>1. /\ pc' \in [Thread -> Label] /\ arg' \in [Thread -> Thread]
      /\ pc'[t] = l /\ arg'[t] = t
      /\ \A x \in Thread : x # t => pc'[x] = pc[x] /\ arg'[x] = arg[x]
  BY DEF TypeOK, Goto
<1> QED
  BY <1>1 DEF OneServer

\* A thread that starts to work on u is the only one that does.
LEMMA CallControl ==
  ASSUME TypeOK, OneServer, NEW t \in Thread, NEW u \in Thread, NEW l \in Label,
         Call(t, l, u),
         \A x \in Thread : x # t /\ pc[x] \in Serving => arg[x] # u
  PROVE  /\ pc' \in [Thread -> Label] /\ arg' \in [Thread -> Thread]
         /\ pc'[t] = l /\ arg'[t] = u
         /\ \A x \in Thread : x # t => pc'[x] = pc[x] /\ arg'[x] = arg[x]
         /\ OneServer'
<1>1. /\ pc' \in [Thread -> Label] /\ arg' \in [Thread -> Thread]
      /\ pc'[t] = l /\ arg'[t] = u
      /\ \A x \in Thread : x # t => pc'[x] = pc[x] /\ arg'[x] = arg[x]
  BY DEF TypeOK, Call
<1> QED
  BY <1>1 DEF OneServer

\* What rt_schedule preserves; a closed thread is not current afterwards.
LEMMA AfterSchedule ==
  ASSUME TypeOK, NEW s, KernelOK(s), LastStepsOK(s), QueuedOK(s),
         \A t \in Thread : ServesOK(s, t)
  PROVE  LET r == rt_schedule(s)
         IN  /\ KernelOK(r) /\ LastStepsOK(r) /\ QueuedOK(r)
             /\ \A t \in Thread : ServesOK(r, t)
             /\ r.stat[r.cur] # "close"
<1> DEFINE r == rt_schedule(s)
<1>1. KernelInv(r) /\ Scheduled(r, s)
  BY ScheduleStep DEF KernelOK
<1> HIDE DEF r
<1>2. /\ s.cur \in Thread /\ r.cur \in Thread
      /\ StatFacts(s) /\ StatFacts(r)
  BY <1>1 DEF KernelOK, KernelInv, ListFacts, KernelState
<1>3. KernelOK(r)
  BY <1>1 DEF KernelOK, Scheduled
<1>4. r.stat[r.cur] # "close"
  BY <1>1, <1>2 DEF Scheduled, StatFacts, LastStepsOK
<1>5. LastStepsOK(r)
  BY <1>1, <1>2, <1>4 DEF Scheduled, LastStepsOK
<1>6. ASSUME NEW t \in Thread PROVE ServesOK(r, t)
  <2>1. arg[t] \in Thread
    BY DEF TypeOK
  <2> QED BY <1>1, <1>2, <2>1 DEF Scheduled, StatFacts, ServesOK
<1>7. QueuedOK(r)
  BY <1>1 DEF Scheduled, QueuedOK
<1> QED
  BY <1>3, <1>4, <1>5, <1>6, <1>7 DEF r

\* What waking u preserves when nobody is working on u.
LEMMA AfterWake ==
  ASSUME TypeOK, NEW s, KernelOK(s), LastStepsOK(s), QueuedOK(s),
         \A t \in Thread : ServesOK(s, t),
         NEW u \in Thread, s.stat[u] = "suspend",
         \A t \in Thread : pc[t] \in Serving => arg[t] # u,
         NEW r, Resumed(r, s, u)
  PROVE  /\ KernelOK(r) /\ LastStepsOK(r) /\ QueuedOK(r)
         /\ \A t \in Thread : ServesOK(r, t)
<1>1. /\ s.stat \in [Thread -> Stat] /\ s.cur \in Thread
      /\ StatFacts(s)
  BY DEF KernelOK, KernelInv, ListFacts, KernelState
<1>2. \A x \in Thread : x # u => r.stat[x] = s.stat[x]
  BY <1>1 DEF Resumed
<1>3. r.stat[u] \in {"ready", "running"}
  BY <1>1 DEF Resumed
<1>4. KernelOK(r)
  BY DEF KernelOK, Resumed
<1>5. LastStepsOK(r)
  BY <1>1, <1>2, <1>3 DEF LastStepsOK, Resumed
<1>6. ASSUME NEW t \in Thread PROVE ServesOK(r, t)
  <2>1. arg[t] \in Thread
    BY DEF TypeOK
  <2> QED BY <1>2, <2>1 DEF ServesOK, Resumed, Serving
<1>7. QueuedOK(r)
  <2>1. r.stat[u] = "ready" => u # s.cur
    BY <1>1 DEF Resumed
  <2> QED BY <1>2, <1>3, <2>1 DEF QueuedOK, Resumed
<1> QED
  BY <1>4, <1>5, <1>6, <1>7

-----------------------------------------------------------------------------
(* One lemma per action: it preserves SchedInv. *)

\* What SchedInv says of the running thread t, in the terms the steps use.
LEMMA RunningThread ==
  ASSUME SchedInv, NEW t \in Thread, k.cur = t
  PROVE  /\ k \in KernelState /\ k.stat \in [Thread -> Stat]
         /\ KernelInv(k) /\ ListFacts(k) /\ StatFacts(k)
         /\ pc \in [Thread -> Label] /\ arg \in [Thread -> Thread]
         /\ pc[t] \notin {"exit", "resched"} => k.stat[t] # "close"
         /\ ~InReadyList(k, t)
BY DEF SchedInv, TypeOK, KernelOK, KernelInv, ListFacts, KernelState, LastStepsOK, StatFacts

\* An action that changes only fields no list, stat or timer depends on, and
\* lets t go on.
LEMMA FieldStep ==
  ASSUME SchedInv, NEW t \in Thread, k.cur = t, k.stat[t] # "close", pc[t] # "detach",
         NEW l \in Label \ (Serving \union {"reap"}), Goto(t, l), repri' = repri,
         k' \in KernelState, SameLists(k', k), k'.stat = k.stat, k'.prio = k.prio,
         k'.armed = k.armed, k'.cur = k.cur
  PROVE  SchedInv'
<1>1. TypeOK /\ OneServer /\ KernelInv(k) /\ ListFacts(k) /\ StatFacts(k)
  BY DEF SchedInv, KernelOK, KernelInv
<1>2. /\ ListFacts(k')
      /\ \A x : InReadyList(k', x) <=> InReadyList(k, x)
      /\ \A x : WaitsSomewhere(k', x) <=> WaitsSomewhere(k, x)
      /\ \A x : Dead(k', x) <=> Dead(k, x)
  BY <1>1, FieldsChange
<1>3. KernelOK(k')
  <2>1. StatFacts(k')
    BY <1>1, <1>2 DEF StatFacts
  <2> QED BY <1>2, <2>1 DEF SchedInv, KernelOK, KernelInv
<1>4. /\ pc' \in [Thread -> Label] /\ arg' \in [Thread -> Thread]
      /\ pc'[t] = l /\ arg'[t] = t
      /\ \A x \in Thread : x # t => pc'[x] = pc[x] /\ arg'[x] = arg[x]
      /\ OneServer'
  BY <1>1, GotoControl
<1>5. TypeOK'
  BY <1>1, <1>4 DEF TypeOK
<1>6. LastStepsOK(k)'
  BY <1>4 DEF LastStepsOK, Serving
<1>7. ASSUME NEW x \in Thread PROVE ServesOK(k, x)'
  BY <1>2, <1>4 DEF SchedInv, ServesOK, Serving
<1>8. QueuedOK(k)'
  BY <1>2, <1>4 DEF SchedInv, QueuedOK, BeingDetached, Serving
<1> QED
  BY <1>8, <1>3, <1>4, <1>5, <1>6, <1>7 DEF SchedInv, KernelOK

\* An action that ends in rt_schedule, with t going on to label l.
LEMMA ScheduleGoto ==
  ASSUME SchedInv, NEW t \in Thread, k.cur = t, pc[t] # "detach",
         NEW l \in Label \ (Serving \union {"reap"}), Goto(t, l), ThenSchedule(k)
  PROVE  SchedInv'
<1>1. TypeOK /\ OneServer
  BY DEF SchedInv
<1>2. /\ KernelOK(k') /\ LastStepsOK(k') /\ QueuedOK(k')
      /\ \A x \in Thread : ServesOK(k', x)
      /\ k'.stat[k'.cur] # "close"
  BY AfterSchedule DEF SchedInv, ThenSchedule
<1>3. /\ pc' \in [Thread -> Label] /\ arg' \in [Thread -> Thread]
      /\ pc'[t] = l /\ arg'[t] = t
      /\ \A x \in Thread : x # t => pc'[x] = pc[x] /\ arg'[x] = arg[x]
      /\ OneServer'
  BY <1>1, GotoControl
<1>4. TypeOK'
  BY <1>1, <1>2, <1>3 DEF TypeOK, KernelOK, KernelInv, ListFacts, ThenSchedule
<1>5. LastStepsOK(k)'
  <2>1. k'.cur \in Thread
    BY <1>2 DEF KernelOK, KernelInv, ListFacts, KernelState
  <2> QED BY <1>2, <1>3, <2>1 DEF LastStepsOK, Serving
<1>6. ASSUME NEW x \in Thread PROVE ServesOK(k, x)'
  BY <1>2, <1>3 DEF ServesOK, Serving
<1>7. QueuedOK(k)'
  BY <1>2, <1>3 DEF QueuedOK, BeingDetached, Serving
<1> QED
  BY <1>7, <1>2, <1>3, <1>4, <1>5, <1>6 DEF SchedInv, KernelOK

\* The same when no thread moves on in its own code.
LEMMA ScheduleStay ==
  ASSUME SchedInv, NEW s, KernelOK(s), LastStepsOK(s), QueuedOK(s),
         \A x \in Thread : ServesOK(s, x),
         k' = rt_schedule(s), repri' \in BOOLEAN, UNCHANGED <<pc, arg>>
  PROVE  SchedInv'
<1>1. TypeOK /\ OneServer
  BY DEF SchedInv
<1>2. /\ KernelOK(k') /\ LastStepsOK(k') /\ QueuedOK(k')
      /\ \A x \in Thread : ServesOK(k', x)
  BY <1>1, AfterSchedule
<1>3. TypeOK'
  BY <1>1, <1>2 DEF TypeOK, KernelOK, KernelInv, ListFacts
<1> QED
  BY <1>1, <1>2, <1>3 DEF SchedInv, OneServer, KernelOK, LastStepsOK, ServesOK, QueuedOK, BeingDetached

\* rt_thread_init writes a block that no list holds.
LEMMA StepCreate ==
  ASSUME SchedInv, NEW t \in Thread, NEW u \in Thread, Create(t, u)
  PROVE  SchedInv'
<1>1. /\ k.cur = t /\ pc[t] = "run" /\ k.stat[u] = "none"
      /\ k' = [k EXCEPT !.stat[u] = "init", !.prio[u] = InitPrio[u], !.err[u] = "EOK"]
      /\ pc' = [pc EXCEPT ![u] = "run"] /\ arg' = arg /\ repri' = repri
  BY DEF Create, At
<1>2. /\ k \in KernelState /\ k.stat \in [Thread -> Stat]
      /\ ListFacts(k) /\ StatFacts(k)
      /\ pc \in [Thread -> Label] /\ arg \in [Thread -> Thread]
  BY <1>1, RunningThread
<1>3. ~InReadyList(k, u) /\ u \notin k.armed /\ u # k.cur /\ u # Idle /\ ~Dead(k, u)
  BY <1>1, <1>2 DEF StatFacts
<1>4. PICK p \in Prio : p = InitPrio[u]
  BY InitPrioAssumption
<1> DEFINE q == [k EXCEPT !.prio[u] = p]
<1>16. q = [k EXCEPT !.prio[u] = p]
  OBVIOUS
<1> HIDE DEF q
<1>5. /\ ListFacts(q) /\ SameLists(q, k) /\ q.stat = k.stat
      /\ q.armed = k.armed /\ q.cur = k.cur /\ q.lock = k.lock
      /\ \A x : InReadyList(q, x) <=> InReadyList(k, x)
      /\ \A x : WaitsSomewhere(q, x) <=> WaitsSomewhere(k, x)
      /\ \A x : Dead(q, x) <=> Dead(k, x)
  BY <1>2, <1>3, <1>16, PriorityChange
<1>6. k' = [q EXCEPT !.stat[u] = "init", !.err[u] = "EOK"]
  BY <1>1, <1>2, <1>4, <1>16 DEF KernelState
<1>7. /\ k' \in KernelState /\ SameLists(k', q)
      /\ k'.stat = [k.stat EXCEPT ![u] = "init"]
      /\ k'.armed = k.armed /\ k'.cur = k.cur /\ k'.lock = k.lock /\ k'.prio = q.prio
  BY <1>5, <1>6 DEF ListFacts, KernelState, SameLists, Stat, Error
<1>8. /\ ListFacts(k')
      /\ \A x : InReadyList(k', x) <=> InReadyList(k, x)
      /\ \A x : WaitsSomewhere(k', x) <=> WaitsSomewhere(k, x)
      /\ \A x : Dead(k', x) <=> Dead(k, x)
  BY <1>5, <1>7, FieldsChange
<1>9. \A x \in Thread : k'.stat[x] = IF x = u THEN "init" ELSE k.stat[x]
  BY <1>2, <1>7
<1>10. KernelOK(k')
  <2>1. k.cur \in Thread /\ k.armed \subseteq Thread
    BY <1>2 DEF KernelState
  <2>2. StatFacts(k')
    BY <1>2, <1>3, <1>7, <1>8, <1>9, <2>1, ThreadAssumption DEF StatFacts
  <2> QED BY <1>7, <1>8, <2>2 DEF SchedInv, KernelOK, KernelInv
<1>11. \A x \in Thread : pc'[x] = IF x = u THEN "run" ELSE pc[x]
  BY <1>1, <1>2
<1>12. TypeOK' /\ OneServer'
  BY <1>1, <1>7, <1>11 DEF SchedInv, TypeOK, OneServer, Serving, Label
<1>13. LastStepsOK(k)'
  BY <1>1, <1>2, <1>3, <1>7, <1>9, <1>11 DEF SchedInv, LastStepsOK, KernelState
<1>14. ASSUME NEW x \in Thread PROVE ServesOK(k, x)'
  <2>1. arg[x] \in Thread
    BY <1>2
  <2> QED BY <1>1, <1>7, <1>8, <1>9, <1>11, <2>1 DEF SchedInv, ServesOK
<1>15. QueuedOK(k)'
  BY <1>1, <1>8, <1>9, <1>11 DEF SchedInv, QueuedOK, BeingDetached
<1> QED
  BY <1>15, <1>10, <1>12, <1>13, <1>14 DEF SchedInv, KernelOK

\* rt_thread_startup of a thread marks it suspended before it resumes it.
LEMMA StepStartup ==
  ASSUME SchedInv, Discipline, NEW t \in Thread, NEW u \in Thread, Startup(t, u)
  PROVE  SchedInv'
<1>1. /\ k.cur = t /\ pc[t] = "run" /\ k.stat[u] = "init" /\ Unattended(u)
      /\ k' = [k EXCEPT !.stat[u] = "suspend", !.yield = @ \ {u}]
      /\ Call(t, "resume", u) /\ repri' = repri
  BY DEF Startup, At
<1>2. /\ k \in KernelState /\ k.stat \in [Thread -> Stat]
      /\ ListFacts(k) /\ StatFacts(k)
      /\ pc \in [Thread -> Label] /\ arg \in [Thread -> Thread]
  BY <1>1, RunningThread
<1>3. ~InReadyList(k, u) /\ u \notin k.armed /\ u # k.cur /\ u # Idle /\ ~Dead(k, u)
  BY <1>1, <1>2 DEF StatFacts
<1>4. \A x \in Thread : pc[x] \in Serving => arg[x] # u
  BY <1>1 DEF Unattended, Discipline, Serving
<1>5. /\ k' \in KernelState /\ SameLists(k', k)
      /\ k'.stat = [k.stat EXCEPT ![u] = "suspend"]
      /\ k'.armed = k.armed /\ k'.cur = k.cur /\ k'.lock = k.lock /\ k'.prio = k.prio
  BY <1>1, <1>2 DEF KernelState, SameLists, Stat
<1>6. /\ ListFacts(k')
      /\ \A x : InReadyList(k', x) <=> InReadyList(k, x)
      /\ \A x : WaitsSomewhere(k', x) <=> WaitsSomewhere(k, x)
      /\ \A x : Dead(k', x) <=> Dead(k, x)
  BY <1>2, <1>5, FieldsChange
<1>7. \A x \in Thread : k'.stat[x] = IF x = u THEN "suspend" ELSE k.stat[x]
  BY <1>2, <1>5
<1>8. KernelOK(k')
  <2>1. k.cur \in Thread /\ k.armed \subseteq Thread
    BY <1>2 DEF KernelState
  <2>2. StatFacts(k')
    BY <1>2, <1>3, <1>5, <1>6, <1>7, <2>1, ThreadAssumption DEF StatFacts
  <2> QED BY <1>5, <1>6, <2>2 DEF SchedInv, KernelOK, KernelInv
<1>9. /\ pc' \in [Thread -> Label] /\ arg' \in [Thread -> Thread]
      /\ pc'[t] = "resume" /\ arg'[t] = u
      /\ \A x \in Thread : x # t => pc'[x] = pc[x] /\ arg'[x] = arg[x]
      /\ OneServer'
  BY <1>1, <1>4, CallControl DEF SchedInv, Label
<1>10. TypeOK'
  BY <1>1, <1>5, <1>9 DEF SchedInv, TypeOK
<1>11. LastStepsOK(k)'
  BY <1>1, <1>3, <1>5, <1>7, <1>9 DEF SchedInv, LastStepsOK
<1>12. ASSUME NEW x \in Thread PROVE ServesOK(k, x)'
  <2>1. CASE x = t
    BY <1>3, <1>5, <1>7, <1>9, <2>1 DEF ServesOK
  <2>2. CASE x # t
    <3>1. arg[x] \in Thread /\ (pc[x] \in Serving => arg[x] # u)
      BY <1>2, <1>4
    <3> QED BY <1>1, <1>5, <1>6, <1>7, <1>9, <2>2, <3>1 DEF SchedInv, ServesOK, Serving
  <2> QED BY <2>1, <2>2
<1>13. QueuedOK(k)'
  BY <1>1, <1>6, <1>7, <1>9 DEF SchedInv, QueuedOK, BeingDetached
<1> QED
  BY <1>13, <1>8, <1>9, <1>10, <1>11, <1>12 DEF SchedInv, KernelOK

\* The first half of rt_thread_resume unlinks the thread and stops its timer.
LEMMA StepResumeOther ==
  ASSUME SchedInv, Discipline, NEW t \in Thread, NEW u \in Thread, ResumeOther(t, u)
  PROVE  SchedInv'
<1>1. /\ k.cur = t /\ pc[t] = "run" /\ k.stat[u] = "suspend" /\ pc[u] # "run"
      /\ Unattended(u) /\ k' = ResumeUnlink(k, u)
      /\ Call(t, "insert", u) /\ repri' = repri
  BY DEF ResumeOther, SelfSuspended, At
<1>2. /\ k.stat \in [Thread -> Stat] /\ KernelInv(k)
      /\ pc \in [Thread -> Label] /\ arg \in [Thread -> Thread]
  BY <1>1, RunningThread
<1>3. \A x \in Thread : pc[x] \in Serving => arg[x] # u
  BY <1>1 DEF Unattended, Discipline, Serving
<1>4. /\ KernelInv(k') /\ k'.stat = k.stat /\ k'.armed = k.armed \ {u}
      /\ k'.cur = k.cur /\ k'.lock = k.lock
      /\ \A x : InReadyList(k', x) <=> InReadyList(k, x)
      /\ \A x : WaitsSomewhere(k', x) => WaitsSomewhere(k, x)
  BY <1>1, <1>2, UnlinkSuspended
<1>5. /\ pc' \in [Thread -> Label] /\ arg' \in [Thread -> Thread]
      /\ pc'[t] = "insert" /\ arg'[t] = u
      /\ \A x \in Thread : x # t => pc'[x] = pc[x] /\ arg'[x] = arg[x]
      /\ OneServer'
  BY <1>1, <1>3, CallControl DEF SchedInv, Label
<1>6. TypeOK'
  BY <1>1, <1>4, <1>5 DEF SchedInv, TypeOK, KernelInv, ListFacts
<1>7. KernelOK(k')
  BY <1>4 DEF SchedInv, KernelOK
<1>8. LastStepsOK(k)'
  BY <1>1, <1>4, <1>5 DEF SchedInv, LastStepsOK
<1>9. ASSUME NEW x \in Thread PROVE ServesOK(k, x)'
  BY <1>1, <1>4, <1>5 DEF SchedInv, ServesOK
<1>10. QueuedOK(k)'
  BY <1>1, <1>4, <1>5 DEF SchedInv, QueuedOK, BeingDetached
<1> QED
  BY <1>10, <1>5, <1>6, <1>7, <1>8, <1>9 DEF SchedInv, KernelOK

\* The same for the resume inside rt_thread_startup.
LEMMA StepResumeStarted ==
  ASSUME SchedInv, NEW t \in Thread, ResumeStarted(t)
  PROVE  SchedInv'
<1> DEFINE u == arg[t]
<1>1. k.cur = t /\ pc[t] = "resume" /\ repri' = repri
  BY DEF ResumeStarted, At
<1>2. /\ k.stat \in [Thread -> Stat] /\ KernelInv(k)
      /\ pc \in [Thread -> Label] /\ arg \in [Thread -> Thread] /\ u \in Thread
  BY <1>1, RunningThread
<1>3. k.stat[u] = "suspend" /\ u # k.cur
  BY <1>1 DEF SchedInv, ServesOK
<1>4. k' = ResumeUnlink(k, u) /\ Call(t, "insert", u)
  BY <1>3 DEF ResumeStarted
<1>5. \A x \in Thread : x # t /\ pc[x] \in Serving => arg[x] # u
  BY <1>1 DEF SchedInv, OneServer, Serving
<1> HIDE DEF u
<1>6. /\ KernelInv(k') /\ k'.stat = k.stat /\ k'.armed = k.armed \ {u}
      /\ k'.cur = k.cur /\ k'.lock = k.lock
      /\ \A x : InReadyList(k', x) <=> InReadyList(k, x)
      /\ \A x : WaitsSomewhere(k', x) => WaitsSomewhere(k, x)
  BY <1>2, <1>3, <1>4, UnlinkSuspended
<1>7. /\ pc' \in [Thread -> Label] /\ arg' \in [Thread -> Thread]
      /\ pc'[t] = "insert" /\ arg'[t] = u
      /\ \A x \in Thread : x # t => pc'[x] = pc[x] /\ arg'[x] = arg[x]
      /\ OneServer'
  BY <1>2, <1>4, <1>5, CallControl DEF SchedInv, Label
<1>8. TypeOK'
  BY <1>1, <1>6, <1>7 DEF SchedInv, TypeOK, KernelInv, ListFacts
<1>9. KernelOK(k')
  BY <1>6 DEF SchedInv, KernelOK
<1>10. LastStepsOK(k)'
  BY <1>1, <1>6, <1>7 DEF SchedInv, LastStepsOK
<1>11. ASSUME NEW x \in Thread PROVE ServesOK(k, x)'
  BY <1>1, <1>3, <1>6, <1>7 DEF SchedInv, ServesOK
<1>12. QueuedOK(k)'
  BY <1>1, <1>6, <1>7 DEF SchedInv, QueuedOK, BeingDetached
<1> QED
  BY <1>12, <1>7, <1>8, <1>9, <1>10, <1>11 DEF SchedInv, KernelOK

\* The second half of rt_thread_resume inserts a thread that is on no list.
LEMMA StepResumeInsert ==
  ASSUME SchedInv, NEW t \in Thread, ResumeInsert(t)
  PROVE  SchedInv'
<1> DEFINE u == arg[t]
<1>1. /\ k.cur = t /\ pc[t] = "insert" /\ repri' = repri
      /\ k' = rt_schedule_insert_thread(k, u) /\ Goto(t, "resched")
  BY DEF ResumeInsert, At
<1>2. /\ k.stat \in [Thread -> Stat] /\ KernelInv(k) /\ StatFacts(k)
      /\ pc \in [Thread -> Label] /\ arg \in [Thread -> Thread] /\ u \in Thread
  BY <1>1, RunningThread
<1>3. k.stat[u] = "suspend" /\ u \notin k.armed /\ u # k.cur
  BY <1>1 DEF SchedInv, ServesOK
<1>4. \A x \in Thread : x # t /\ pc[x] \in Serving => arg[x] # u
  BY <1>1 DEF SchedInv, OneServer, Serving
<1> HIDE DEF u
<1>5. ~InReadyList(k, u) /\ ~Dead(k, u)
  BY <1>2, <1>3 DEF StatFacts
<1>6. /\ KernelInv(k')
      /\ k'.stat = [k.stat EXCEPT ![u] = IF u = k.cur THEN "running" ELSE "ready"]
      /\ k'.armed = k.armed /\ k'.cur = k.cur /\ k'.lock = k.lock /\ k'.prio = k.prio
      /\ \A x : InReadyList(k', x) <=> InReadyList(k, x) \/ (x = u /\ u # k.cur)
      /\ \A x : WaitsSomewhere(k', x) <=> WaitsSomewhere(k, x)
  BY <1>1, <1>2, <1>3, <1>5, WakeThread
<1>7. \A x \in Thread : k'.stat[x] = IF x = u THEN "ready" ELSE k.stat[x]
  BY <1>2, <1>3, <1>6
<1>8. /\ pc' \in [Thread -> Label] /\ arg' \in [Thread -> Thread]
      /\ pc'[t] = "resched" /\ arg'[t] = t
      /\ \A x \in Thread : x # t => pc'[x] = pc[x] /\ arg'[x] = arg[x]
      /\ OneServer'
  BY <1>1, GotoControl DEF SchedInv, Label, Serving
<1>9. TypeOK'
  BY <1>1, <1>6, <1>8 DEF SchedInv, TypeOK, KernelInv, ListFacts
<1>10. KernelOK(k')
  BY <1>6 DEF SchedInv, KernelOK
<1>11. LastStepsOK(k)'
  BY <1>1, <1>3, <1>6, <1>7, <1>8 DEF SchedInv, LastStepsOK
<1>12. ASSUME NEW x \in Thread PROVE ServesOK(k, x)'
  <2>1. arg[x] \in Thread
    BY <1>2
  <2> QED BY <1>1, <1>3, <1>4, <1>6, <1>7, <1>8, <2>1 DEF SchedInv, ServesOK, Serving
<1>13. QueuedOK(k)'
  BY <1>1, <1>3, <1>6, <1>7, <1>8 DEF SchedInv, QueuedOK, BeingDetached
<1> QED
  BY <1>13, <1>8, <1>9, <1>10, <1>11, <1>12 DEF SchedInv, KernelOK

\* A thread that suspends itself leaves its ready list.
LEMMA StepSuspendSelf ==
  ASSUME SchedInv, NEW t \in Thread, SuspendSelf(t)
  PROVE  SchedInv'
<1>1. /\ k.cur = t /\ pc[t] = "run" /\ t \in Sleeper /\ k.lock = 0
      /\ k' = rt_thread_suspend(k, t) /\ Goto(t, "resched") /\ repri' = repri
  BY DEF SuspendSelf, At
<1>2. /\ k.stat \in [Thread -> Stat] /\ KernelInv(k)
      /\ pc \in [Thread -> Label] /\ arg \in [Thread -> Thread]
      /\ k.stat[t] # "close" /\ t # Idle
  BY <1>1, RunningThread, RoleAssumption
<1>3. /\ KernelInv(k') /\ k'.stat = [k.stat EXCEPT ![t] = "suspend"]
      /\ k'.armed \subseteq k.armed /\ k'.cur = k.cur /\ k'.lock = k.lock
      /\ \A x : InReadyList(k', x) <=> InReadyList(k, x)
      /\ \A x : WaitsSomewhere(k', x) => WaitsSomewhere(k, x)
  BY <1>1, <1>2, SuspendCurrent
<1>4. \A x \in Thread : k'.stat[x] = IF x = t THEN "suspend" ELSE k.stat[x]
  BY <1>2, <1>3
<1>5. /\ pc' \in [Thread -> Label] /\ arg' \in [Thread -> Thread]
      /\ pc'[t] = "resched" /\ arg'[t] = t
      /\ \A x \in Thread : x # t => pc'[x] = pc[x] /\ arg'[x] = arg[x]
      /\ OneServer'
  BY <1>1, GotoControl DEF SchedInv, Label, Serving
<1>6. TypeOK'
  BY <1>1, <1>3, <1>5 DEF SchedInv, TypeOK, KernelInv, ListFacts
<1>7. KernelOK(k')
  BY <1>3 DEF SchedInv, KernelOK
<1>8. LastStepsOK(k)'
  BY <1>1, <1>3, <1>4, <1>5 DEF SchedInv, LastStepsOK
<1>9. ASSUME NEW x \in Thread PROVE ServesOK(k, x)'
  <2>1. arg[x] \in Thread
    BY <1>2
  <2> QED BY <1>1, <1>2, <1>3, <1>4, <1>5, <2>1 DEF SchedInv, ServesOK
<1>10. QueuedOK(k)'
  BY <1>1, <1>3, <1>4, <1>5 DEF SchedInv, QueuedOK, BeingDetached
<1> QED
  BY <1>10, <1>5, <1>6, <1>7, <1>8, <1>9 DEF SchedInv, KernelOK

\* rt_thread_sleep suspends the thread and starts its timer.
LEMMA StepSleep ==
  ASSUME SchedInv, NEW t \in Thread, Sleep(t)
  PROVE  SchedInv'
<1> DEFINE c == [k EXCEPT !.err[t] = "EOK"]
           q == rt_thread_suspend(c, t)
<1>1. /\ k.cur = t /\ pc[t] = "run" /\ t \in Sleeper /\ k.lock = 0
      /\ k' = [q EXCEPT !.armed = @ \union {t}] /\ Goto(t, "sleepset") /\ repri' = repri
  BY DEF Sleep, At
<1>2. /\ k \in KernelState /\ k.stat \in [Thread -> Stat]
      /\ KernelInv(k) /\ ListFacts(k) /\ StatFacts(k)
      /\ pc \in [Thread -> Label] /\ arg \in [Thread -> Thread]
      /\ k.stat[t] # "close" /\ t # Idle
  BY <1>1, RunningThread, RoleAssumption
<1>3. /\ c \in KernelState /\ SameLists(c, k) /\ c.stat = k.stat
      /\ c.armed = k.armed /\ c.cur = k.cur /\ c.lock = k.lock /\ c.prio = k.prio
  BY <1>2 DEF KernelState, SameLists, Error
<1> HIDE DEF c
<1>4. /\ ListFacts(c)
      /\ \A x : InReadyList(c, x) <=> InReadyList(k, x)
      /\ \A x : WaitsSomewhere(c, x) <=> WaitsSomewhere(k, x)
      /\ \A x : Dead(c, x) <=> Dead(k, x)
  BY <1>2, <1>3, FieldsChange
<1>5. KernelInv(c)
  BY <1>2, <1>3, <1>4 DEF KernelInv, StatFacts
<1>6. /\ KernelInv(q) /\ q.stat = [c.stat EXCEPT ![t] = "suspend"]
      /\ q.armed \subseteq c.armed /\ q.cur = c.cur /\ q.lock = c.lock
      /\ \A x : InReadyList(q, x) <=> InReadyList(c, x)
      /\ \A x : WaitsSomewhere(q, x) => WaitsSomewhere(c, x)
  <2>1. c.cur = t /\ c.stat[c.cur] # "close" /\ c.cur # Idle
    BY <1>1, <1>2, <1>3
  <2> QED BY <1>5, <2>1, SuspendCurrent
<1> HIDE DEF q
<1>7. /\ k' \in KernelState /\ SameLists(k', q) /\ k'.stat = q.stat
      /\ k'.armed = q.armed \union {t} /\ k'.cur = q.cur /\ k'.lock = q.lock
      /\ k'.prio = q.prio
  BY <1>1, <1>6 DEF KernelInv, ListFacts, KernelState, SameLists
<1>8. /\ ListFacts(k')
      /\ \A x : InReadyList(k', x) <=> InReadyList(q, x)
      /\ \A x : WaitsSomewhere(k', x) <=> WaitsSomewhere(q, x)
      /\ \A x : Dead(k', x) <=> Dead(q, x)
  BY <1>6, <1>7, FieldsChange DEF KernelInv
<1>9. \A x \in Thread : k'.stat[x] = IF x = t THEN "suspend" ELSE k.stat[x]
  BY <1>2, <1>3, <1>6, <1>7
<1>10. KernelOK(k')
  <2>1. StatFacts(k')
    BY <1>6, <1>7, <1>8, <1>9 DEF KernelInv, StatFacts
  <2> QED BY <1>1, <1>3, <1>4, <1>6, <1>7, <1>8, <2>1 DEF SchedInv, KernelOK, KernelInv
<1>11. /\ pc' \in [Thread -> Label] /\ arg' \in [Thread -> Thread]
       /\ pc'[t] = "sleepset" /\ arg'[t] = t
       /\ \A x \in Thread : x # t => pc'[x] = pc[x] /\ arg'[x] = arg[x]
       /\ OneServer'
  BY <1>1, GotoControl DEF SchedInv, Label, Serving
<1>12. TypeOK'
  BY <1>1, <1>7, <1>11 DEF SchedInv, TypeOK
<1>13. LastStepsOK(k)'
  BY <1>1, <1>3, <1>6, <1>7, <1>9, <1>11 DEF SchedInv, LastStepsOK
<1>14. ASSUME NEW x \in Thread PROVE ServesOK(k, x)'
  <2>1. CASE x = t
    BY <1>11, <2>1 DEF ServesOK
  <2>2. CASE x # t
    <3>1. /\ arg[x] \in Thread /\ ServesOK(k, x) /\ pc'[x] = pc[x] /\ arg'[x] = arg[x]
          /\ k'.cur = t /\ k'.armed \subseteq k.armed \union {t} /\ k.cur = t
          /\ \A y : InReadyList(k', y) <=> InReadyList(k, y)
      BY <1>1, <1>2, <1>3, <1>4, <1>6, <1>7, <1>8, <1>11, <2>2 DEF SchedInv
    <3> QED BY <1>2, <1>9, <3>1 DEF ServesOK
  <2> QED BY <2>1, <2>2
<1>15. QueuedOK(k)'
  <2>1. \A x : InReadyList(k', x) <=> InReadyList(k, x)
    BY <1>4, <1>6, <1>8
  <2>2. \A x \in Thread : BeingDetached(x) => BeingDetached(x)'
    BY <1>1, <1>11 DEF BeingDetached
  <2>3. \A x \in Thread : pc'[x] = "detach" => pc[x] = "detach"
    BY <1>11
  <2> QED BY <1>9, <2>1, <2>2, <2>3 DEF SchedInv, QueuedOK
<1> QED
  BY <1>15, <1>10, <1>11, <1>12, <1>13, <1>14 DEF SchedInv, KernelOK

\* The late write of the error field disturbs no list.
LEMMA StepSleepSetError ==
  ASSUME SchedInv, NEW t \in Thread, SleepSetError(t)
  PROVE  SchedInv'
<1>1. /\ k.cur = t /\ pc[t] = "sleepset" /\ k' = [k EXCEPT !.err[t] = "EINTR"]
      /\ Goto(t, "sleepsched") /\ repri' = repri
  BY DEF SleepSetError, At
<1>2. k \in KernelState /\ k.stat[t] # "close"
  BY <1>1, RunningThread
<1>3. /\ k' \in KernelState /\ SameLists(k', k) /\ k'.stat = k.stat
      /\ k'.prio = k.prio /\ k'.armed = k.armed /\ k'.cur = k.cur
  BY <1>1, <1>2 DEF KernelState, SameLists, Error
<1>4. "sleepsched" \in Label \ (Serving \union {"reap"})
  BY DEF Label, Serving
<1> QED
  BY <1>1, <1>2, <1>3, <1>4, FieldStep

\* The return from rt_thread_sleep changes the error field alone.
LEMMA StepSleepReturn ==
  ASSUME SchedInv, NEW t \in Thread, SleepReturn(t)
  PROVE  SchedInv'
<1>1. /\ k.cur = t /\ pc[t] = "slept" /\ Goto(t, "run") /\ repri' = repri
      /\ k' = IF k.err[t] = "ETIMEOUT" THEN [k EXCEPT !.err[t] = "EOK"] ELSE k
  BY DEF SleepReturn, At
<1>2. k \in KernelState /\ k.stat[t] # "close"
  BY <1>1, RunningThread
<1>3. /\ k' \in KernelState /\ SameLists(k', k) /\ k'.stat = k.stat
      /\ k'.prio = k.prio /\ k'.armed = k.armed /\ k'.cur = k.cur
  BY <1>1, <1>2 DEF KernelState, SameLists, Error
<1>4. "run" \in Label \ (Serving \union {"reap"})
  BY DEF Label, Serving
<1> QED
  BY <1>1, <1>2, <1>3, <1>4, FieldStep

\* rt_thread_yield marks the thread and lets rt_schedule queue it again.
LEMMA StepYield ==
  ASSUME SchedInv, NEW t \in Thread, Yield(t)
  PROVE  SchedInv'
<1>1. /\ k.cur = t /\ pc[t] = "run" /\ Goto(t, "resched") /\ repri' = repri
      /\ k' = [k EXCEPT !.yield = @ \union {t}]
  BY DEF Yield, At
<1>2. k \in KernelState /\ k.stat[t] # "close"
  BY <1>1, RunningThread
<1>3. /\ k' \in KernelState /\ SameLists(k', k) /\ k'.stat = k.stat
      /\ k'.prio = k.prio /\ k'.armed = k.armed /\ k'.cur = k.cur
  BY <1>1, <1>2 DEF KernelState, SameLists
<1>4. "resched" \in Label \ (Serving \union {"reap"})
  BY DEF Label, Serving
<1> QED
  BY <1>1, <1>2, <1>3, <1>4, FieldStep

\* A critical section changes the lock nesting alone.
LEMMA LockStep ==
  ASSUME SchedInv, NEW t \in Thread, k.cur = t, pc[t] = "run",
         NEW n \in Nat, k' = [k EXCEPT !.lock = n],
         UNCHANGED <<pc, arg, repri>>
  PROVE  SchedInv'
<1>1. k \in KernelState /\ ListFacts(k) /\ StatFacts(k) /\ k.stat[t] # "close"
  BY RunningThread
<1>2. /\ k' \in KernelState /\ SameLists(k', k) /\ k'.stat = k.stat
      /\ k'.prio = k.prio /\ k'.armed = k.armed /\ k'.cur = k.cur
  BY <1>1 DEF KernelState, SameLists
<1>3. /\ ListFacts(k')
      /\ \A x : InReadyList(k', x) <=> InReadyList(k, x)
      /\ \A x : WaitsSomewhere(k', x) <=> WaitsSomewhere(k, x)
      /\ \A x : Dead(k', x) <=> Dead(k, x)
  BY <1>1, <1>2, FieldsChange
<1>4. KernelOK(k')
  <2>1. StatFacts(k')
    BY <1>1, <1>2, <1>3 DEF StatFacts
  <2> QED BY <1>2, <1>3, <2>1 DEF SchedInv, KernelOK, KernelInv
<1>5. TypeOK' /\ OneServer'
  BY <1>2 DEF SchedInv, TypeOK, OneServer
<1>6. LastStepsOK(k)'
  BY <1>1, <1>2 DEF LastStepsOK
<1>7. ASSUME NEW x \in Thread PROVE ServesOK(k, x)'
  BY <1>2, <1>3 DEF SchedInv, ServesOK
<1>8. QueuedOK(k)'
  BY <1>2, <1>3 DEF SchedInv, QueuedOK, BeingDetached
<1> QED
  BY <1>8, <1>4, <1>5, <1>6, <1>7 DEF SchedInv, KernelOK

\* rt_enter_critical changes the nesting alone.
LEMMA StepEnterCritical ==
  ASSUME SchedInv, NEW t \in Thread, EnterCritical(t)
  PROVE  SchedInv'
<1>1. /\ k.cur = t /\ pc[t] = "run" /\ UNCHANGED <<pc, arg, repri>>
      /\ k' = [k EXCEPT !.lock = k.lock + 1]
  BY DEF EnterCritical, At
<1>2. k.lock + 1 \in Nat
  BY <1>1, RunningThread DEF KernelState
<1> QED
  BY <1>1, <1>2, LockStep

\* The last rt_exit_critical pays the reschedule that is owed.
LEMMA StepExitCritical ==
  ASSUME SchedInv, NEW t \in Thread, ExitCritical(t)
  PROVE  SchedInv'
<1>1. /\ k.cur = t /\ pc[t] = "run" /\ repri' = repri
      /\ k' = [k EXCEPT !.lock = IF k.lock <= 1 THEN 0 ELSE k.lock - 1]
      /\ IF k.lock <= 1 THEN Goto(t, "resched") ELSE UNCHANGED <<pc, arg>>
  BY DEF ExitCritical, At
<1>2. k \in KernelState /\ k.lock \in Nat /\ k.stat[t] # "close"
  BY <1>1, RunningThread DEF KernelState
<1>3. CASE k.lock <= 1
  <2>1. Goto(t, "resched") /\ k' = [k EXCEPT !.lock = 0]
    BY <1>1, <1>3
  <2>2. /\ k' \in KernelState /\ SameLists(k', k) /\ k'.stat = k.stat
        /\ k'.prio = k.prio /\ k'.armed = k.armed /\ k'.cur = k.cur
    BY <1>2, <2>1 DEF KernelState, SameLists
  <2>3. "resched" \in Label \ (Serving \union {"reap"})
    BY DEF Label, Serving
  <2> QED BY <1>1, <1>2, <2>1, <2>2, <2>3, FieldStep
<1>4. CASE k.lock > 1
  <2>1. k' = [k EXCEPT !.lock = k.lock - 1] /\ UNCHANGED <<pc, arg, repri>>
    BY <1>1, <1>2, <1>4
  <2>2. k.lock - 1 \in Nat
    BY <1>2, <1>4
  <2> QED BY <1>1, <2>1, <2>2, LockStep
<1> QED
  BY <1>2, <1>3, <1>4

\* The rt_schedule at the end of rt_thread_startup.
LEMMA StepReschedule ==
  ASSUME SchedInv, NEW t \in Thread, Reschedule(t)
  PROVE  SchedInv'
<1>1. k.cur = t /\ pc[t] = "resched" /\ Goto(t, "run") /\ ThenSchedule(k)
  BY DEF Reschedule, At
<1>2. "run" \in Label \ (Serving \union {"reap"})
  BY DEF Label, Serving
<1> QED
  BY <1>1, <1>2, ScheduleGoto

\* The rt_schedule at the end of rt_thread_sleep.
LEMMA StepSleepSchedule ==
  ASSUME SchedInv, NEW t \in Thread, SleepSchedule(t)
  PROVE  SchedInv'
<1>1. k.cur = t /\ pc[t] = "sleepsched" /\ Goto(t, "slept") /\ ThenSchedule(k)
  BY DEF SleepSchedule, At
<1>2. "slept" \in Label \ (Serving \union {"reap"})
  BY DEF Label, Serving
<1> QED
  BY <1>1, <1>2, ScheduleGoto

\* A closed thread that reaches its last rt_schedule never runs again.
LEMMA StepExitSchedule ==
  ASSUME SchedInv, NEW t \in Thread, ExitSchedule(t)
  PROVE  SchedInv'
<1>1. k' = rt_schedule(k) /\ repri' \in BOOLEAN /\ UNCHANGED <<pc, arg>>
  BY DEF ExitSchedule, ThenSchedule
<1> QED
  BY <1>1, ScheduleStay DEF SchedInv

\* _thread_exit unlinks the thread, closes it and hands it to the idle thread.
LEMMA StepExit ==
  ASSUME SchedInv, NEW t \in Thread, Exit(t)
  PROVE  SchedInv'
<1> DEFINE q == rt_schedule_remove_thread(k, t)
<1>1. /\ k.cur = t /\ pc[t] = "run" /\ t # Idle /\ k.lock = 0
      /\ k' = CloseThread(q, t) /\ Goto(t, "exit") /\ repri' = repri
  BY DEF Exit, At
<1>2. /\ k.stat \in [Thread -> Stat] /\ KernelInv(k) /\ StatFacts(k)
      /\ pc \in [Thread -> Label] /\ arg \in [Thread -> Thread]
      /\ k.stat[t] # "close" /\ ~InReadyList(k, t)
  BY <1>1, RunningThread
<1>3. ~Dead(k, t)
  BY <1>2 DEF StatFacts
<1>4. /\ KernelInv(q) /\ SameFields(q, k)
      /\ \A x : InReadyList(q, x) <=> InReadyList(k, x) /\ x # t
      /\ \A x : WaitsSomewhere(q, x) => WaitsSomewhere(k, x)
      /\ \A x : Dead(q, x) <=> Dead(k, x)
  BY <1>1, <1>2, <1>3, UnqueueThread
<1> HIDE DEF q
<1>5. /\ KernelInv(k') /\ k'.stat = [q.stat EXCEPT ![t] = "close"]
      /\ k'.armed = q.armed \ {t} /\ k'.cur = q.cur /\ k'.lock = q.lock
      /\ \A x : InReadyList(k', x) <=> InReadyList(q, x)
      /\ \A x : WaitsSomewhere(k', x) <=> WaitsSomewhere(q, x)
  BY <1>1, <1>3, <1>4, CloseUnqueued
<1>6. /\ k'.armed \subseteq k.armed /\ k'.cur = k.cur /\ k'.lock = k.lock
      /\ \A x \in Thread : k'.stat[x] = IF x = t THEN "close" ELSE k.stat[x]
      /\ \A x : InReadyList(k', x) => InReadyList(k, x)
  BY <1>2, <1>4, <1>5 DEF SameFields
<1>7. /\ pc' \in [Thread -> Label] /\ arg' \in [Thread -> Thread]
      /\ pc'[t] = "exit" /\ arg'[t] = t
      /\ \A x \in Thread : x # t => pc'[x] = pc[x] /\ arg'[x] = arg[x]
      /\ OneServer'
  BY <1>1, GotoControl DEF SchedInv, Label, Serving
<1>8. TypeOK'
  BY <1>1, <1>5, <1>7 DEF SchedInv, TypeOK, KernelInv, ListFacts
<1>9. KernelOK(k')
  BY <1>4, <1>5, <1>6 DEF SchedInv, KernelOK
<1>10. LastStepsOK(k)'
  BY <1>1, <1>6, <1>7 DEF LastStepsOK
<1>11. ASSUME NEW x \in Thread PROVE ServesOK(k, x)'
  <2>1. CASE x = t
    BY <1>7, <2>1 DEF ServesOK
  <2>2. CASE x # t
    <3>1. /\ arg[x] \in Thread /\ ServesOK(k, x) /\ pc'[x] = pc[x] /\ arg'[x] = arg[x]
      BY <1>2, <1>7, <2>2 DEF SchedInv
    <3> QED BY <1>1, <1>6, <2>2, <3>1 DEF ServesOK
  <2> QED BY <2>1, <2>2
<1>12. QueuedOK(k)'
  <2>1. \A x \in Thread : x # t => (InReadyList(k', x) <=> InReadyList(k, x))
    BY <1>4, <1>5
  <2> QED BY <1>1, <1>6, <1>7, <2>1 DEF SchedInv, QueuedOK, BeingDetached
<1> QED
  BY <1>12, <1>7, <1>8, <1>9, <1>10, <1>11 DEF SchedInv, KernelOK

\* The first half of a detach takes the thread off its list.
LEMMA StepDetach ==
  ASSUME SchedInv, Discipline, NEW t \in Thread, NEW u \in Thread, Detach(t, u)
  PROVE  SchedInv'
<1>1. /\ k.cur = t /\ pc[t] = "run" /\ u \in Victim /\ Unattended(u)
      /\ k.stat[u] \notin {"none", "close"} /\ (t = u => k.lock = 0)
      /\ k' = IF k.stat[u] # "init" THEN rt_schedule_remove_thread(k, u) ELSE k
      /\ Call(t, "detach", u) /\ repri' = repri
  BY DEF Detach, At
<1>2. /\ k.stat \in [Thread -> Stat] /\ KernelInv(k) /\ StatFacts(k)
      /\ pc \in [Thread -> Label] /\ arg \in [Thread -> Thread]
      /\ k.stat[t] # "close" /\ u # Idle
  BY <1>1, RunningThread, RoleAssumption
<1>3. \A x \in Thread : pc[x] \in Serving => arg[x] # u
  BY <1>1 DEF Unattended, Discipline, Serving
<1>4. /\ KernelInv(k') /\ SameFields(k', k)
      /\ \A x : InReadyList(k', x) <=> InReadyList(k, x) /\ x # u
      /\ \A x : WaitsSomewhere(k', x) => WaitsSomewhere(k, x)
  <2>1. CASE k.stat[u] = "init"
    <3>1. k' = k /\ ~InReadyList(k, u)
      BY <1>1, <1>2, <2>1 DEF StatFacts
    <3> QED BY <1>2, <3>1 DEF SameFields
  <2>2. CASE k.stat[u] # "init"
    <3>1. k' = rt_schedule_remove_thread(k, u) /\ ~Dead(k, u)
      BY <1>1, <1>2, <2>2 DEF StatFacts
    <3> QED BY <1>2, <3>1, UnqueueThread
  <2> QED BY <2>1, <2>2
<1>5. /\ pc' \in [Thread -> Label] /\ arg' \in [Thread -> Thread]
      /\ pc'[t] = "detach" /\ arg'[t] = u
      /\ \A x \in Thread : x # t => pc'[x] = pc[x] /\ arg'[x] = arg[x]
      /\ OneServer'
  BY <1>1, <1>3, CallControl DEF SchedInv, Label
<1>6. TypeOK'
  BY <1>1, <1>4, <1>5 DEF SchedInv, TypeOK, KernelInv, ListFacts
<1>7. KernelOK(k')
  BY <1>4 DEF SchedInv, KernelOK, SameFields
<1>8. LastStepsOK(k)'
  BY <1>1, <1>2, <1>4, <1>5 DEF LastStepsOK, SameFields
<1>9. ASSUME NEW x \in Thread PROVE ServesOK(k, x)'
  <2>1. CASE x = t
    BY <1>1, <1>4, <1>5, <2>1 DEF ServesOK, SameFields
  <2>2. CASE x # t
    <3>1. ServesOK(k, x) /\ pc'[x] = pc[x] /\ arg'[x] = arg[x]
      BY <1>5, <2>2 DEF SchedInv
    <3> QED BY <1>4, <3>1 DEF ServesOK, SameFields
  <2> QED BY <2>1, <2>2
<1>10. QueuedOK(k)'
  <2>1. k'.stat = k.stat
    BY <1>4 DEF SameFields
  <2>2. \A x \in Thread : BeingDetached(x) => BeingDetached(x)'
    BY <1>1, <1>5 DEF BeingDetached
  <2>3. BeingDetached(u)'
    BY <1>5 DEF BeingDetached
  <2>4. \A x \in Thread : pc'[x] = "detach" => x = t \/ pc[x] = "detach"
    BY <1>5
  <2>5. k.stat[t] \notin {"none", "close"}
    BY <1>1, <1>2 DEF StatFacts
  <2> QED BY <1>4, <2>1, <2>2, <2>3, <2>4, <2>5 DEF SchedInv, QueuedOK
<1> QED
  BY <1>10, <1>5, <1>6, <1>7, <1>8, <1>9 DEF SchedInv, KernelOK

\* The second half closes a thread that is still on no list: nobody else could queue it.
LEMMA StepDetachClose ==
  ASSUME SchedInv, NEW t \in Thread, DetachClose(t)
  PROVE  SchedInv'
<1> DEFINE u == arg[t]
<1>1. /\ k.cur = t /\ pc[t] = "detach" /\ repri' = repri
      /\ k' = CloseThread(k, u) /\ Goto(t, "resched")
  BY DEF DetachClose, At
<1>2. /\ k.stat \in [Thread -> Stat] /\ KernelInv(k) /\ StatFacts(k)
      /\ pc \in [Thread -> Label] /\ arg \in [Thread -> Thread] /\ u \in Thread
      /\ k.stat[t] # "close" /\ ~InReadyList(k, t)
  BY <1>1, RunningThread
<1>3. /\ u \in Victim /\ k.stat[u] \notin {"none", "close"}
      /\ u # t => ~InReadyList(k, u) /\ u # k.cur
      /\ u = t => k.lock = 0
  BY <1>1 DEF SchedInv, ServesOK, LastStepsOK
<1>4. \A x \in Thread : x # t /\ pc[x] \in Serving => arg[x] # u
  BY <1>1 DEF SchedInv, OneServer, Serving
<1> HIDE DEF u
<1>5. u # Idle /\ ~InReadyList(k, u) /\ ~Dead(k, u)
  BY <1>2, <1>3, RoleAssumption DEF StatFacts
<1>6. /\ KernelInv(k') /\ k'.stat = [k.stat EXCEPT ![u] = "close"]
      /\ k'.armed = k.armed \ {u} /\ k'.cur = k.cur /\ k'.lock = k.lock
      /\ \A x : InReadyList(k', x) <=> InReadyList(k, x)
      /\ \A x : WaitsSomewhere(k', x) <=> WaitsSomewhere(k, x)
  BY <1>1, <1>2, <1>5, CloseUnqueued
<1>7. \A x \in Thread : k'.stat[x] = IF x = u THEN "close" ELSE k.stat[x]
  BY <1>2, <1>6
<1>8. /\ pc' \in [Thread -> Label] /\ arg' \in [Thread -> Thread]
      /\ pc'[t] = "resched" /\ arg'[t] = t
      /\ \A x \in Thread : x # t => pc'[x] = pc[x] /\ arg'[x] = arg[x]
      /\ OneServer'
  BY <1>1, GotoControl DEF SchedInv, Label, Serving
<1>9. TypeOK'
  BY <1>1, <1>6, <1>8 DEF SchedInv, TypeOK, KernelInv, ListFacts
<1>10. KernelOK(k')
  BY <1>6 DEF SchedInv, KernelOK
<1>11. LastStepsOK(k)'
  BY <1>1, <1>2, <1>3, <1>6, <1>7, <1>8 DEF LastStepsOK
<1>12. ASSUME NEW x \in Thread PROVE ServesOK(k, x)'
  <2>1. CASE x = t
    BY <1>8, <2>1 DEF ServesOK
  <2>2. CASE x # t
    <3>1. /\ arg[x] \in Thread /\ ServesOK(k, x) /\ pc'[x] = pc[x] /\ arg'[x] = arg[x]
      BY <1>2, <1>8, <2>2 DEF SchedInv
    <3> QED BY <1>4, <1>6, <1>7, <2>2, <3>1 DEF ServesOK, Serving
  <2> QED BY <2>1, <2>2
<1>13. QueuedOK(k)'
  <2>1. \A x \in Thread : x # u /\ BeingDetached(x) => BeingDetached(x)'
    BY <1>1, <1>8 DEF BeingDetached, u
  <2>2. LoneVictim => \A x \in Thread : x # t /\ pc[x] = "detach" => x # u
    <3> SUFFICES ASSUME LoneVictim, NEW x \in Thread, x # t, pc[x] = "detach", x = u
                 PROVE  FALSE
      OBVIOUS
    <3>1. arg[x] \in Victim
      BY DEF SchedInv, ServesOK
    <3> QED BY <1>3, <1>4, <3>1 DEF LoneVictim, Serving
  <2>3. \A x \in Thread : pc'[x] = "detach" => x # t /\ pc[x] = "detach"
    BY <1>8
  <2> QED BY <1>6, <1>7, <2>1, <2>2, <2>3 DEF SchedInv, QueuedOK
<1> QED
  BY <1>13, <1>8, <1>9, <1>10, <1>11, <1>12 DEF SchedInv, KernelOK

\* A change of priority moves a ready thread to its new list.
LEMMA StepSetPriority ==
  ASSUME SchedInv, Discipline, NEW t \in Thread, NEW u \in Thread, NEW p \in Prio,
         SetPriority(t, u, p)
  PROVE  SchedInv'
<1>1. /\ k.cur = t /\ u \in Retuned /\ Unattended(u)
      /\ k' = ChangePriority(k, u, p) /\ repri' = TRUE /\ UNCHANGED <<pc, arg>>
  BY DEF SetPriority, At
<1>2. KernelInv(k) /\ u # Idle
  BY <1>1, RunningThread, RoleAssumption
<1>3. \A x \in Thread : pc[x] \in Serving => arg[x] # u
  BY <1>1 DEF Unattended, Discipline, Serving
<1>4. /\ KernelInv(k') /\ k'.stat = k.stat /\ k'.armed = k.armed
      /\ k'.cur = k.cur /\ k'.lock = k.lock
      /\ \A x : InReadyList(k', x) <=> InReadyList(k, x) \/ (x = u /\ k.stat[u] = "ready")
      /\ \A x : WaitsSomewhere(k', x) => WaitsSomewhere(k, x)
  BY <1>1, <1>2, ChangePriorityStep
<1>5. TypeOK' /\ OneServer'
  BY <1>1, <1>4 DEF SchedInv, TypeOK, OneServer, KernelInv, ListFacts
<1>6. KernelOK(k')
  BY <1>4 DEF SchedInv, KernelOK
<1>7. LastStepsOK(k)'
  BY <1>1, <1>4 DEF SchedInv, LastStepsOK
<1>8. ASSUME NEW x \in Thread PROVE ServesOK(k, x)'
  BY <1>1, <1>3, <1>4 DEF SchedInv, ServesOK, Serving
<1>9. QueuedOK(k)'
  BY <1>1, <1>4 DEF SchedInv, QueuedOK, BeingDetached
<1> QED
  BY <1>9, <1>5, <1>6, <1>7, <1>8 DEF SchedInv, KernelOK

\* The idle thread takes a dead thread off the list of dead threads.
LEMMA StepReapPick ==
  ASSUME SchedInv, ReapPick
  PROVE  SchedInv'
<1> DEFINE u == Head(k.defunct)
<1>1. /\ k.cur = Idle /\ pc[Idle] = "run" /\ k.defunct # <<>>
      /\ Call(Idle, "reap", u) /\ k' = k /\ repri' = repri
  BY DEF ReapPick, At
<1>2. /\ k \in KernelState /\ StatFacts(k) /\ k.stat[Idle] # "close"
      /\ pc \in [Thread -> Label] /\ arg \in [Thread -> Thread]
  BY <1>1, RunningThread, ThreadAssumption
<1>3. u \in Thread /\ Dead(k, u)
  BY <1>1, <1>2, HeadList DEF KernelState, Dead
<1>4. k.stat[u] = "close"
  BY <1>2, <1>3 DEF StatFacts
<1> HIDE DEF u
<1>5. /\ pc' \in [Thread -> Label] /\ arg' \in [Thread -> Thread]
      /\ pc'[Idle] = "reap" /\ arg'[Idle] = u
      /\ \A x \in Thread : x # Idle => pc'[x] = pc[x] /\ arg'[x] = arg[x]
  BY <1>1, <1>2, <1>3, ThreadAssumption DEF Call, Label
<1>6. TypeOK' /\ OneServer'
  BY <1>1, <1>5 DEF SchedInv, TypeOK, OneServer, Serving
<1>7. KernelOK(k)'
  BY <1>1 DEF SchedInv, KernelOK
<1>8. LastStepsOK(k)'
  BY <1>1, <1>2, <1>5 DEF SchedInv, LastStepsOK
<1>9. ASSUME NEW x \in Thread PROVE ServesOK(k, x)'
  BY <1>1, <1>4, <1>5 DEF SchedInv, ServesOK
<1>10. QueuedOK(k)'
  BY <1>1, <1>5 DEF SchedInv, QueuedOK, BeingDetached
<1> QED
  BY <1>10, <1>6, <1>7, <1>8, <1>9 DEF SchedInv

\* The idle thread gives back a thread that is on no list.
LEMMA StepReapFree ==
  ASSUME SchedInv, ReapFree
  PROVE  SchedInv'
<1> DEFINE u == arg[Idle]
<1>1. /\ k.cur = Idle /\ pc[Idle] = "reap" /\ Goto(Idle, "run") /\ repri' = repri
      /\ k' = [rt_list_remove(k, u) EXCEPT !.stat[u] = "none"]
  BY DEF ReapFree, At
<1>2. /\ k.stat \in [Thread -> Stat] /\ KernelInv(k) /\ StatFacts(k)
      /\ pc \in [Thread -> Label] /\ arg \in [Thread -> Thread] /\ u \in Thread
  BY <1>1, RunningThread, ThreadAssumption
<1>3. k.stat[u] = "close" /\ u # k.cur
  BY <1>1, <1>2, ThreadAssumption DEF SchedInv, ServesOK, StatFacts
<1> HIDE DEF u
<1>4. /\ KernelInv(k') /\ k'.stat = [k.stat EXCEPT ![u] = "none"]
      /\ k'.armed = k.armed /\ k'.cur = k.cur /\ k'.lock = k.lock
      /\ \A x : InReadyList(k', x) <=> InReadyList(k, x)
      /\ \A x : WaitsSomewhere(k', x) => WaitsSomewhere(k, x)
  BY <1>1, <1>2, <1>3, ReapStep
<1>5. \A x \in Thread : k'.stat[x] = IF x = u THEN "none" ELSE k.stat[x]
  BY <1>2, <1>4
<1>6. /\ pc' \in [Thread -> Label] /\ arg' \in [Thread -> Thread]
      /\ pc'[Idle] = "run" /\ arg'[Idle] = Idle
      /\ \A x \in Thread : x # Idle => pc'[x] = pc[x] /\ arg'[x] = arg[x]
      /\ OneServer'
  BY <1>1, GotoControl, ThreadAssumption DEF SchedInv, Label, Serving
<1>7. TypeOK'
  BY <1>1, <1>4, <1>6 DEF SchedInv, TypeOK, KernelInv, ListFacts
<1>8. KernelOK(k')
  BY <1>4 DEF SchedInv, KernelOK
<1>9. LastStepsOK(k)'
  BY <1>1, <1>2, <1>3, <1>4, <1>5, <1>6, ThreadAssumption DEF StatFacts, LastStepsOK
<1>10. ASSUME NEW x \in Thread PROVE ServesOK(k, x)'
  <2>1. CASE x = Idle
    BY <1>6, <2>1 DEF ServesOK
  <2>2. CASE x # Idle
    <3>1. /\ arg[x] \in Thread /\ ServesOK(k, x) /\ pc'[x] = pc[x] /\ arg'[x] = arg[x]
      BY <1>2, <1>6, <2>2 DEF SchedInv
    <3> QED BY <1>3, <1>4, <1>5, <2>2, <3>1 DEF ServesOK
  <2> QED BY <2>1, <2>2
<1>11. QueuedOK(k)'
  <2>1. \A x \in Thread : BeingDetached(x) => BeingDetached(x)'
    BY <1>1, <1>6 DEF BeingDetached
  <2>2. \A x \in Thread : pc'[x] = "detach" => pc[x] = "detach"
    BY <1>6
  <2> QED BY <1>3, <1>4, <1>5, <2>1, <2>2 DEF SchedInv, QueuedOK
<1> QED
  BY <1>11, <1>6, <1>7, <1>8, <1>9, <1>10 DEF SchedInv, KernelOK

\* The end of a slice is rt_thread_yield called from the clock interrupt.
LEMMA StepSliceEnd ==
  ASSUME SchedInv, SliceEnd
  PROVE  SchedInv'
<1> DEFINE s == [k EXCEPT !.yield = @ \union {k.cur}]
<1>1. k' = rt_schedule(s) /\ repri' \in BOOLEAN /\ UNCHANGED <<pc, arg>>
  BY DEF SliceEnd, ThenSchedule
<1>2. k \in KernelState /\ ListFacts(k) /\ StatFacts(k) /\ k.cur \in Thread
  BY DEF SchedInv, TypeOK, KernelOK, KernelInv, KernelState
<1>3. /\ s \in KernelState /\ SameLists(s, k) /\ s.stat = k.stat
      /\ s.armed = k.armed /\ s.cur = k.cur /\ s.lock = k.lock /\ s.prio = k.prio
  BY <1>2 DEF KernelState, SameLists
<1> HIDE DEF s
<1>4. /\ ListFacts(s)
      /\ \A x : InReadyList(s, x) <=> InReadyList(k, x)
      /\ \A x : WaitsSomewhere(s, x) <=> WaitsSomewhere(k, x)
      /\ \A x : Dead(s, x) <=> Dead(k, x)
  BY <1>2, <1>3, FieldsChange
<1>5. KernelOK(s)
  <2>1. StatFacts(s)
    BY <1>2, <1>3, <1>4 DEF StatFacts
  <2> QED BY <1>3, <1>4, <2>1 DEF SchedInv, KernelOK, KernelInv
<1>6. LastStepsOK(s)
  BY <1>3 DEF SchedInv, LastStepsOK
<1>7. \A x \in Thread : ServesOK(s, x)
  BY <1>3, <1>4 DEF SchedInv, ServesOK
<1>8. QueuedOK(s)
  BY <1>3, <1>4 DEF SchedInv, QueuedOK
<1> QED
  BY <1>1, <1>5, <1>6, <1>7, <1>8, ScheduleStay

\* A thread timer fires for a suspended thread only.
LEMMA StepTimeout ==
  ASSUME SchedInv, Discipline, NEW u \in Thread, Timeout(u)
  PROVE  SchedInv'
<1>1. /\ u \in k.armed /\ k' = _thread_timeout(k, u)
      /\ repri' \in BOOLEAN /\ UNCHANGED <<pc, arg>>
  BY DEF Timeout
<1>2. /\ TypeOK /\ KernelOK(k) /\ LastStepsOK(k) /\ QueuedOK(k)
      /\ KernelInv(k)
  BY DEF SchedInv, KernelOK
<1>3. k.stat[u] = "suspend"
  BY <1>1, <1>2 DEF KernelInv, StatFacts
<1>4. \A x \in Thread : pc[x] \in Serving => arg[x] # u
  BY <1>1 DEF SchedInv, KernelOK, ServesOK, Serving, Discipline
<1>5. PICK w : Resumed(w, k, u) /\ k' = rt_schedule(w)
  BY <1>1, <1>2, TimeoutStep
<1>6. /\ KernelOK(w) /\ LastStepsOK(w) /\ QueuedOK(w)
      /\ \A x \in Thread : ServesOK(w, x)
  BY <1>2, <1>3, <1>4, <1>5, AfterWake DEF SchedInv
<1> QED
  BY <1>1, <1>5, <1>6, ScheduleStay

\* An interrupt that resumes a thread is both halves at once.
LEMMA StepIsrResume ==
  ASSUME SchedInv, Discipline, NEW u \in Thread, IsrResume(u)
  PROVE  SchedInv'
<1> DEFINE w == rt_thread_resume(k, u)
<1>1. /\ k.stat[u] = "suspend" /\ Unattended(u)
      /\ k' = rt_schedule(w) /\ repri' \in BOOLEAN /\ UNCHANGED <<pc, arg>>
  BY DEF IsrResume, SelfSuspended, ThenSchedule
<1>2. /\ TypeOK /\ KernelOK(k) /\ LastStepsOK(k) /\ QueuedOK(k)
      /\ KernelInv(k)
  BY DEF SchedInv, KernelOK
<1>3. \A x \in Thread : pc[x] \in Serving => arg[x] # u
  BY <1>1 DEF Unattended, Discipline, Serving
<1>4. Resumed(w, k, u)
  BY <1>1, <1>2, ResumeSuspended
<1> HIDE DEF w
<1>5. /\ KernelOK(w) /\ LastStepsOK(w) /\ QueuedOK(w)
      /\ \A x \in Thread : ServesOK(w, x)
  BY <1>1, <1>2, <1>3, <1>4, AfterWake DEF SchedInv
<1> QED
  BY <1>1, <1>5, ScheduleStay

-----------------------------------------------------------------------------
(* The invariant. *)

\* The scheduler starts with every block unused but the idle and the first thread.
LEMMA InitInv ==
  ASSUME Init
  PROVE  SchedInv
<1> DEFINE q == InitPrio[Idle]
<1>1. /\ k.stat = [t \in Thread |-> IF t = Main THEN "running"
                                    ELSE IF t = Idle THEN "ready" ELSE "none"]
      /\ k.yield = {} /\ k.prio = InitPrio /\ k.err = [t \in Thread |-> "EOK"]
      /\ k.armed = {} /\ k.group = {q} /\ k.defunct = <<>>
      /\ k.ready = [p \in Prio |-> IF p = q THEN <<Idle>> ELSE <<>>]
      /\ k.wait = [w \in WaitList |-> <<>>] /\ k.cur = Main /\ k.lock = 0
      /\ pc = [t \in Thread |-> "run"] /\ arg = [t \in Thread |-> t] /\ repri = FALSE
  BY DEF Init
<1>2. q \in Prio /\ Idle \in Thread /\ Main \in Thread /\ Main # Idle
  BY InitPrioAssumption, MainAssumption, ThreadAssumption
<1>3. /\ <<Idle>> \in Seq(Thread) /\ <<Idle>> # <<>> /\ <<>> \in Seq(Thread)
      /\ NoRepeat(<<Idle>>) /\ NoRepeat(<<>>)
      /\ \A x : Contains(<<Idle>>, x) <=> x = Idle
      /\ \A x : ~Contains(<<>>, x)
  BY <1>2 DEF NoRepeat, Contains
<1>4. k \in KernelState
  <2>1. k.ready \in [Prio -> Seq(Thread)] /\ k.wait \in [WaitList -> Seq(Thread)]
    BY <1>1, <1>3
  <2>2. /\ k.stat \in [Thread -> Stat] /\ k.yield \in SUBSET Thread
        /\ k.prio \in [Thread -> Prio] /\ k.err \in [Thread -> Error]
        /\ k.armed \in SUBSET Thread /\ k.group \in SUBSET Prio
        /\ k.cur \in Thread /\ k.lock \in Nat /\ k.defunct \in Seq(Thread)
    BY <1>1, <1>2, <1>3, InitPrioAssumption DEF Stat, Error
  <2>3. k = [ stat |-> k.stat, yield |-> k.yield, prio |-> k.prio,
              err |-> k.err, armed |-> k.armed, ready |-> k.ready,
              group |-> k.group, wait |-> k.wait, defunct |-> k.defunct,
              cur |-> k.cur, lock |-> k.lock ]
    BY DEF Init
  <2> QED BY <2>1, <2>2, <2>3, KernelStateFields
<1>5. \A p \in Prio : k.ready[p] = IF p = q THEN <<Idle>> ELSE <<>>
  BY <1>1
<1> HIDE DEF q
<1>6. \A x : InReadyList(k, x) <=> x = Idle
  BY <1>2, <1>3, <1>5 DEF InReadyList
<1>7. ListFacts(k)
  <2>1. GroupOK(k)
    BY <1>1, <1>2, <1>3, <1>5 DEF GroupOK
  <2>2. \A p \in Prio : /\ NoRepeat(k.ready[p])
                        /\ \A t \in Thread : Contains(k.ready[p], t) => k.prio[t] = p
    BY <1>1, <1>3, <1>5 DEF q
  <2>3. \A w \in WaitList : NoRepeat(k.wait[w])
    BY <1>1, <1>3
  <2> QED BY <1>1, <1>3, <1>4, <2>1, <2>2, <2>3 DEF ListFacts
<1>8. StatFacts(k)
  BY <1>1, <1>2, <1>3, <1>6 DEF StatFacts, Dead
<1>9. KernelOK(k)
  <2>1. \A t \in Thread : ~WaitsSomewhere(k, t)
    BY <1>1, <1>3 DEF WaitsSomewhere
  <2> QED BY <1>1, <1>7, <1>8, <2>1 DEF KernelOK, KernelInv
<1>10. TypeOK /\ OneServer
  BY <1>1, <1>4 DEF TypeOK, OneServer, Serving, Label
<1>11. LastStepsOK(k) /\ \A t \in Thread : ServesOK(k, t)
  BY <1>1, <1>2 DEF LastStepsOK, ServesOK
<1>12. QueuedOK(k)
  BY <1>1, <1>2, <1>6 DEF QueuedOK, BeingDetached
<1> QED
  BY <1>12, <1>9, <1>10, <1>11 DEF SchedInv

\* Every step keeps the invariant: one action, one lemma.
LEMMA NextInv ==
  ASSUME SchedInv, Discipline, [Next]_vars
  PROVE  SchedInv'
<1>1. CASE UNCHANGED vars
  BY <1>1 DEF vars, SchedInv, TypeOK, OneServer, KernelOK, LastStepsOK, ServesOK, QueuedOK, BeingDetached
<1>2. ASSUME NEW t \in Thread, Call1(t) PROVE SchedInv'
  BY <1>2, StepSuspendSelf, StepSleep, StepYield, StepExit, StepEnterCritical,
     StepExitCritical DEF Call1
<1>3. ASSUME NEW t \in Thread, Continue(t) PROVE SchedInv'
  BY <1>3, StepResumeStarted, StepResumeInsert, StepReschedule, StepSleepSetError,
     StepSleepSchedule, StepSleepReturn, StepExitSchedule, StepDetachClose
     DEF Continue
<1>4. ASSUME NEW t \in Thread, NEW u \in Thread, Call2(t, u) PROVE SchedInv'
  BY <1>4, StepCreate, StepStartup, StepResumeOther, StepDetach, StepSetPriority
     DEF Call2
<1>5. CASE Reap
  BY <1>5, StepReapPick, StepReapFree DEF Reap
<1>6. CASE Interrupt
  BY <1>6, StepSliceEnd, StepTimeout, StepIsrResume DEF Interrupt
<1> QED
  BY <1>1, <1>2, <1>3, <1>4, <1>5, <1>6 DEF Next

\* SchedInv holds in every reachable state.
THEOREM Invariance == ASSUME Discipline PROVE Spec => []SchedInv
<1>1. Init => SchedInv
  BY InitInv
<1>2. SchedInv /\ [Next]_vars => SchedInv'
  BY NextInv
<1> QED
  BY <1>1, <1>2, PTL DEF Spec

\* Every field of the kernel state keeps its type: the current thread is a
\* thread, the lists hold threads, and the lock nesting is never negative.
THEOREM TypeCorrect == ASSUME Discipline PROVE Spec => []TypeOK
<1>1. SchedInv => TypeOK
  BY DEF SchedInv
<1> QED
  BY <1>1, Invariance, PTL

\* The assertion of _thread_timeout (thread.c:144) never fails: a running
\* thread timer belongs to a suspended thread.
THEOREM TimersSafe == ASSUME Discipline PROVE Spec => []TimerMeansSuspended
<1>1. SchedInv => TimerMeansSuspended
  BY DEF SchedInv, KernelOK, KernelInv, StatFacts, TimerMeansSuspended
<1> QED
  BY <1>1, Invariance, PTL

\* A closed thread executes only its last rt_schedule, and a control block
\* the idle thread gave back is nowhere any more.
THEOREM ReclamationSafe == ASSUME Discipline PROVE Spec => []ReclaimSafe
<1>1. SchedInv => ReclaimSafe
  BY DEF SchedInv, LastStepsOK, KernelOK, KernelInv, StatFacts, ReclaimSafe, InReadyList, Dead
<1> QED
  BY <1>1, Invariance, PTL

\* Under the discipline, without which it is false, no closed thread is left on
\* a ready list (thread.c:414).
THEOREM ClosedUnqueued == ASSUME Discipline PROVE Spec => []ClosedIsUnqueued
<1>1. SchedInv => ClosedIsUnqueued
  BY DEF SchedInv, KernelOK, KernelInv, StatFacts, ClosedIsUnqueued, InReadyList
<1> QED
  BY <1>1, Invariance, PTL

\* The lists, the bitmap and the stat fields agree: the bitmap names the
\* lists that hold a thread, a thread is on a list exactly when its stat says
\* so, once, and only the current thread is running.
THEOREM ListsAgree == ASSUME Discipline, LoneVictim PROVE Spec => []ListsSound
<1>1. SchedInv => ListsSound
  <2> SUFFICES ASSUME SchedInv PROVE ListsSound
    OBVIOUS
  <2>1. KernelInv(k) /\ ListFacts(k) /\ StatFacts(k) /\ QueuedOK(k)
    BY DEF SchedInv, KernelOK, KernelInv
  <2>2. ListsOK(k)
    BY <2>1, KernelInvLists DEF SchedInv, KernelOK
  <2>3. \A t \in Thread : InReadyList(k, t) <=> Contains(k.ready[k.prio[t]], t)
    BY <2>1, QueuedWhere
  <2> QED BY <2>1, <2>2, <2>3 DEF StatFacts, QueuedOK, Dead, ListsSound
<1> QED
  BY <1>1, Invariance, PTL

-----------------------------------------------------------------------------
(* The highest ready priority runs. *)

\* Where a thread that made itself or another one ready, suspended, closed or
\* unlocked the scheduler has its call of rt_schedule still to make.
Owing == {"resched", "sleepset", "sleepsched", "exit"}

HighestInv ==
  k.lock = 0 /\ ~repri /\ pc[k.cur] \notin Owing => Unbeaten(k)

\* r is s but for threads that are not current and lose their place at most.
Undisturbed(r, s) ==
  /\ r.cur = s.cur /\ r.lock = s.lock
  /\ r.stat[s.cur] = s.stat[s.cur] /\ r.prio[s.cur] = s.prio[s.cur]
  /\ \A t \in Thread : InReadyList(r, t) => InReadyList(s, t) /\ r.prio[t] = s.prio[t]

\* The four ways a step keeps HighestInv: it ends in rt_schedule, ...
LEMMA ScheduledHighest ==
  ASSUME NEW s, KernelInv(s), k' = rt_schedule(s)
  PROVE  HighestInv'
<1>1. k'.lock = s.lock
  BY ScheduleStep DEF Scheduled
<1> QED
  BY <1>1, ScheduleUnbeaten DEF HighestInv

\* ... it disturbs neither the current thread nor those that are queued, ...
LEMMA UndisturbedHighest ==
  ASSUME HighestInv, NEW t \in Thread, k.cur = t, pc[t] \notin Owing,
         Undisturbed(k', k), repri' = repri
  PROVE  HighestInv'
<1>1. k.lock = 0 /\ ~repri => Unbeaten(k)
  BY DEF HighestInv
<1> QED
  BY <1>1 DEF HighestInv, Unbeaten, Undisturbed

\* ... it leaves the current thread with an rt_schedule to call, ...
LEMMA OwingHighest ==
  ASSUME TypeOK, NEW t \in Thread, k'.cur = t, NEW l \in Owing, Goto(t, l)
  PROVE  HighestInv'
BY DEF TypeOK, Goto, HighestInv

\* ... or the scheduler is locked, or a priority changed.
LEMMA ExcusedHighest ==
  ASSUME k'.lock # 0 \/ repri'
  PROVE  HighestInv'
BY DEF HighestInv

\* A thread suspended by its own call stays current until it reschedules.
LEMMA SuspendKeepsCurrent ==
  ASSUME NEW s, NEW t
  PROVE  rt_thread_suspend(s, t).cur = s.cur
<1>1. rt_schedule_remove_thread(s, t).cur = s.cur
  BY DEF rt_schedule_remove_thread, rt_list_remove
<1> QED
  BY <1>1 DEF rt_thread_suspend

\* The calls a running thread begins.
LEMMA Call1Highest ==
  ASSUME SchedInv, NEW t \in Thread, Call1(t)
  PROVE  HighestInv'
<1>1. TypeOK /\ k \in KernelState /\ k.lock \in Nat
  BY DEF SchedInv, TypeOK, KernelState
<1>2. CASE SuspendSelf(t)
  <2>1. k'.cur = t /\ Goto(t, "resched")
    BY <1>2, SuspendKeepsCurrent DEF SuspendSelf, At
  <2> QED BY <1>1, <2>1, OwingHighest DEF Owing
<1>3. CASE Sleep(t)
  <2> DEFINE s == [k EXCEPT !.err[t] = "EOK"]
             r == rt_thread_suspend(s, t)
  <2>1. /\ k' = [r EXCEPT !.armed = @ \union {t}] /\ k.cur = t
        /\ Goto(t, "sleepset")
    BY <1>3 DEF Sleep, At
  <2>2. r.cur = k.cur
    BY <1>1, SuspendKeepsCurrent DEF KernelState
  <2> HIDE DEF r
  <2>3. k'.cur = t
    BY <2>1, <2>2
  <2> QED BY <1>1, <2>1, <2>3, OwingHighest DEF Owing
<1>4. CASE Yield(t)
  <2>1. k'.cur = t /\ Goto(t, "resched")
    BY <1>1, <1>4 DEF Yield, At, KernelState
  <2> QED BY <1>1, <2>1, OwingHighest DEF Owing
<1>5. CASE Exit(t)
  <2>1. k'.cur = t /\ Goto(t, "exit")
    BY <1>1, <1>5 DEF Exit, At, CloseThread, rt_thread_defunct_enqueue,
       rt_schedule_remove_thread, rt_list_remove, KernelState
  <2> QED BY <1>1, <2>1, OwingHighest DEF Owing
<1>6. CASE EnterCritical(t)
  <2>1. k'.lock = k.lock + 1
    BY <1>1, <1>6 DEF EnterCritical, KernelState
  <2> QED BY <1>1, <2>1, ExcusedHighest
<1>7. CASE ExitCritical(t)
  <2>1. /\ k'.cur = t /\ k'.lock = IF k.lock <= 1 THEN 0 ELSE k.lock - 1
        /\ k.lock <= 1 => Goto(t, "resched")
    BY <1>1, <1>7 DEF ExitCritical, At, KernelState
  <2>2. CASE k.lock <= 1
    BY <1>1, <2>1, <2>2, OwingHighest DEF Owing
  <2>3. CASE ~(k.lock <= 1)
    BY <1>1, <2>1, <2>3, ExcusedHighest
  <2> QED BY <2>2, <2>3
<1> QED
  BY <1>2, <1>3, <1>4, <1>5, <1>6, <1>7 DEF Call1

\* The calls on another thread up to their first window: what they work on is
\* not current, or goes on running until the call is over.
LEMMA Call2Highest ==
  ASSUME SchedInv, HighestInv, NEW t \in Thread, NEW u \in Thread, Call2(t, u)
  PROVE  HighestInv'
<1>1. k.cur = t /\ pc[t] = "run"
  BY DEF Call2, Create, Startup, ResumeOther, Detach, SetPriority, At
<1>2. /\ k \in KernelState /\ k.stat \in [Thread -> Stat]
      /\ k.prio \in [Thread -> Prio] /\ k.cur \in Thread
      /\ KernelInv(k) /\ ListFacts(k) /\ StatFacts(k)
      /\ k.stat[t] # "close"
  BY <1>1, RunningThread DEF KernelState
<1>3. CASE Create(t, u)
  <2>1. /\ k' = [k EXCEPT !.stat[u] = "init", !.prio[u] = InitPrio[u], !.err[u] = "EOK"]
        /\ k.stat[u] = "none" /\ repri' = repri
    BY <1>3 DEF Create
  <2>2. u # k.cur /\ ~InReadyList(k, u)
    BY <1>2, <2>1 DEF StatFacts
  <2>3. /\ k'.cur = k.cur /\ k'.lock = k.lock /\ k'.ready = k.ready
        /\ \A x \in Thread : x # u => k'.stat[x] = k.stat[x] /\ k'.prio[x] = k.prio[x]
    BY <1>2, <2>1 DEF KernelState
  <2>4. Undisturbed(k', k)
    BY <1>2, <2>2, <2>3 DEF Undisturbed, InReadyList
  <2> QED BY <1>1, <2>1, <2>4, UndisturbedHighest DEF Owing
<1>4. CASE Startup(t, u)
  <2>1. /\ k' = [k EXCEPT !.stat[u] = "suspend", !.yield = @ \ {u}]
        /\ k.stat[u] = "init" /\ repri' = repri
    BY <1>4 DEF Startup
  <2>2. u # k.cur
    BY <1>2, <2>1 DEF StatFacts
  <2>3. /\ k'.cur = k.cur /\ k'.lock = k.lock /\ k'.ready = k.ready /\ k'.prio = k.prio
        /\ k'.stat[k.cur] = k.stat[k.cur]
    BY <1>2, <2>1, <2>2 DEF KernelState
  <2>4. Undisturbed(k', k)
    BY <2>3 DEF Undisturbed, InReadyList
  <2> QED BY <1>1, <2>1, <2>4, UndisturbedHighest DEF Owing
<1>5. CASE ResumeOther(t, u)
  <2>1. k' = ResumeUnlink(k, u) /\ k.stat[u] = "suspend" /\ repri' = repri
    BY <1>5 DEF ResumeOther, SelfSuspended
  <2>2. /\ k'.stat = k.stat /\ k'.cur = k.cur /\ k'.lock = k.lock /\ k'.prio = k.prio
        /\ \A x : InReadyList(k', x) <=> InReadyList(k, x)
    BY <1>2, <2>1, UnlinkSuspended
  <2>3. Undisturbed(k', k)
    BY <2>2 DEF Undisturbed
  <2> QED BY <1>1, <2>1, <2>3, UndisturbedHighest DEF Owing
<1>6. CASE Detach(t, u)
  <2>1. /\ k' = IF k.stat[u] # "init" THEN rt_schedule_remove_thread(k, u) ELSE k
        /\ repri' = repri
    BY <1>6 DEF Detach
  <2>2. CASE k.stat[u] = "init"
    <3>1. Undisturbed(k', k)
      BY <2>1, <2>2 DEF Undisturbed
    <3> QED BY <1>1, <2>1, <3>1, UndisturbedHighest DEF Owing
  <2>3. CASE k.stat[u] # "init"
    <3>1. SameFields(k', k) /\ \A x : InReadyList(k', x) <=> InReadyList(k, x) /\ x # u
      BY <1>2, <2>1, <2>3, ScheduleRemove
    <3>2. Undisturbed(k', k)
      BY <3>1 DEF Undisturbed, SameFields
    <3> QED BY <1>1, <2>1, <3>2, UndisturbedHighest DEF Owing
  <2> QED BY <2>2, <2>3
<1>7. ASSUME NEW p \in Prio, SetPriority(t, u, p) PROVE HighestInv'
  BY <1>7, ExcusedHighest DEF SetPriority
<1> QED
  BY <1>3, <1>4, <1>5, <1>6, <1>7 DEF Call2

\* The rest of a call.
LEMMA ContinueHighest ==
  ASSUME SchedInv, HighestInv, NEW t \in Thread, Continue(t)
  PROVE  HighestInv'
<1>1. k.cur = t
  BY DEF Continue, ResumeStarted, ResumeInsert, Reschedule, SleepSetError,
     SleepSchedule, SleepReturn, ExitSchedule, DetachClose, At
<1>2. /\ TypeOK /\ k \in KernelState /\ k.stat \in [Thread -> Stat]
      /\ KernelInv(k) /\ ListFacts(k) /\ StatFacts(k) /\ arg[t] \in Thread
  BY <1>1, RunningThread DEF SchedInv
<1>3. CASE ResumeStarted(t)
  <2>1. /\ pc[t] = "resume" /\ repri' = repri
        /\ \/ k.stat[arg[t]] = "suspend" /\ k' = ResumeUnlink(k, arg[t])
           \/ k' = k
    BY <1>3 DEF ResumeStarted, At
  <2>2. Undisturbed(k', k)
    <3>1. CASE k' = k
      BY <3>1 DEF Undisturbed
    <3>2. CASE k.stat[arg[t]] = "suspend" /\ k' = ResumeUnlink(k, arg[t])
      <4>1. /\ k'.stat = k.stat /\ k'.cur = k.cur /\ k'.lock = k.lock /\ k'.prio = k.prio
            /\ \A x : InReadyList(k', x) <=> InReadyList(k, x)
        BY <1>2, <3>2, UnlinkSuspended
      <4> QED BY <4>1 DEF Undisturbed
    <3> QED BY <2>1, <3>1, <3>2
  <2> QED BY <1>1, <2>1, <2>2, UndisturbedHighest DEF Owing
<1>4. CASE ResumeInsert(t)
  <2>1. k'.cur = t /\ Goto(t, "resched")
    BY <1>1, <1>2, <1>4 DEF ResumeInsert, rt_schedule_insert_thread, KernelState
  <2> QED BY <1>2, <2>1, OwingHighest DEF Owing
<1>5. CASE Reschedule(t) \/ SleepSchedule(t) \/ ExitSchedule(t)
  <2>1. k' = rt_schedule(k)
    BY <1>5 DEF Reschedule, SleepSchedule, ExitSchedule, ThenSchedule
  <2> QED BY <1>2, <2>1, ScheduledHighest
<1>6. CASE SleepSetError(t)
  <2>1. k'.cur = t /\ Goto(t, "sleepsched")
    BY <1>1, <1>2, <1>6 DEF SleepSetError, KernelState
  <2> QED BY <1>2, <2>1, OwingHighest DEF Owing
<1>7. CASE SleepReturn(t)
  <2>1. /\ pc[t] = "slept" /\ repri' = repri
        /\ k'.cur = k.cur /\ k'.lock = k.lock /\ k'.ready = k.ready
        /\ k'.prio = k.prio /\ k'.stat = k.stat
    BY <1>2, <1>7 DEF SleepReturn, At, KernelState
  <2>2. Undisturbed(k', k)
    BY <2>1 DEF Undisturbed, InReadyList
  <2> QED BY <1>1, <2>1, <2>2, UndisturbedHighest DEF Owing
<1>8. CASE DetachClose(t)
  <2>1. k'.cur = t /\ Goto(t, "resched")
    BY <1>1, <1>2, <1>8 DEF DetachClose, CloseThread, rt_thread_defunct_enqueue, KernelState
  <2> QED BY <1>2, <2>1, OwingHighest DEF Owing
<1> QED
  BY <1>3, <1>4, <1>5, <1>6, <1>7, <1>8 DEF Continue

\* The idle thread gives back threads that are neither current nor queued.
LEMMA ReapHighest ==
  ASSUME SchedInv, HighestInv, Reap
  PROVE  HighestInv'
<1>1. k.cur = Idle /\ pc[Idle] \in {"run", "reap"} /\ repri' = repri
  BY DEF Reap, ReapPick, ReapFree, At
<1>2. /\ k.stat \in [Thread -> Stat] /\ KernelInv(k) /\ StatFacts(k)
      /\ arg[Idle] \in Thread
  BY <1>1, RunningThread, ThreadAssumption
<1>3. Undisturbed(k', k)
  <2>1. CASE ReapPick
    BY <2>1 DEF ReapPick, Undisturbed
  <2>2. CASE ReapFree
    <3> DEFINE u == arg[Idle]
    <3>1. k' = [rt_list_remove(k, u) EXCEPT !.stat[u] = "none"] /\ pc[Idle] = "reap"
      BY <2>2 DEF ReapFree, At
    <3>2. k.stat[u] = "close" /\ u # k.cur /\ u \in Thread
      BY <1>1, <1>2, <3>1, ThreadAssumption DEF SchedInv, ServesOK, StatFacts
    <3> HIDE DEF u
    <3>3. /\ k'.stat = [k.stat EXCEPT ![u] = "none"] /\ k'.cur = k.cur
          /\ k'.lock = k.lock /\ k'.prio = k.prio
          /\ \A x : InReadyList(k', x) <=> InReadyList(k, x)
      BY <1>2, <3>1, <3>2, ReapStep
    <3> QED BY <1>2, <3>2, <3>3 DEF Undisturbed
  <2> QED BY <2>1, <2>2 DEF Reap
<1> QED
  BY <1>1, <1>3, UndisturbedHighest, ThreadAssumption DEF Owing

\* Every interrupt handler that moves a thread leaves through rt_schedule.
LEMMA InterruptHighest ==
  ASSUME SchedInv, Interrupt
  PROVE  HighestInv'
<1>1. /\ k \in KernelState /\ KernelInv(k) /\ ListFacts(k) /\ StatFacts(k)
  BY DEF SchedInv, KernelOK, KernelInv, TypeOK
<1>2. CASE SliceEnd
  <2> DEFINE s == [k EXCEPT !.yield = @ \union {k.cur}]
  <2>1. k' = rt_schedule(s)
    BY <1>2 DEF SliceEnd, ThenSchedule
  <2>2. /\ s \in KernelState /\ SameLists(s, k) /\ s.stat = k.stat
        /\ s.armed = k.armed /\ s.cur = k.cur /\ s.lock = k.lock /\ s.prio = k.prio
    BY <1>1 DEF KernelState, SameLists
  <2> HIDE DEF s
  <2>3. /\ ListFacts(s)
        /\ \A x : InReadyList(s, x) <=> InReadyList(k, x)
        /\ \A x : Dead(s, x) <=> Dead(k, x)
    BY <1>1, <2>2, FieldsChange
  <2>4. KernelInv(s)
    BY <1>1, <2>2, <2>3 DEF KernelInv, StatFacts
  <2> QED BY <2>1, <2>4, ScheduledHighest
<1>3. ASSUME NEW u \in Thread, Timeout(u) PROVE HighestInv'
  <2>1. PICK w : Resumed(w, k, u) /\ k' = rt_schedule(w)
    BY <1>1, <1>3, TimeoutStep DEF Timeout
  <2>2. KernelInv(w)
    BY <2>1 DEF Resumed
  <2> QED BY <2>1, <2>2, ScheduledHighest
<1>4. ASSUME NEW u \in Thread, IsrResume(u) PROVE HighestInv'
  <2>1. Resumed(rt_thread_resume(k, u), k, u) /\ k' = rt_schedule(rt_thread_resume(k, u))
    BY <1>1, <1>4, ResumeSuspended DEF IsrResume, SelfSuspended, ThenSchedule
  <2>2. KernelInv(rt_thread_resume(k, u))
    BY <2>1 DEF Resumed
  <2> QED BY <2>1, <2>2, ScheduledHighest
<1> QED
  BY <1>2, <1>3, <1>4 DEF Interrupt

\* The scheduler starts with the most urgent thread.
LEMMA InitHighest ==
  ASSUME Init
  PROVE  HighestInv
<1>1. /\ k.cur = Main /\ k.stat[Main] = "running" /\ k.prio = InitPrio
      /\ k.ready = [p \in Prio |-> IF p = InitPrio[Idle] THEN <<Idle>> ELSE <<>>]
  BY MainAssumption DEF Init
<1>2. ASSUME NEW t \in Thread, InReadyList(k, t) PROVE t = Idle
  <2>1. PICK p \in Prio : Contains(k.ready[p], t)
    BY <1>2 DEF InReadyList
  <2>2. k.ready[p] = <<Idle>> \/ k.ready[p] = <<>>
    BY <1>1
  <2> QED BY <2>1, <2>2 DEF Contains
<1> QED
  BY <1>1, <1>2, StartAssumption DEF HighestInv, Unbeaten

\* HighestInv is inductive beside SchedInv.
LEMMA NextHighest ==
  ASSUME SchedInv, HighestInv, [Next]_vars
  PROVE  HighestInv'
<1>1. CASE UNCHANGED vars
  BY <1>1 DEF vars, HighestInv, Unbeaten
<1> QED
  BY <1>1, Call1Highest, Call2Highest, ContinueHighest, ReapHighest, InterruptHighest
  DEF Next

\* A thread that executes its own code with the scheduler unlocked is beaten
\* by no ready thread: every wake-up, exit, timeout and unlock is followed by
\* its rt_schedule before the current thread goes on (scheduler_up.c:243).
THEOREM HighestRunning == ASSUME Discipline PROVE Spec => []HighestRuns
<1>1. Init => HighestInv
  BY InitHighest
<1>2. SchedInv /\ HighestInv /\ [Next]_vars => HighestInv'
  BY NextHighest
<1>3. SchedInv /\ HighestInv => HighestRuns
  <2> SUFFICES ASSUME SchedInv, Unbeaten(k)
               PROVE  /\ k.stat[k.cur] = "running"
                      /\ \A p \in k.group : k.prio[k.cur] <= p
    BY DEF HighestInv, HighestRuns, Owing
  <2>1. ListFacts(k) /\ k \in KernelState
    BY DEF SchedInv, TypeOK, KernelOK, KernelInv
  <2>2. ASSUME NEW p \in k.group PROVE k.prio[k.cur] <= p
    <3>1. p \in Prio /\ k.ready[p] # <<>> /\ k.ready[p] \in Seq(Thread)
      BY <2>1 DEF ListFacts, GroupOK, KernelState
    <3>2. Head(k.ready[p]) \in Thread /\ Contains(k.ready[p], Head(k.ready[p]))
      BY <3>1, HeadList
    <3>3. k.prio[Head(k.ready[p])] = p /\ InReadyList(k, Head(k.ready[p]))
      BY <2>1, <3>1, <3>2 DEF ListFacts, InReadyList
    <3> QED BY <3>2, <3>3 DEF Unbeaten
  <2> QED BY <2>2 DEF Unbeaten
<1> QED
  BY <1>1, <1>2, <1>3, Invariance, PTL DEF Spec

-----------------------------------------------------------------------------
(* A preempted thread keeps its turn. *)

\* What PreemptedFirst says of a step.
Preemption ==
  k.stat[k.cur] = "running" /\ k'.stat[k.cur] = "ready"
      /\ k'.prio[k'.cur] < k'.prio[k.cur]
    => Head(k'.ready[k'.prio[k.cur]]) = k.cur

\* A step that ends in rt_schedule with the same thread still current and running.
LEMMA SchedulePreemption ==
  ASSUME NEW s, KernelInv(s), k' = rt_schedule(s), s.cur = k.cur,
         k.stat[k.cur] = "running" => s.stat[k.cur] = "running"
  PROVE  Preemption
BY SchedulePreempts DEF Preemption

\* Unlinking a thread changes no stat field.
LEMMA RemoveKeepsStat ==
  ASSUME NEW s, NEW t
  PROVE  /\ rt_list_remove(s, t).stat = s.stat
         /\ rt_schedule_remove_thread(s, t).stat = s.stat
         /\ ResumeUnlink(s, t).stat = s.stat
BY DEF rt_list_remove, rt_schedule_remove_thread, ResumeUnlink

\* A running thread that suspends itself is suspended.
LEMMA SuspendRunning ==
  ASSUME NEW s, s \in KernelState, NEW t \in Thread, s.stat[t] = "running"
  PROVE  rt_thread_suspend(s, t).stat[t] = "suspend"
BY RemoveKeepsStat DEF rt_thread_suspend, KernelState

\* Everything else that a thread does leaves the current thread running, or
\* suspends or closes it.
LEMMA ThreadPreemption ==
  ASSUME SchedInv, NEW t \in Thread,
         Call1(t) \/ Continue(t) \/ (\E u \in Thread : Call2(t, u))
  PROVE  Preemption
<1>1. /\ k \in KernelState /\ k.stat \in [Thread -> Stat] /\ k.cur \in Thread
      /\ KernelInv(k) /\ ListFacts(k) /\ arg \in [Thread -> Thread]
  BY DEF SchedInv, TypeOK, KernelOK, KernelInv, KernelState
<1>2. CASE Reschedule(t) \/ SleepSchedule(t) \/ ExitSchedule(t)
  <2>1. k' = rt_schedule(k)
    BY <1>2 DEF Reschedule, SleepSchedule, ExitSchedule, ThenSchedule
  <2> QED BY <1>1, <2>1, SchedulePreemption
<1>3. ASSUME k.stat[k.cur] = "running" => k'.stat[k.cur] # "ready"
      PROVE  Preemption
  BY <1>3 DEF Preemption
<1>4. CASE SuspendSelf(t)
  <2>1. k' = rt_thread_suspend(k, k.cur)
    BY <1>4 DEF SuspendSelf, At
  <2> QED BY <1>1, <1>3, <2>1, SuspendRunning
<1>5. CASE Sleep(t)
  <2> DEFINE s == [k EXCEPT !.err[t] = "EOK"]
             r == rt_thread_suspend(s, t)
  <2>1. k' = [r EXCEPT !.armed = @ \union {t}] /\ k.cur = t
    BY <1>5 DEF Sleep, At
  <2>2. s \in KernelState /\ s.stat = k.stat
    BY <1>1 DEF KernelState, Error
  <2> HIDE DEF s
  <2>3. k.stat[t] = "running" => r.stat[t] = "suspend"
    BY <2>2, SuspendRunning
  <2> HIDE DEF r
  <2>4. k'.stat = r.stat
    BY <2>1
  <2> QED BY <1>3, <2>1, <2>3, <2>4
<1>6. CASE Yield(t) \/ EnterCritical(t) \/ ExitCritical(t)
            \/ SleepSetError(t) \/ SleepReturn(t)
  <2>1. k'.stat = k.stat
    BY <1>1, <1>6 DEF Yield, EnterCritical, ExitCritical, SleepSetError, SleepReturn, KernelState
  <2> QED BY <1>3, <2>1
<1>7. CASE Exit(t) \/ DetachClose(t)
  <2>1. PICK s, u : /\ k' = CloseThread(s, u) /\ s.stat = k.stat
    BY <1>7, RemoveKeepsStat DEF Exit, DetachClose
  <2>2. k'.stat = [k.stat EXCEPT ![u] = "close"]
    BY <2>1 DEF CloseThread, rt_thread_defunct_enqueue
  <2> QED BY <1>1, <1>3, <2>2
<1>8. CASE ResumeInsert(t)
  <2>1. k' = rt_schedule_insert_thread(k, arg[t])
    BY <1>8 DEF ResumeInsert
  <2>2. k'.stat = [k.stat EXCEPT ![arg[t]] = IF arg[t] = k.cur THEN "running" ELSE "ready"]
    BY <1>1, <2>1 DEF rt_schedule_insert_thread, KernelState
  <2> QED BY <1>1, <1>3, <2>2
<1>9. CASE ResumeStarted(t)
  <2>1. k'.stat = k.stat
    BY <1>9, RemoveKeepsStat DEF ResumeStarted
  <2> QED BY <1>3, <2>1
<1>10. ASSUME NEW u \in Thread, Call2(t, u) PROVE Preemption
  <2>1. CASE Create(t, u) \/ Startup(t, u)
    <3>1. PICK v \in {"init", "suspend"} : k'.stat = [k.stat EXCEPT ![u] = v]
      BY <1>1, <2>1 DEF Create, Startup, KernelState
    <3> QED BY <1>1, <1>3, <3>1
  <2>2. CASE ResumeOther(t, u) \/ Detach(t, u)
    <3>1. k'.stat = k.stat
      BY <2>2, RemoveKeepsStat DEF ResumeOther, Detach
    <3> QED BY <1>3, <3>1
  <2>3. ASSUME NEW p \in Prio, SetPriority(t, u, p) PROVE Preemption
    <3>1. k' = ChangePriority(k, u, p) /\ u # Idle
      BY <2>3, RoleAssumption DEF SetPriority
    <3>2. k'.stat = k.stat
      BY <1>1, <3>1, ChangePriorityStep
    <3> QED BY <1>3, <3>2
  <2> QED BY <1>10, <2>1, <2>2, <2>3 DEF Call2
<1> QED
  BY <1>2, <1>4, <1>5, <1>6, <1>7, <1>8, <1>9, <1>10 DEF Call1, Continue

\* The idle thread makes nobody ready.
LEMMA ReapPreemption ==
  ASSUME SchedInv, Reap
  PROVE  Preemption
<1>1. /\ k \in KernelState /\ k.stat \in [Thread -> Stat] /\ k.cur \in Thread
      /\ ListFacts(k) /\ arg[Idle] \in Thread
  BY ThreadAssumption DEF SchedInv, TypeOK, KernelOK, KernelInv, KernelState
<1>2. CASE ReapPick
  BY <1>2 DEF ReapPick, Preemption
<1>3. CASE ReapFree
  <2> DEFINE u == arg[Idle]
             l == rt_list_remove(k, u)
  <2>1. k' = [l EXCEPT !.stat[u] = "none"]
    BY <1>3 DEF ReapFree
  <2>2. l \in KernelState
    BY <1>1, ListRemove
  <2>3. l.stat = k.stat
    BY RemoveKeepsStat
  <2> HIDE DEF l, u
  <2>4. k'.stat = [k.stat EXCEPT ![u] = "none"]
    BY <2>1, <2>2, <2>3 DEF KernelState
  <2> QED BY <1>1, <2>4 DEF Preemption
<1> QED
  BY <1>2, <1>3 DEF Reap

\* What an interrupt wakes is not the running thread.
LEMMA InterruptPreemption ==
  ASSUME SchedInv, Interrupt
  PROVE  Preemption
<1>1. /\ k \in KernelState /\ KernelInv(k) /\ ListFacts(k) /\ StatFacts(k)
      /\ k.cur \in Thread /\ k.stat \in [Thread -> Stat]
  BY DEF SchedInv, KernelOK, KernelInv, TypeOK, KernelState
<1>2. CASE SliceEnd
  <2> DEFINE s == [k EXCEPT !.yield = @ \union {k.cur}]
  <2>1. k' = rt_schedule(s)
    BY <1>2 DEF SliceEnd, ThenSchedule
  <2>2. /\ s \in KernelState /\ SameLists(s, k) /\ s.stat = k.stat
        /\ s.armed = k.armed /\ s.cur = k.cur /\ s.lock = k.lock /\ s.prio = k.prio
    BY <1>1 DEF KernelState, SameLists
  <2> HIDE DEF s
  <2>3. /\ ListFacts(s)
        /\ \A x : InReadyList(s, x) <=> InReadyList(k, x)
        /\ \A x : Dead(s, x) <=> Dead(k, x)
    BY <1>1, <2>2, FieldsChange
  <2>4. KernelInv(s)
    BY <1>1, <2>2, <2>3 DEF KernelInv, StatFacts
  <2> QED BY <2>1, <2>2, <2>4, SchedulePreemption
<1>3. ASSUME NEW u \in Thread, k.stat[u] = "suspend", NEW w, Resumed(w, k, u),
             k' = rt_schedule(w)
      PROVE  Preemption
  <2>1. /\ KernelInv(w) /\ w.cur = k.cur
        /\ k.stat[k.cur] = "running" => w.stat[k.cur] = "running"
    BY <1>1, <1>3 DEF Resumed
  <2> QED BY <1>3, <2>1, SchedulePreemption
<1>4. ASSUME NEW u \in Thread, Timeout(u) PROVE Preemption
  <2>1. k.stat[u] = "suspend"
    BY <1>1, <1>4 DEF Timeout, StatFacts
  <2>2. PICK w : Resumed(w, k, u) /\ k' = rt_schedule(w)
    BY <1>1, <1>4, TimeoutStep DEF Timeout
  <2> QED BY <1>3, <2>1, <2>2
<1>5. ASSUME NEW u \in Thread, IsrResume(u) PROVE Preemption
  <2>1. /\ k.stat[u] = "suspend" /\ k' = rt_schedule(rt_thread_resume(k, u))
        /\ Resumed(rt_thread_resume(k, u), k, u)
    BY <1>1, <1>5, ResumeSuspended DEF IsrResume, SelfSuspended, ThenSchedule
  <2> QED BY <1>3, <2>1
<1> QED
  BY <1>2, <1>4, <1>5 DEF Interrupt

\* A thread preempted by a more urgent one is the first of its priority to
\* continue (scheduler_up.c:383).
THEOREM PreemptedKeepsTurn == ASSUME Discipline PROVE Spec => PreemptedFirst
<1>1. SchedInv /\ [Next]_vars => [Preemption]_vars
  <2> SUFFICES ASSUME SchedInv, Next PROVE Preemption
    OBVIOUS
  <2> QED BY ReapPreemption, ThreadPreemption, InterruptPreemption DEF Next
<1>2. PreemptedFirst <=> [][Preemption]_vars
  BY DEF PreemptedFirst, Preemption
<1> QED
  BY <1>1, <1>2, Invariance, PTL DEF Spec
=============================================================================
