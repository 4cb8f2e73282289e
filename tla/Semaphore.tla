----------------------------- MODULE Semaphore -----------------------------
(***************************************************************************)
(* A semaphore of ipc.c.  A release does not raise the value while threads *)
(* wait: it hands its token to the first of them, which owns it although   *)
(* it has not run yet.  Threads and interrupt handlers release, threads    *)
(* take with a finite timeout or without one, a thread resets the value.   *)
(***************************************************************************)
EXTENDS Ipc

CONSTANTS
  ValueMax,   \* RT_SEM_VALUE_MAX
  SemFlag,    \* RT_IPC_FLAG_FIFO or RT_IPC_FLAG_PRIO
  Taker,      \* threads that take
  Releaser,   \* threads that release
  SemReset    \* threads that call rt_sem_control

ASSUME SemaphoreAssumption ==
  /\ "sem" \in WaitList
  /\ ValueMax \in Nat \ {0}
  /\ SemFlag \in {"FIFO", "PRIO"}
  /\ Taker \union Releaser \union SemReset \subseteq Thread \ {Idle}

VARIABLE
  sem         \* value

SemLabel == {"taking", "take"}

SemType == sem \in 0..ValueMax

\* rt_sem_init, rt_sem_create
SemInit == sem \in 0..ValueMax

-----------------------------------------------------------------------------
\* _rt_sem_take
TakeToken(t, finite) ==
  \/ sem > 0 /\ sem' = sem - 1 /\ Goto(t, "run") /\ UNCHANGED k
  \/ /\ sem = 0
     /\ k' = SuspendTimed([k EXCEPT !.err[t] = "EINTR"], "sem", SemFlag, t, finite)
     /\ Goto(t, "taking")
     /\ UNCHANGED sem

Take(t) == At(t, "run") /\ t \in Taker /\ \E finite \in BOOLEAN : TakeToken(t, finite)

TakeSchedule(t) == ScheduleThen(t, "taking", "take") /\ UNCHANGED sem

\* Back from rt_schedule: with the token when the error is RT_EOK.
TakeReturn(t) == At(t, "take") /\ Goto(t, "run") /\ UNCHANGED <<k, sem>>

\* Mutant of Release: the token that is handed over is counted as well.
ReleaseTwice(t) ==
  /\ At(t, "run") /\ t \in Releaser
  /\ sem < ValueMax /\ sem' = sem + 1
  /\ IF k.wait["sem"] = <<>> THEN UNCHANGED <<k, pc>>
     ELSE k' = ResumeFirst(k, "sem") /\ Goto(t, "resched")

\* rt_sem_release wakes the first waiter, or counts, or fails at the maximum.
Release(t) ==
  /\ At(t, "run") /\ t \in Releaser
  /\ \/ /\ k.wait["sem"] # <<>>
        /\ k' = ResumeFirst(k, "sem") /\ Goto(t, "resched")
        /\ UNCHANGED sem
     \/ /\ k.wait["sem"] = <<>> /\ sem < ValueMax
        /\ sem' = sem + 1
        /\ UNCHANGED <<k, pc>>

\* The same from an interrupt handler, which leaves through rt_schedule.
IsrRelease ==
  /\ UNCHANGED pc
  /\ \/ /\ k.wait["sem"] # <<>>
        /\ k' = rt_schedule(ResumeFirst(k, "sem"))
        /\ UNCHANGED sem
     \/ /\ k.wait["sem"] = <<>> /\ sem < ValueMax
        /\ sem' = sem + 1
        /\ UNCHANGED k

\* RT_IPC_CMD_RESET: the waiting threads return with an error.
ResetSem(t, value) ==
  /\ At(t, "run") /\ t \in SemReset
  /\ k' = ResumeAll(k, "sem")
  /\ sem' = value
  /\ Goto(t, "resched")

SemNext ==
  \/ \E t \in Thread : Take(t) \/ TakeSchedule(t) \/ TakeReturn(t) \/ Release(t)
  \/ \E t \in Thread, value \in 0..ValueMax : ResetSem(t, value)
  \/ IsrRelease

-----------------------------------------------------------------------------
(* Properties *)

\* Threads that a release has given its token and that have not returned yet.
Promised == {t \in Thread : pc[t] \in SemLabel /\ k.err[t] = "EOK"}

\* A semaphore counts: no token is lost or used twice when a release races the
\* timeout of the thread it wakes, a reset, or a thread that takes before the
\* woken one runs.
Counter == INSTANCE AbstractSemaphore WITH free <- sem, promised <- Cardinality(Promised)

\* No thread waits for a token while one is free.
NoIdleToken == sem > 0 => k.wait["sem"] = <<>>
=============================================================================
