----------------------------- MODULE Completion -----------------------------
(***************************************************************************)
(* A completion of components/drivers/ipc/completion.c: a flag, and one    *)
(* thread that waits for it.  A driver's interrupt handler or another      *)
(* thread sets the flag; the wait that sees it clears it again.            *)
(***************************************************************************)
EXTENDS Ipc

CONSTANTS
  Waiter,     \* the thread that waits; rt_completion_wait asserts that the
              \* suspend list is empty: one thread only may wait
  Doer        \* <<thread, label>>: the places in threads' code that call done

ASSUME CompletionAssumption ==
  /\ "done" \in WaitList
  /\ Waiter \in Thread \ {Idle}
  /\ \A d \in Doer : d[1] \in Thread \ {Idle, Waiter} /\ d[2] \in {"run", "work"}

VARIABLE
  flag        \* flag = RT_COMPLETED

CompletionLabel == {"completing", "complete"}

CompletionType == flag \in BOOLEAN

\* rt_completion_init
CompletionInit == flag = FALSE

-----------------------------------------------------------------------------
\* Mutant of Await: the flag is not looked at before the thread is suspended.
AwaitBlind ==
  /\ At(Waiter, "run")
  /\ \E finite \in BOOLEAN :
       k' = SuspendTimed([k EXCEPT !.err[Waiter] = "EOK"], "done", "FIFO", Waiter, finite)
  /\ Goto(Waiter, "completing")
  /\ UNCHANGED flag

\* rt_completion_wait with a timeout that is not 0: the flag is set and is
\* cleared, or the thread is suspended.
Await ==
  /\ At(Waiter, "run")
  /\ \/ flag /\ flag' = FALSE /\ UNCHANGED <<k, pc>>
     \/ /\ ~flag
        /\ \E finite \in BOOLEAN :
             k' = SuspendTimed([k EXCEPT !.err[Waiter] = "EOK"], "done", "FIFO",
                               Waiter, finite)
        /\ Goto(Waiter, "completing")
        /\ UNCHANGED flag

AwaitSchedule == ScheduleThen(Waiter, "completing", "complete") /\ UNCHANGED flag

\* Back from rt_schedule, woken or timed out: the flag is cleared either way.
AwaitReturn ==
  /\ At(Waiter, "complete")
  /\ flag' = FALSE
  /\ Goto(Waiter, "run")
  /\ UNCHANGED k

\* Wake the thread that waits, if it does.
Woken(s) == IF s.wait["done"] # <<>>
            THEN rt_thread_resume(s, Head(s.wait["done"])) ELSE s

\* rt_completion_done, which leaves through rt_schedule when it woke a thread,
\* and does nothing when the flag is set.
Done(t, label) ==
  /\ At(t, label) /\ ~flag
  /\ flag' = TRUE
  /\ k' = Woken(k)
  /\ Goto(t, IF k.wait["done"] = <<>> THEN label ELSE "resched")

\* The same call from an interrupt handler.
IsrDone ==
  /\ ~flag /\ flag' = TRUE
  /\ k' = IF k.wait["done"] = <<>> THEN k ELSE rt_schedule(Woken(k))
  /\ UNCHANGED pc

CompletionNext ==
  \/ Await \/ AwaitSchedule \/ AwaitReturn \/ IsrDone
  \/ \E d \in Doer : Done(d[1], d[2])

-----------------------------------------------------------------------------
(* Properties *)

\* The thread does not sleep on a completion that is done, whether done comes
\* before the wait, in its windows or from an interrupt; and a wait that will
\* return RT_EOK was completed and nobody has used the completion up: a timeout
\* in the same window is not taken for a wake-up.
NoMissedCompletion ==
  /\ flag => k.wait["done"] = <<>>
  /\ /\ pc[Waiter] \in CompletionLabel
     /\ k.wait["done"] = <<>> /\ k.err[Waiter] = "EOK"
     => flag
=============================================================================
