------------------------------ MODULE MemPool ------------------------------
(***************************************************************************)
(* A memory pool of mempool.c: a list of free blocks of one size, and the  *)
(* threads that wait for one.  A thread that waits is linked in front of   *)
(* the others, and the first one is woken; a woken thread does not own a   *)
(* block, it looks again when it runs.                                     *)
(***************************************************************************)
EXTENDS Ipc

CONSTANTS
  Block,      \* the blocks of the pool
  Allocator   \* threads that allocate and free

ASSUME MemPoolAssumption ==
  /\ "pool" \in WaitList
  /\ IsFiniteSet(Block) /\ Block # {}
  /\ Allocator \subseteq Thread \ {Idle}

VARIABLES
  blocks,     \* block_list, and block_free_count
  used,       \* blocks that have been handed out
  hurry       \* threads whose call still has a finite timeout

poolVars == <<blocks, used, hurry>>

PoolLabel == {"allocing", "alloc"}

PoolType ==
  /\ blocks \in [list : Seq(Block), count : 0..Cardinality(Block)]
  /\ used \subseteq Block
  /\ hurry \subseteq Allocator

\* rt_mp_init, rt_mp_create
PoolInit ==
  /\ blocks = [list |-> SetToSeq(Block), count |-> Cardinality(Block)]
  /\ used = {}
  /\ hurry = {}

-----------------------------------------------------------------------------
(* rt_mp_alloc *)

\* Take the first free block.
TakeBlock(t) ==
  /\ blocks.count > 0
  /\ blocks' = [list |-> Tail(blocks.list), count |-> blocks.count - 1]
  /\ used' = used \union {Head(blocks.list)}
  /\ hurry' = hurry \ {t}
  /\ Goto(t, "run")
  /\ UNCHANGED k

\* One turn of the wait loop; the thread goes in front of the waiting ones.
WaitForBlock(t, finite) ==
  /\ blocks.count = 0
  /\ LET u == rt_thread_suspend([k EXCEPT !.err[t] = "EOK"], t)
     IN  k' = [u EXCEPT !.wait["pool"] = Cons(t, @),
                        !.armed = IF finite THEN @ \union {t} ELSE @]
  /\ hurry' = IF finite THEN hurry \union {t} ELSE hurry \ {t}
  /\ Goto(t, "allocing")
  /\ UNCHANGED <<blocks, used>>

Alloc(t) ==
  /\ At(t, "run") /\ t \in Allocator
  /\ \/ TakeBlock(t)
     \/ \E finite \in BOOLEAN : WaitForBlock(t, finite)

AllocSchedule(t) == ScheduleThen(t, "allocing", "alloc") /\ UNCHANGED poolVars

\* Woken: look again; the time may be up although the thread was woken.
AllocAgain(t) ==
  /\ At(t, "alloc") /\ k.err[t] = "EOK"
  /\ \/ TakeBlock(t)
     \/ WaitForBlock(t, t \in hurry)
     \/ /\ blocks.count = 0 /\ t \in hurry
        /\ k' = [k EXCEPT !.err[t] = "ETIMEOUT"]
        /\ hurry' = hurry \ {t}
        /\ Goto(t, "run")
        /\ UNCHANGED <<blocks, used>>

AllocFails(t) ==
  /\ At(t, "alloc") /\ k.err[t] # "EOK"
  /\ hurry' = hurry \ {t}
  /\ Goto(t, "run")
  /\ UNCHANGED <<k, blocks, used>>

\* Mutant of GiveBack: the block is linked but not counted while threads wait.
GiveBackUncounted(b) ==
  [ list |-> Cons(b, blocks.list),
    count |-> IF k.wait["pool"] = <<>> THEN blocks.count + 1 ELSE blocks.count ]

\* Link block b in front of the free ones.
GiveBack(b) == [list |-> Cons(b, blocks.list), count |-> blocks.count + 1]

\* Mutant of WakesOne: a thread is woken only when the pool was empty.
WakesOneAtEdge == k.wait["pool"] # <<>> /\ blocks.count = 0

\* A thread waits: a free wakes the first one and then calls rt_schedule.
WakesOne == k.wait["pool"] # <<>>

\* rt_mp_free, of a block that this thread or another one has allocated.
FreeBlock(t, b) ==
  /\ At(t, "run") /\ t \in Allocator /\ b \in used
  /\ blocks' = GiveBack(b)
  /\ used' = used \ {b}
  /\ IF WakesOne THEN k' = ResumeFirst(k, "pool") /\ Goto(t, "resched")
                 ELSE UNCHANGED <<k, pc>>
  /\ UNCHANGED hurry

\* The same from an interrupt handler.
IsrFreeBlock(b) ==
  /\ b \in used
  /\ blocks' = GiveBack(b)
  /\ used' = used \ {b}
  /\ k' = IF WakesOne THEN rt_schedule(ResumeFirst(k, "pool")) ELSE k
  /\ UNCHANGED <<pc, hurry>>

PoolNext ==
  \/ \E t \in Thread : Alloc(t) \/ AllocSchedule(t) \/ AllocAgain(t) \/ AllocFails(t)
  \/ \E t \in Thread, b \in Block : FreeBlock(t, b)
  \/ \E b \in Block : IsrFreeBlock(b)

-----------------------------------------------------------------------------
(* Properties *)

\* Every block is free once or handed out, and the count is that of the list:
\* no block is given to two threads, and none is lost to a failed call.
BlocksAccounted ==
  /\ blocks.count = Len(blocks.list)
  /\ NoRepeat(blocks.list)
  /\ ToSet(blocks.list) = Block \ used

\* While threads wait for a block, a woken thread is on its way for each free
\* block, whoever took the block it was woken for.
NoLostBlock ==
  k.wait["pool"] # <<>> =>
    Cardinality({t \in Thread : pc[t] \in PoolLabel /\ k.err[t] = "EOK"
                                  /\ t \notin ToSet(k.wait["pool"])}) >= blocks.count
=============================================================================
