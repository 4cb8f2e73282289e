--------------------------- MODULE Objects_proofs ---------------------------
(***************************************************************************)
(* Proofs about the objects that threads wait on, each for any threads and *)
(* whatever they do with the other objects meanwhile.  A block of a memory *)
(* pool is free once or handed out; a data queue implements BoundedQueue;  *)
(* a serial port implements BytePipe in both directions, with a handler    *)
(* between any two steps of the threads; threads are only on the suspend   *)
(* list of the object whose call they are in, and no wake-up is lost.      *)
(***************************************************************************)
EXTENDS Objects, Kernel_proofs

\* The invariant speaks of the pool only: nothing is needed of the scheduler.
PoolInv ==
  /\ blocks \in [list : Seq(Block), count : Nat]
  /\ used \subseteq Block
  /\ blocks.count = Len(blocks.list)
  /\ NoRepeat(blocks.list)
  /\ \A b \in Block : Contains(blocks.list, b) <=> b \notin used

-----------------------------------------------------------------------------
\* The list that rt_mp_init threads through the pool holds every block, once.
LEMMA EveryBlockListed ==
  ASSUME NEW S, IsFiniteSet(S)
  PROVE  /\ SetToSeq(S) \in Seq(S)
         /\ Len(SetToSeq(S)) = Cardinality(S) /\ Cardinality(S) \in Nat
         /\ NoRepeat(SetToSeq(S))
         /\ \A x \in S : Contains(SetToSeq(S), x)
<1> DEFINE n == Cardinality(S)
           f == SetToSeq(S)
<1>1. n \in Nat /\ ExistsBijection(1..n, S)
  BY FS_CardinalityType
<1>2. f \in [1..n -> S] /\ IsInjective(f)
  <2>1. \E g \in [1..n -> S] : IsInjective(g)
    BY <1>1 DEF ExistsBijection, Bijection, Injection
  <2> QED BY <2>1 DEF SetToSeq
<1> HIDE DEF f
<1>3. f \in Surjection(1..n, S)
  <2>1. f \in Injection(1..n, S)
    BY <1>2 DEF Injection
  <2>2. Cardinality(1..n) = n
    BY <1>1, FS_Interval
  <2> HIDE DEF n
  <2>3. Cardinality(1..n) = Cardinality(S)
    BY <2>2 DEF n
  <2> QED BY <2>1, <2>3, FS_Injection
<1> HIDE DEF n
<1>4. f \in Seq(S) /\ Len(f) = n /\ DOMAIN f = 1..n
  BY <1>1, <1>2
<1>5. NoRepeat(f)
  BY <1>2, <1>4 DEF NoRepeat, IsInjective
<1>6. \A x \in S : Contains(f, x)
  BY <1>3, <1>4 DEF Surjection, Contains
<1> QED
  BY <1>1, <1>4, <1>5, <1>6 DEF n, f

\* After rt_mp_init every block is free and listed once.
LEMMA InitPool == Init => PoolInv
<1> SUFFICES ASSUME Init PROVE PoolInv
  OBVIOUS
<1> DEFINE s == SetToSeq(Block)
<1>1. IsFiniteSet(Block)
  BY MemPoolAssumption
<1>2. /\ s \in Seq(Block) /\ Len(s) = Cardinality(Block) /\ Cardinality(Block) \in Nat
      /\ NoRepeat(s) /\ \A x \in Block : Contains(s, x)
  BY <1>1, EveryBlockListed
<1>3. blocks = [list |-> s, count |-> Cardinality(Block)] /\ used = {}
  BY DEF Init, PoolInit
<1> HIDE DEF s
<1> QED
  BY <1>2, <1>3 DEF PoolInv

\* The first free block is handed out.
LEMMA TakeStep ==
  ASSUME PoolInv, NEW t, TakeBlock(t)
  PROVE  PoolInv'
<1> DEFINE l == blocks.list
           b == Head(l)
           r == Tail(l)
<1>1. /\ l \in Seq(Block) /\ NoRepeat(l) /\ blocks.count = Len(l) /\ l # <<>>
      /\ \A x \in Block : Contains(l, x) <=> x \notin used
      /\ blocks' = [list |-> r, count |-> blocks.count - 1]
      /\ used' = used \union {b}
  <2>1. blocks.list \in Seq(Block) /\ blocks.count = Len(blocks.list) /\ blocks.count > 0
    BY DEF PoolInv, TakeBlock
  <2>2. blocks.list # <<>>
    BY <2>1, EmptySeq
  <2> QED BY <2>1, <2>2 DEF PoolInv, TakeBlock
<1> HIDE DEF l
<1>2. b \in Block /\ Contains(l, b)
  BY <1>1, HeadList
<1>3. /\ r \in Seq(Block) /\ NoRepeat(r) /\ Len(r) = Len(l) - 1
      /\ \A x : Contains(r, x) <=> Contains(l, x) /\ x # b
  BY <1>1, TailList
<1>4. Len(r) \in Nat
  BY <1>3, LenProperties
<1> HIDE DEF b, r
<1>5. blocks'.list = r /\ blocks'.count = Len(r)
  BY <1>1, <1>3
<1>6. blocks' \in [list : Seq(Block), count : Nat] /\ used' \subseteq Block
  BY <1>1, <1>2, <1>3, <1>4, <1>5 DEF PoolInv
<1>7. \A x \in Block : Contains(r, x) <=> x \notin used'
  BY <1>1, <1>3
<1> QED
  BY <1>3, <1>5, <1>6, <1>7 DEF PoolInv

\* A block that is in use is linked in front of the free ones.
LEMMA GiveStep ==
  ASSUME PoolInv, NEW b \in used, blocks' = GiveBack(b), used' = used \ {b}
  PROVE  PoolInv'
<1> DEFINE l == blocks.list
           r == Cons(b, l)
<1>1. /\ l \in Seq(Block) /\ NoRepeat(l) /\ blocks.count = Len(l)
      /\ \A x \in Block : Contains(l, x) <=> x \notin used
      /\ b \in Block /\ ~Contains(l, b)
      /\ blocks' = [list |-> r, count |-> blocks.count + 1]
  BY DEF PoolInv, GiveBack
<1>2. /\ r \in Seq(Block) /\ NoRepeat(r)
      /\ \A x : Contains(r, x) <=> Contains(l, x) \/ x = b
  BY <1>1, ConsList
<1>3. Len(r) = Len(l) + 1 /\ Len(l) \in Nat
  <2>1. <<b>> \in Seq(Block) /\ Len(<<b>>) = 1
    BY <1>1
  <2> HIDE DEF l
  <2>2. Len(<<b>> \o l) = Len(<<b>>) + Len(l)
    BY <1>1, <2>1, ConcatProperties
  <2> QED BY <1>1, <2>1, <2>2, LenProperties DEF Cons
<1> HIDE DEF l, r
<1>4. blocks'.list = r /\ blocks'.count = Len(r)
  BY <1>1, <1>3
<1>5. blocks' \in [list : Seq(Block), count : Nat] /\ used' \subseteq Block
  BY <1>1, <1>2, <1>3 DEF PoolInv
<1>6. \A x \in Block : Contains(r, x) <=> x \notin used'
  BY <1>1, <1>2
<1> QED
  BY <1>2, <1>4, <1>5, <1>6 DEF PoolInv

\* Every step of every object keeps the invariant.
LEMMA NextPool == PoolInv /\ [Next]_vars => PoolInv'
<1> SUFFICES ASSUME PoolInv, [Next]_vars PROVE PoolInv'
  OBVIOUS
<1>1. CASE UNCHANGED <<blocks, used>>
  BY <1>1 DEF PoolInv
<1>2. ASSUME NEW t \in Thread, Alloc(t) \/ AllocSchedule(t) \/ AllocAgain(t) \/ AllocFails(t)
      PROVE  PoolInv'
  <2>1. TakeBlock(t) \/ UNCHANGED <<blocks, used>>
    BY <1>2 DEF Alloc, AllocSchedule, AllocAgain, AllocFails, WaitForBlock, poolVars
  <2> QED BY <1>1, <2>1, TakeStep
<1>3. ASSUME NEW t \in Thread, NEW b \in Block, FreeBlock(t, b) PROVE PoolInv'
  BY <1>3, GiveStep DEF FreeBlock
<1>4. ASSUME NEW b \in Block, IsrFreeBlock(b) PROVE PoolInv'
  BY <1>4, GiveStep DEF IsrFreeBlock
<1>5. CASE PoolNext
  BY <1>2, <1>3, <1>4, <1>5 DEF PoolNext
<1>6. CASE UNCHANGED poolVars
  BY <1>1, <1>6 DEF poolVars
<1>7. CASE UNCHANGED vars
  BY <1>6, <1>7 DEF vars
<1> QED
  BY <1>5, <1>6, <1>7 DEF Next

\* Every block is free once or handed out, and the count of the free ones is
\* right, for any number of blocks, threads and calls.
THEOREM EveryBlockAccounted == Spec => []BlocksAccounted
<1>1. Init => PoolInv
  BY InitPool
<1>2. PoolInv /\ [Next]_vars => PoolInv'
  BY NextPool
<1>3. PoolInv => BlocksAccounted
  <2> SUFFICES ASSUME PoolInv PROVE BlocksAccounted
    OBVIOUS
  <2> DEFINE l == blocks.list
  <2>1. /\ l \in Seq(Block) /\ used \subseteq Block
        /\ \A b \in Block : Contains(l, b) <=> b \notin used
    BY DEF PoolInv
  <2> HIDE DEF l
  <2>2. \A x : x \in ToSet(l) <=> \E i \in 1..Len(l) : l[i] = x
    <3>1. DOMAIN l = 1..Len(l)
      BY <2>1
    <3> QED BY <3>1 DEF ToSet
  <2>3. \A x : Contains(l, x) <=> \E i \in 1..Len(l) : l[i] = x
    BY DEF Contains
  <2>4. \A x : x \in ToSet(l) => x \in Block
    BY <2>1, <2>2, ElementOfSeq
  <2>5. ToSet(l) = Block \ used
    BY <2>1, <2>2, <2>3, <2>4
  <2> QED BY <2>5 DEF BlocksAccounted, PoolInv, l
<1> QED
  BY <1>1, <1>2, <1>3, PTL DEF Spec

-----------------------------------------------------------------------------
(* The data queue *)

Held == Item \union {NoItem}

DataState ==
  [ items : [0..ItemMax-1 -> Held], put : 0..ItemMax-1, get : 0..ItemMax-1,
    empty : BOOLEAN, full : BOOLEAN ]

\* The flags tell what equal indices mean.
FlagsAgree(q) ==
  /\ q.put = q.get <=> q.empty \/ q.full
  /\ ~(q.empty /\ q.full)

QueueInv == dq \in DataState /\ FlagsAgree(dq)

PushLabel == {"pushing", "push"}

\* A thread that waits to push has an item to push.
PushInv ==
  /\ pc = [t \in Thread |-> pc[t]]
  /\ calling \in [Thread -> [item : Held, finite : BOOLEAN]]
  /\ \A t \in Thread : pc[t] \in PushLabel => calling[t].item \in Item

DataInv == QueueInv /\ PushInv

last == [r \in {"last"} |-> popped]

DataStep == Data!Next \/ UNCHANGED <<Items, last>>

\* What every step keeps, and how it looks to the users of the queue.
DataGood == DataInv' /\ DataStep

\* The queue holds one item at least.
LEMMA ItemMaxNat == ItemMax \in Nat /\ ItemMax > 0
BY DataQueueAssumption

\* The number of items is what the indices are apart, and the flags say when it
\* is none and when it is all there is room for.
LEMMA CountValue ==
  ASSUME NEW q, q \in DataState, FlagsAgree(q)
  PROVE  /\ ItemCount(q) \in 0..ItemMax
         /\ q.empty <=> ItemCount(q) = 0
         /\ q.full <=> ItemCount(q) = ItemMax
         /\ q.put = RingPlace(ItemMax, q.get, ItemCount(q))
<1>1. /\ q.put \in 0..ItemMax-1 /\ q.get \in 0..ItemMax-1
      /\ q.empty \in BOOLEAN /\ q.full \in BOOLEAN
  BY DEF DataState
<1>2. CASE q.empty
  <2>1. ItemCount(q) = 0 /\ q.put = q.get /\ ~q.full
    BY <1>2 DEF ItemCount, FlagsAgree
  <2> QED BY <1>1, <1>2, <2>1, ItemMaxNat DEF RingPlace
<1>3. CASE ~q.empty /\ q.put > q.get
  <2>1. ItemCount(q) = q.put - q.get /\ ~q.full
    BY <1>1, <1>3 DEF ItemCount, FlagsAgree
  <2> QED BY <1>1, <1>3, <2>1, ItemMaxNat DEF RingPlace
<1>4. CASE ~q.empty /\ ~(q.put > q.get)
  <2>1. ItemCount(q) = ItemMax + q.put - q.get /\ (q.full <=> q.put = q.get)
    BY <1>4 DEF ItemCount, FlagsAgree
  <2> QED BY <1>1, <1>4, <2>1, ItemMaxNat DEF RingPlace
<1> QED
  BY <1>1, <1>2, <1>3, <1>4

\* The same number from the way the indices are apart.
LEMMA CountFromPlace ==
  ASSUME NEW q, q \in DataState, FlagsAgree(q), NEW n \in 0..ItemMax,
         q.put = RingPlace(ItemMax, q.get, n), q.empty <=> n = 0
  PROVE  ItemCount(q) = n
<1>1. /\ q.put \in 0..ItemMax-1 /\ q.get \in 0..ItemMax-1
      /\ q.empty \in BOOLEAN /\ q.full \in BOOLEAN
  BY DEF DataState
<1>2. CASE q.empty
  BY <1>2 DEF ItemCount
<1>3. CASE ~q.empty
  BY <1>1, <1>3, ItemMaxNat DEF ItemCount, RingPlace
<1> QED
  BY <1>1, <1>2, <1>3

\* The steps of the indices, and the items as a ring of cells.
LEMMA ItemWords ==
  /\ \A o \in 0..ItemMax-1 : Step(o) = RingPlace(ItemMax, o, 1)
  /\ Items = RingSeq(dq.items, ItemMax, dq.get, ItemCount(dq))
  /\ Items' = RingSeq(dq'.items, ItemMax, dq'.get, ItemCount(dq'))
<1>1. \A o \in 0..ItemMax-1 : Step(o) = RingPlace(ItemMax, o, 1)
  BY ItemMaxNat DEF Step, RingPlace
<1>2. Items = RingSeq(dq.items, ItemMax, dq.get, ItemCount(dq))
  BY DEF Items, RingSeq
<1>3. Items' = RingSeq(dq'.items, ItemMax, dq'.get, ItemCount(dq'))
  BY DEF Items, RingSeq, ItemCount
<1> QED
  BY <1>1, <1>2, <1>3

\* An item is put behind the others.
LEMMA PutAppends ==
  ASSUME QueueInv, NEW v \in Item, ~dq.full, dq' = PutItem(v)
  PROVE  /\ QueueInv' /\ Len(Items) < ItemMax /\ Items' = Append(Items, v)
         /\ ItemCount(dq') = ItemCount(dq) + 1
<1> DEFINE n == ItemCount(dq)
           o == dq.get
           p == dq.items
           i == RingPlace(ItemMax, o, n)
           f == RingPlace(ItemMax, o, n + 1)
           q == [p EXCEPT ![i] = v]
<1>1. /\ n \in 0..ItemMax /\ n # ItemMax /\ dq.put = i /\ o \in 0..ItemMax-1
      /\ p \in Cells(Held, ItemMax) /\ dq \in DataState /\ ItemMax \in Nat /\ v \in Held
  <2>1. /\ ItemCount(dq) \in 0..ItemMax /\ ItemCount(dq) # ItemMax
        /\ dq.put = RingPlace(ItemMax, dq.get, ItemCount(dq))
    BY CountValue DEF QueueInv
  <2>2. /\ dq.get \in 0..ItemMax-1 /\ dq.items \in Cells(Held, ItemMax)
        /\ dq \in DataState /\ ItemMax \in Nat /\ v \in Held
    BY ItemMaxNat DEF QueueInv, DataState, Cells, Held
  <2> QED BY <2>1, <2>2
<1>2. dq' = [dq EXCEPT !.items = q, !.put = Step(i), !.empty = FALSE,
                       !.full = @ \/ Step(i) = o]
  BY <1>1 DEF PutItem
<1> HIDE DEF n, p
<1>3. n \in 0..ItemMax-1 /\ n + 1 \in 0..ItemMax
  BY <1>1
<1>4. i \in 0..ItemMax-1 /\ f \in 0..ItemMax-1
  BY <1>1, <1>3, PlaceValue
<1>5. Step(i) = f
  <2>1. RingPlace(ItemMax, i, 1) = f
    BY <1>1, <1>3, PlaceForward
  <2>2. Step(i) = RingPlace(ItemMax, i, 1)
    BY <1>4, ItemWords
  <2> QED BY <2>1, <2>2
<1>6. q \in Cells(Held, ItemMax) /\ RingSeq(q, ItemMax, o, n + 1) = Append(RingSeq(p, ItemMax, o, n), v)
  <2>1. q \in Cells(Held, ItemMax)
    BY <1>1 DEF Cells
  <2>2. Filled(q, p, i, v)
    BY <1>1, <1>4 DEF Filled, Cells
  <2> HIDE DEF q, o
  <2> QED BY <1>1, <1>3, <2>1, <2>2, RingAppends
<1> HIDE DEF i, f, q
<1>7. /\ dq' \in DataState
      /\ dq'.items = q /\ dq'.put = f /\ dq'.get = o
      /\ dq'.empty = FALSE /\ dq'.full = (f = o)
  <2>1. (dq.full \/ Step(i) = o) = (f = o)
    BY <1>5
  <2>2. (f = o) \in BOOLEAN
    OBVIOUS
  <2>3. dq' = [dq EXCEPT !.items = q, !.put = f, !.empty = FALSE, !.full = (f = o)]
    BY <1>2, <1>5, <2>1
  <2>4. q \in [0..ItemMax-1 -> Held]
    BY <1>6 DEF Cells
  <2> QED BY <1>1, <1>4, <2>2, <2>3, <2>4 DEF DataState
<1>8. FlagsAgree(dq')
  BY <1>7 DEF FlagsAgree
<1>9. QueueInv'
  BY <1>7, <1>8 DEF QueueInv, DataState, FlagsAgree, Held
<1>10. ItemCount(dq') = n + 1
  <2>1. dq'.put = RingPlace(ItemMax, dq'.get, n + 1)
    BY <1>7 DEF f
  <2>2. dq'.empty <=> n + 1 = 0
    BY <1>3, <1>7
  <2> QED BY <1>3, <1>7, <1>8, <2>1, <2>2, CountFromPlace
<1>11. Items' = Append(Items, v)
  BY <1>6, <1>7, <1>10, ItemWords DEF n, p
<1>12. Len(Items) = n
  BY <1>3, ItemWords, RingLen DEF n
<1> QED
  BY <1>3, <1>9, <1>10, <1>11, <1>12, ItemMaxNat DEF n

\* The oldest item is taken.
LEMMA GetTakesHead ==
  ASSUME QueueInv, ~dq.empty, dq' = GetItem
  PROVE  /\ QueueInv' /\ Items # <<>>
         /\ Items' = Tail(Items) /\ Head(Items) = dq.items[dq.get]
         /\ ItemCount(dq') = ItemCount(dq) - 1
<1> DEFINE n == ItemCount(dq)
           o == dq.get
           p == dq.items
           g == Step(o)
<1>1. /\ n \in 1..ItemMax /\ dq.put = RingPlace(ItemMax, o, n) /\ o \in 0..ItemMax-1
      /\ p \in Cells(Held, ItemMax) /\ dq \in DataState /\ ItemMax \in Nat
  <2>1. /\ ItemCount(dq) \in 0..ItemMax /\ ItemCount(dq) # 0
        /\ dq.put = RingPlace(ItemMax, dq.get, ItemCount(dq))
    BY CountValue DEF QueueInv
  <2>2. /\ dq.get \in 0..ItemMax-1 /\ dq.items \in Cells(Held, ItemMax)
        /\ dq \in DataState /\ ItemMax \in Nat
    BY ItemMaxNat DEF QueueInv, DataState, Cells
  <2> QED BY <2>1, <2>2
<1>2. dq' = [dq EXCEPT !.get = g, !.full = FALSE, !.empty = @ \/ g = dq.put]
  BY DEF GetItem
<1> HIDE DEF n, o, p
<1>3. n - 1 \in 0..ItemMax-1 /\ n - 1 \in 0..ItemMax /\ (n - 1) + 1 = n /\ 0 \in 0..ItemMax-1
  BY <1>1
<1>4. g = RingPlace(ItemMax, o, 1) /\ g \in 0..ItemMax-1
  <2>1. RingPlace(ItemMax, o, 1) \in 0..ItemMax-1
    BY <1>1, <1>3, PlaceForward
  <2> QED BY <1>1, <2>1, ItemWords
<1>5. dq.put = RingPlace(ItemMax, g, n - 1)
  <2>1. RingPlace(ItemMax, RingPlace(ItemMax, o, 1), n - 1) = RingPlace(ItemMax, o, (n - 1) + 1)
    BY <1>1, <1>3, PlaceForward
  <2> QED BY <1>1, <1>3, <1>4, <2>1
<1> HIDE DEF g
<1>6. /\ dq' \in DataState
      /\ dq'.items = p /\ dq'.put = dq.put /\ dq'.get = g
      /\ dq'.full = FALSE /\ dq'.empty = (g = dq.put)
  <2>1. (dq.empty \/ g = dq.put) = (g = dq.put)
    OBVIOUS
  <2>2. (g = dq.put) \in BOOLEAN
    OBVIOUS
  <2>3. dq' = [dq EXCEPT !.get = g, !.full = FALSE, !.empty = (g = dq.put)]
    BY <1>2, <2>1
  <2> QED BY <1>1, <1>4, <2>2, <2>3 DEF DataState, p
<1>7. FlagsAgree(dq')
  BY <1>6 DEF FlagsAgree
<1>8. QueueInv'
  BY <1>6, <1>7 DEF QueueInv, DataState, FlagsAgree, Held
<1>9. ItemCount(dq') = n - 1
  <2>1. dq'.put = RingPlace(ItemMax, dq'.get, n - 1)
    BY <1>5, <1>6
  <2>2. g = dq.put <=> n - 1 = 0
    BY <1>1, <1>3, <1>4, <1>5 DEF RingPlace
  <2> QED BY <1>3, <1>6, <1>7, <2>1, <2>2, CountFromPlace
<1> DEFINE s == RingSeq(p, ItemMax, o, n)
<1>10. s # <<>> /\ Head(s) = p[o]
       /\ RingSeq(p, ItemMax, RingPlace(ItemMax, o, 1), n - 1) = Tail(s)
  BY <1>1, RingTakesHead
<1>11. Items = s /\ Items' = RingSeq(p, ItemMax, g, n - 1)
  BY <1>6, <1>9, ItemWords DEF n, o, p
<1> QED
  BY <1>4, <1>8, <1>9, <1>10, <1>11 DEF n, o, p

\* A reset leaves no item.
LEMMA EmptiedQueue ==
  ASSUME QueueInv, dq' = [dq EXCEPT !.get = 0, !.put = 0, !.empty = TRUE, !.full = FALSE]
  PROVE  QueueInv' /\ Items' = <<>> /\ ItemCount(dq') = 0
<1>1. /\ dq' \in DataState /\ dq'.put = 0 /\ dq'.get = 0
      /\ dq'.empty = TRUE /\ dq'.full = FALSE
  <2>1. 0 \in 0..ItemMax-1 /\ dq \in DataState
    BY ItemMaxNat DEF QueueInv
  <2> QED BY <2>1 DEF DataState
<1>2. QueueInv'
  BY <1>1 DEF QueueInv, DataState, FlagsAgree, Held
<1>3. Items' = <<>> /\ ItemCount(dq') = 0
  BY <1>1 DEF Items, ItemCount
<1> QED
  BY <1>2, <1>3

-----------------------------------------------------------------------------
(* Where threads are: only a push takes a thread to the labels of a push. *)

LabelsMove == UNCHANGED pc \/ \E t \in Thread : \E l : Goto(t, l) /\ l \notin PushLabel

LEMMA GotoMoves ==
  ASSUME NEW t \in Thread, NEW l, Goto(t, l), l \notin PushLabel
  PROVE  LabelsMove
BY DEF LabelsMove

\* The threads of the other objects stay away from a push.
LEMMA SemMoves == SemNext => LabelsMove
<1> SUFFICES ASSUME SemNext PROVE LabelsMove
  OBVIOUS
<1>1. \A l \in {"run", "taking", "take", "resched"} : l \notin PushLabel
  BY DEF PushLabel
<1>2. \/ UNCHANGED pc
      \/ \E t \in Thread, l \in {"run", "taking", "take", "resched"} : Goto(t, l)
  BY DEF SemNext, Take, TakeToken, TakeSchedule, TakeReturn, Release, IsrRelease,
         ResetSem, ScheduleThen
<1> QED
  BY <1>1, <1>2, GotoMoves DEF LabelsMove

LEMMA EventMoves == EventNext => LabelsMove
<1> SUFFICES ASSUME EventNext PROVE LabelsMove
  OBVIOUS
<1>1. \A l \in {"run", "recving", "recv", "resched"} : l \notin PushLabel
  BY DEF PushLabel
<1>2. \/ UNCHANGED pc
      \/ \E t \in Thread, l \in {"run", "recving", "recv", "resched"} : Goto(t, l)
  <2>1. Listener \subseteq Thread
    BY EventAssumption
  <2>2. ASSUME NEW t \in Thread, NEW asked, NEW option, Recv(t, asked, option)
        PROVE  UNCHANGED pc \/ Goto(t, "recving")
    BY <2>2 DEF Recv
  <2>3. ASSUME NEW t \in Thread, RecvSchedule(t) \/ RecvReturn(t) \/ ResetEvent(t)
        PROVE  Goto(t, "run") \/ Goto(t, "recv") \/ Goto(t, "resched")
    BY <2>3 DEF RecvSchedule, RecvReturn, ResetEvent, ScheduleThen
  <2>4. ASSUME NEW t \in Thread, NEW s, Notify(t, s)
        PROVE  UNCHANGED pc \/ Goto(t, "resched")
    BY <2>4 DEF Notify
  <2>5. ASSUME NEW s, IsrNotify(s) PROVE UNCHANGED pc
    BY <2>5 DEF IsrNotify
  <2> QED BY <2>1, <2>2, <2>3, <2>4, <2>5 DEF EventNext
<1> QED
  BY <1>1, <1>2, GotoMoves DEF LabelsMove

LEMMA PoolMoves == PoolNext => LabelsMove
<1> SUFFICES ASSUME PoolNext PROVE LabelsMove
  OBVIOUS
<1>1. \A l \in {"run", "allocing", "alloc", "resched"} : l \notin PushLabel
  BY DEF PushLabel
<1>2. \/ UNCHANGED pc
      \/ \E t \in Thread, l \in {"run", "allocing", "alloc", "resched"} : Goto(t, l)
  BY DEF PoolNext, Alloc, TakeBlock, WaitForBlock, AllocSchedule, AllocAgain, AllocFails,
         FreeBlock, IsrFreeBlock, ScheduleThen
<1> QED
  BY <1>1, <1>2, GotoMoves DEF LabelsMove

LEMMA SerialMoves == SerialNext => LabelsMove
<1> SUFFICES ASSUME SerialNext PROVE LabelsMove
  OBVIOUS
<1>1. Shell \in Thread /\ Reader \in Thread /\ Writer \in Thread /\ Queuer \subseteq Thread
  BY SerialAssumption
<1>2. CASE ShellNext
  <2>1. \/ UNCHANGED pc
        \/ Goto(Shell, "run") \/ Goto(Shell, "taking") \/ Goto(Shell, "take") \/ Goto(Shell, "nobyte")
    BY <1>2 DEF ShellNext, ShellRead, ShellTake, TakeToken, TakeSchedule, TakeReturn,
       IsrByteForShell, IsrRelease, ScheduleThen
  <2> QED BY <1>1, <2>1, GotoMoves DEF PushLabel, LabelsMove
<1>3. CASE ReaderNext
  <2>1. ASSUME NEW n, ReadCall(n) PROVE Goto(Reader, "index")
    BY <2>1 DEF ReadCall
  <2>2. LookAtIndex => Goto(Reader, "mirror") \/ Goto(Reader, "length")
    BY DEF LookAtIndex
  <2>3. LookAtLength => Goto(Reader, "ask") \/ Goto(Reader, "fetch")
    BY DEF LookAtLength
  <2>4. Ask => Goto(Reader, "await")
    BY DEF Ask
  <2>5. AwaitBytes => Goto(Reader, "given") \/ Goto(Reader, "waiting")
    BY DEF AwaitBytes
  <2>6. AwaitedBytes => Goto(Reader, "waited") \/ Goto(Reader, "given")
    BY DEF AwaitedBytes, ScheduleThen
  <2>7. FetchBytes => Goto(Reader, "run")
    BY DEF FetchBytes
  <2>8. ASSUME NEW c, IsrByteForReader(c) PROVE UNCHANGED pc
    BY <2>8 DEF IsrByteForReader
  <2>9. \/ UNCHANGED pc
        \/ \E l \in {"index", "mirror", "length", "ask", "fetch", "await", "given",
                     "waiting", "waited", "run"} : Goto(Reader, l)
    BY <1>3, <2>1, <2>2, <2>3, <2>4, <2>5, <2>6, <2>7, <2>8 DEF ReaderNext
  <2> QED BY <1>1, <2>9, GotoMoves DEF PushLabel, LabelsMove
<1>4. CASE QueuerNext
  <2>1. UNCHANGED pc \/ \E t \in Queuer : Goto(t, "run") \/ Goto(t, "start")
    BY <1>4 DEF QueuerNext, StartSending, QueueBytes, IsrTxe, IsrSent
  <2> QED BY <1>1, <2>1, GotoMoves DEF PushLabel, LabelsMove
<1>5. CASE WriterNext
  <2>1. \/ UNCHANGED pc
        \/ \E l \in {"more", "transmit", "txawait", "txwaiting", "txwaited", "run"} :
             Goto(Writer, l)
    BY <1>5 DEF WriterNext, WriteCall, FillRing, Transmit, AwaitSent, AwaitedSent,
       WriteReturn, IsrTxe, IsrSent, ScheduleThen
  <2> QED BY <1>1, <2>1, GotoMoves DEF PushLabel, LabelsMove
<1> QED
  BY <1>2, <1>3, <1>4, <1>5 DEF SerialNext

LEMMA CommonMoves == Common => LabelsMove
<1> SUFFICES ASSUME Common PROVE LabelsMove
  OBVIOUS
<1>1. "run" \notin PushLabel /\ "resched" \notin PushLabel
  BY DEF PushLabel
<1>2. UNCHANGED pc \/ \E t \in Thread : Goto(t, "run") \/ Goto(t, "resched")
  BY DEF Common, ScheduleThen, SleepStart, TimerExpires, SliceEnd
<1> QED
  BY <1>1, <1>2, GotoMoves DEF LabelsMove

\* A thread that goes on at l: the items of the others stay what they were.
LEMMA PushGoes ==
  ASSUME PushInv, NEW t \in Thread, NEW l, Goto(t, l),
         calling' \in [Thread -> [item : Held, finite : BOOLEAN]],
         \A u \in Thread : u = t \/ calling'[u].item = calling[u].item,
         l \in PushLabel => calling'[t].item \in Item
  PROVE  PushInv'
<1>1. pc = [u \in Thread |-> pc[u]] /\ pc' = [pc EXCEPT ![t] = l]
  BY DEF PushInv, Goto
<1>2. pc' = [u \in Thread |-> pc'[u]] /\ pc'[t] = l
      /\ \A u \in Thread : u = t \/ pc'[u] = pc[u]
  BY <1>1
<1>3. \A u \in Thread : pc'[u] \in PushLabel => calling'[u].item \in Item
  BY <1>2 DEF PushInv
<1> QED
  BY <1>2, <1>3 DEF PushInv, Held, PushLabel

\* A step that leaves the calls on the data queue alone.
LEMMA PushKept ==
  ASSUME PushInv, UNCHANGED calling, LabelsMove
  PROVE  PushInv'
<1>1. CASE UNCHANGED pc
  BY <1>1 DEF PushInv, Held, PushLabel
<1>2. ASSUME NEW t \in Thread, NEW l, Goto(t, l), l \notin PushLabel PROVE PushInv'
  BY <1>2, PushGoes DEF PushInv
<1> QED
  BY <1>1, <1>2 DEF LabelsMove

-----------------------------------------------------------------------------
(* The calls on the data queue are those on a bounded queue. *)

\* What leaves the ring and what was popped alone is no step of the queue.
LEMMA QuietStep ==
  ASSUME QueueInv, UNCHANGED <<dq, popped>>
  PROVE  QueueInv' /\ DataStep
<1>1. QueueInv'
  BY DEF QueueInv, DataState, FlagsAgree, Held
<1>2. Items' = Items /\ last' = last
  BY DEF Items, ItemCount, last
<1> QED
  BY <1>1, <1>2 DEF DataStep

\* A push, of a thread or of an interrupt handler.
LEMMA PutStep ==
  ASSUME QueueInv, NEW v \in Item, ~dq.full, dq' = PutItem(v), popped' = popped
  PROVE  QueueInv' /\ DataStep
<1>1. QueueInv' /\ Len(Items) < ItemMax /\ Items' = Append(Items, v)
  BY PutAppends
<1>2. last' = last
  BY DEF last
<1>3. Data!Send(v)
  BY <1>1, <1>2 DEF Data!Send, last
<1> QED
  BY <1>1, <1>3 DEF DataStep, Data!Next

\* A pop, of a thread or of an interrupt handler.
LEMMA GetStep ==
  ASSUME QueueInv, ~dq.empty, dq' = GetItem, popped' = dq.items[dq.get]
  PROVE  QueueInv' /\ DataStep
<1>1. /\ QueueInv' /\ Items # <<>>
      /\ Items' = Tail(Items) /\ Head(Items) = dq.items[dq.get]
  BY GetTakesHead
<1>2. last' = [last EXCEPT !["last"] = Head(Items)]
  BY <1>1 DEF last
<1>3. Data!Receive("last")
  BY <1>1, <1>2 DEF Data!Receive, last
<1> QED
  BY <1>1, <1>3 DEF DataStep, Data!Next

\* The end of a call that had an item, or of one that had none.
LEMMA CallEnds ==
  ASSUME PushInv, NEW t \in Thread, NEW l, Goto(t, l), l \notin PushLabel,
         calling' = [calling EXCEPT ![t] = NoCall]
  PROVE  PushInv'
<1>1. calling \in [Thread -> [item : Held, finite : BOOLEAN]]
      /\ NoCall \in [item : Held, finite : BOOLEAN]
  BY DEF PushInv, NoCall, Held
<1>2. /\ calling' \in [Thread -> [item : Held, finite : BOOLEAN]]
      /\ \A u \in Thread : u = t \/ calling'[u].item = calling[u].item
  BY <1>1
<1> QED
  BY <1>2, PushGoes

\* A thread pushes.
LEMMA PushItemStep ==
  ASSUME DataInv, NEW t \in Thread, NEW v \in Item, PushItem(t, v)
  PROVE  DataGood
<1>1. /\ ~dq.full /\ dq' = PutItem(v) /\ popped' = popped
      /\ calling' = [calling EXCEPT ![t] = NoCall]
      /\ Goto(t, "run") \/ Goto(t, "resched")
  BY DEF PushItem
<1>2. PushInv'
  BY <1>1, CallEnds DEF DataInv, PushLabel
<1> QED
  BY <1>1, <1>2, PutStep DEF DataInv, DataGood

\* A thread waits with its item.
LEMMA WaitToPushStep ==
  ASSUME DataInv, NEW t \in Thread, NEW v \in Item, NEW finite \in BOOLEAN,
         WaitToPush(t, v, finite)
  PROVE  DataGood
<1>1. /\ UNCHANGED <<dq, popped>> /\ Goto(t, "pushing")
      /\ calling' = [calling EXCEPT ![t] = [item |-> v, finite |-> finite]]
  BY DEF WaitToPush
<1>2. calling \in [Thread -> [item : Held, finite : BOOLEAN]]
      /\ [item |-> v, finite |-> finite] \in [item : Held, finite : BOOLEAN]
  BY DEF DataInv, PushInv, Held
<1>3. /\ calling' \in [Thread -> [item : Held, finite : BOOLEAN]]
      /\ \A u \in Thread : u = t \/ calling'[u].item = calling[u].item
      /\ calling'[t].item \in Item
  BY <1>1, <1>2
<1>4. PushInv'
  BY <1>1, <1>3, PushGoes DEF DataInv
<1> QED
  BY <1>1, <1>4, QuietStep DEF DataInv, DataGood

\* A thread pops.
LEMMA PopItemStep ==
  ASSUME DataInv, NEW t \in Thread, PopItem(t)
  PROVE  DataGood
<1>1. /\ ~dq.empty /\ dq' = GetItem /\ popped' = dq.items[dq.get]
      /\ calling' = [calling EXCEPT ![t] = NoCall]
      /\ Goto(t, "run") \/ Goto(t, "resched")
  BY DEF PopItem
<1>2. PushInv'
  BY <1>1, CallEnds DEF DataInv, PushLabel
<1> QED
  BY <1>1, <1>2, GetStep DEF DataInv, DataGood

\* A thread waits for an item.
LEMMA WaitToPopStep ==
  ASSUME DataInv, NEW t \in Thread, NEW finite \in BOOLEAN, WaitToPop(t, finite)
  PROVE  DataGood
<1>1. /\ UNCHANGED <<dq, popped>> /\ Goto(t, "popping")
      /\ calling' = [calling EXCEPT ![t].finite = finite]
  BY DEF WaitToPop
<1>2. calling \in [Thread -> [item : Held, finite : BOOLEAN]]
  BY DEF DataInv, PushInv
<1>3. /\ calling' \in [Thread -> [item : Held, finite : BOOLEAN]]
      /\ \A u \in Thread : u = t \/ calling'[u].item = calling[u].item
  BY <1>1, <1>2
<1>4. PushInv'
  BY <1>1, <1>3, PushGoes DEF DataInv, PushLabel
<1> QED
  BY <1>1, <1>4, QuietStep DEF DataInv, DataGood

\* A step that leaves the data queue and the calls on it alone.
LEMMA ElsewhereStep ==
  ASSUME DataInv, UNCHANGED dataVars, LabelsMove
  PROVE  DataGood
<1>1. UNCHANGED <<dq, popped>> /\ UNCHANGED calling
  BY DEF dataVars
<1> QED
  BY <1>1, QuietStep, PushKept DEF DataInv, DataGood

\* The steps of a call that is under way, of a reset, and of the handlers.
LEMMA DataNextStep ==
  ASSUME DataInv, DataNext
  PROVE  DataGood
<1>1. ASSUME NEW t \in Thread, NEW v \in Item, Push(t, v) PROVE DataGood
  BY <1>1, PushItemStep, WaitToPushStep DEF Push
<1>2. ASSUME NEW v \in Item, IsrPush(v) PROVE DataGood
  <2>1. ~dq.full /\ dq' = PutItem(v) /\ popped' = popped /\ UNCHANGED <<pc, calling>>
    BY <1>2 DEF IsrPush
  <2>2. PushInv'
    BY <2>1, PushKept DEF DataInv, LabelsMove
  <2> QED BY <2>1, <2>2, PutStep DEF DataInv, DataGood
<1>3. ASSUME NEW t \in Thread, PushSchedule(t) PROVE DataGood
  <2>1. /\ pc[t] = "pushing" /\ Goto(t, "push")
        /\ UNCHANGED calling /\ UNCHANGED <<dq, popped>>
    BY <1>3 DEF PushSchedule, ScheduleThen, At, dataVars
  <2>2. calling[t].item \in Item /\ calling' \in [Thread -> [item : Held, finite : BOOLEAN]]
    BY <2>1 DEF DataInv, PushInv, PushLabel
  <2>3. PushInv'
    BY <2>1, <2>2, PushGoes DEF DataInv
  <2> QED BY <2>1, <2>3, QuietStep DEF DataInv, DataGood
<1>4. ASSUME NEW t \in Thread, PushAgain(t) PROVE DataGood
  <2>1. calling[t].item \in Item /\ calling[t].finite \in BOOLEAN
    <3>1. pc[t] \in PushLabel
      BY <1>4 DEF PushAgain, At, PushLabel
    <3> QED BY <3>1 DEF DataInv, PushInv
  <2>2. CASE PushItem(t, calling[t].item)
    BY <2>1, <2>2, PushItemStep
  <2>3. CASE WaitToPush(t, calling[t].item, calling[t].finite)
    BY <2>1, <2>3, WaitToPushStep
  <2> QED BY <1>4, <2>2, <2>3 DEF PushAgain
<1>5. ASSUME NEW t \in Thread, DataFails(t) PROVE DataGood
  <2>1. /\ UNCHANGED <<dq, popped>> /\ Goto(t, "run")
        /\ calling' = [calling EXCEPT ![t] = NoCall]
    BY <1>5 DEF DataFails
  <2>2. PushInv'
    BY <2>1, CallEnds DEF DataInv, PushLabel
  <2> QED BY <2>1, <2>2, QuietStep DEF DataInv, DataGood
<1>6. ASSUME NEW t \in Thread, Pop(t) PROVE DataGood
  BY <1>6, PopItemStep, WaitToPopStep DEF Pop
<1>7. ASSUME NEW t \in Thread, PopAgain(t) PROVE DataGood
  <2>1. calling[t].finite \in BOOLEAN
    BY DEF DataInv, PushInv
  <2> QED BY <1>7, <2>1, PopItemStep, WaitToPopStep DEF PopAgain
<1>8. ASSUME NEW t \in Thread, EmptyQueue(t) PROVE DataGood
  <2>1. /\ dq' = [dq EXCEPT !.get = 0, !.put = 0, !.empty = TRUE, !.full = FALSE]
        /\ Goto(t, "emptied") /\ UNCHANGED calling /\ popped' = popped
    BY <1>8 DEF EmptyQueue
  <2>2. QueueInv' /\ Items' = <<>>
    BY <2>1, EmptiedQueue DEF DataInv
  <2>3. Data!Reset
    BY <2>1, <2>2 DEF Data!Reset
  <2>4. PushInv'
    BY <2>1, GotoMoves, PushKept DEF DataInv, PushLabel
  <2> QED BY <2>2, <2>3, <2>4 DEF DataInv, DataGood, DataStep, Data!Next
<1>9. ASSUME NEW t \in Thread,
             \/ PopSchedule(t) \/ LockToWake(t) \/ PoppersWoken(t) \/ PushersWoken(t)
             \/ \E w \in {"poppers", "pushers"} : FindWaiter(t, w) \/ WakeWaiter(t, w)
      PROVE  DataGood
  <2>1. UNCHANGED dataVars
    BY <1>9 DEF PopSchedule, LockToWake, PoppersWoken, PushersWoken, FindWaiter, WakeWaiter
  <2>2. \E l \in {"pop", "testpop", "testpush", "resched", "wakepop", "wakepush", "wrecked"} :
          Goto(t, l)
    BY <1>9 DEF PopSchedule, ScheduleThen, LockToWake, PoppersWoken, PushersWoken,
       FindWaiter, WakeWaiter, TestAt, WakeAt
  <2>3. LabelsMove
    BY <2>2, GotoMoves DEF PushLabel
  <2> QED BY <2>1, <2>3, ElsewhereStep
<1>10. CASE IsrPop
  <2>1. /\ ~dq.empty /\ dq' = GetItem /\ popped' = dq.items[dq.get]
        /\ UNCHANGED pc /\ UNCHANGED calling
    BY <1>10 DEF IsrPop
  <2>2. PushInv'
    BY <2>1, PushKept DEF DataInv, LabelsMove
  <2> QED BY <2>1, <2>2, GetStep DEF DataInv, DataGood
<1> QED
  BY <1>1, <1>2, <1>3, <1>4, <1>5, <1>6, <1>7, <1>8, <1>9, <1>10 DEF DataNext

\* Every step of every object is a step of the bounded queue or none.
LEMMA NextData == DataInv /\ [Next]_vars => DataGood
<1> SUFFICES ASSUME DataInv, [Next]_vars PROVE DataGood
  OBVIOUS
<1>1. CASE UNCHANGED vars
  <2>1. UNCHANGED dataVars /\ UNCHANGED pc
    BY <1>1 DEF vars
  <2> QED BY <2>1, ElsewhereStep DEF LabelsMove
<1>2. CASE Next /\ UNCHANGED dataVars
  <2>1. LabelsMove \/ DataNext
    BY <1>2, SemMoves, EventMoves, PoolMoves, SerialMoves, CommonMoves DEF Next
  <2> QED BY <1>2, <2>1, ElsewhereStep, DataNextStep
<1>3. CASE DataNext
  BY <1>3, DataNextStep
<1> QED
  BY <1>1, <1>2, <1>3 DEF Next

\* After rt_data_queue_init the queue is empty.
LEMMA InitData == Init => DataInv /\ Data!Init
<1> SUFFICES ASSUME Init PROVE DataInv /\ Data!Init
  OBVIOUS
<1>1. /\ dq = [items |-> [i \in 0..ItemMax-1 |-> NoItem],
               put |-> 0, get |-> 0, empty |-> TRUE, full |-> FALSE]
      /\ calling = [t \in Thread |-> NoCall] /\ popped = NoItem
      /\ pc = [t \in Thread |-> "run"]
  BY DEF Init, DataInit
<1>2. QueueInv
  <2>1. 0 \in 0..ItemMax-1 /\ [i \in 0..ItemMax-1 |-> NoItem] \in [0..ItemMax-1 -> Held]
    BY ItemMaxNat DEF Held
  <2> QED BY <1>1, <2>1 DEF QueueInv, DataState, FlagsAgree
<1>3. PushInv
  BY <1>1 DEF PushInv, NoCall, Held, PushLabel
<1>4. Items = <<>>
  BY <1>1 DEF Items, ItemCount
<1> QED
  BY <1>1, <1>2, <1>3, <1>4 DEF DataInv, Data!Init

\* The data queue is a bounded queue for every size, every low water mark and
\* any number of threads, with interrupt handlers that push and pop and a
\* reset in between: no item is lost, doubled or overtaken.
THEOREM DataQueueKept == Spec => DataKept
<1>1. Init => DataInv /\ Data!Init
  BY InitData
<1>2. DataInv /\ [Next]_vars => DataInv' /\ [Data!Next]_<<Items, last>>
  BY NextData DEF DataGood, DataStep
<1>3. Data!Spec <=> Data!Init /\ [][Data!Next]_<<Items, last>>
  BY DEF Data!Spec, last
<1> QED
  BY <1>1, <1>2, <1>3, PTL DEF Spec, DataKept

-----------------------------------------------------------------------------
(* Rings that grow and shrink by several cells *)

\* The elements of t from i to j, under a name that the provers leave unexpanded.
Piece(t, i, j) == SubSeq(t, i, j)

\* In an array of values of V, the n cells from o on hold what they held and the m
\* cells behind them the first m elements of t.
Extended(V, size, cells, o, n, filled, m, t) ==
  /\ size \in Nat /\ o \in 0..size-1 /\ n \in 0..size /\ m \in 0..(size - n)
  /\ cells \in Cells(V, size) /\ filled \in Cells(V, size)
  /\ t \in Seq(V) /\ m <= Len(t)
  /\ \A j \in 0..(n - 1) : filled[RingPlace(size, o, j)] = cells[RingPlace(size, o, j)]
  /\ \A j \in 0..(m - 1) : filled[RingPlace(size, o, n + j)] = t[j + 1]

\* Filling the m cells behind the last one appends the first m elements of t.
LEMMA RingExtends ==
  ASSUME NEW V, NEW size, NEW cells, NEW o, NEW n, NEW filled, NEW m, NEW t,
         Extended(V, size, cells, o, n, filled, m, t)
  PROVE  RingSeq(filled, size, o, n + m) = RingSeq(cells, size, o, n) \o Piece(t, 1, m)
<1> DEFINE s == RingSeq(cells, size, o, n)
           r == RingSeq(filled, size, o, n + m)
           p == SubSeq(t, 1, m)
<1>1. /\ size \in Nat /\ o \in 0..size-1 /\ n \in 0..size /\ m \in 0..(size - n)
      /\ cells \in Cells(V, size) /\ filled \in Cells(V, size)
      /\ t \in Seq(V) /\ m <= Len(t) /\ n + m \in 0..size
  BY DEF Extended
<1>2. s \in Seq(V) /\ Len(s) = n /\ \A j \in 1..n : s[j] = cells[RingPlace(size, o, j - 1)]
  <2>1. s \in Seq(V)
    BY <1>1, RingIsSeq
  <2>2. Len(s) = n
    BY <1>1, RingLen
  <2>3. \A j \in 1..n : s[j] = cells[RingPlace(size, o, j - 1)]
    BY <1>1, RingElement
  <2> QED BY <2>1, <2>2, <2>3
<1>3. /\ r \in Seq(V) /\ Len(r) = n + m
      /\ \A j \in 1..(n + m) : r[j] = filled[RingPlace(size, o, j - 1)]
  <2>1. r \in Seq(V)
    BY <1>1, RingIsSeq
  <2>2. Len(r) = n + m
    BY <1>1, RingLen
  <2>3. \A j \in 1..(n + m) : r[j] = filled[RingPlace(size, o, j - 1)]
    BY <1>1, RingElement
  <2> QED BY <2>1, <2>2, <2>3
<1>4. p \in Seq(V) /\ Len(p) = m /\ \A j \in 1..m : p[j] = t[j]
  <2>1. \A j \in 1..m : t[j] \in V
    BY <1>1
  <2>2. /\ p \in Seq(V) /\ Len(p) = IF 1 <= m THEN m - 1 + 1 ELSE 0
        /\ \A j \in 1..(m - 1 + 1) : p[j] = t[1 + j - 1]
    BY <1>1, <2>1, SubSeqProperties
  <2> HIDE DEF p
  <2> QED BY <1>1, <2>2
<1> HIDE DEF s, r, p
<1> DEFINE a == s \o p
<1>5. /\ a \in Seq(V) /\ Len(a) = n + m
      /\ \A j \in 1..(n + m) : a[j] = IF j <= n THEN s[j] ELSE p[j - n]
  BY <1>1, <1>2, <1>4, ConcatProperties
<1> HIDE DEF a
<1>6. ASSUME NEW j \in 1..(n + m) PROVE r[j] = a[j]
  <2>1. CASE j <= n
    <3>1. j - 1 \in 0..(n - 1) /\ j \in 1..n
      BY <1>1, <2>1
    <3>2. filled[RingPlace(size, o, j - 1)] = cells[RingPlace(size, o, j - 1)]
      BY <3>1 DEF Extended
    <3> QED BY <1>1, <1>2, <1>3, <1>5, <2>1, <3>1, <3>2
  <2>2. CASE j > n
    <3>1. /\ j - n - 1 \in 0..(m - 1) /\ j - n \in 1..m
          /\ n + (j - n - 1) = j - 1 /\ (j - n - 1) + 1 = j - n
      BY <1>1, <2>2
    <3>2. filled[RingPlace(size, o, n + (j - n - 1))] = t[(j - n - 1) + 1]
      BY <3>1 DEF Extended
    <3> QED BY <1>1, <1>3, <1>4, <1>5, <2>2, <3>1, <3>2
  <2> QED BY <1>1, <2>1, <2>2
<1>7. r = a
  BY <1>1, <1>3, <1>5, <1>6, SeqEqual
<1> QED
  BY <1>7 DEF a, s, r, p, Piece

\* Leaving the first m cells takes the first m elements.
LEMMA RingDrops ==
  ASSUME NEW V, NEW size \in Nat, NEW cells \in Cells(V, size),
         NEW o \in 0..size-1, NEW n \in 0..size, NEW m \in 0..n
  PROVE  /\ RingSeq(cells, size, o, m) = Piece(RingSeq(cells, size, o, n), 1, m)
         /\ RingSeq(cells, size, RingPlace(size, o, m), n - m)
              = Piece(RingSeq(cells, size, o, n), m + 1, n)
<1> DEFINE s == RingSeq(cells, size, o, n)
<1>1. s \in Seq(V) /\ Len(s) = n /\ \A j \in 1..n : s[j] = cells[RingPlace(size, o, j - 1)]
  <2>1. s \in Seq(V)
    BY RingIsSeq
  <2>2. Len(s) = n
    BY RingLen
  <2>3. \A j \in 1..n : s[j] = cells[RingPlace(size, o, j - 1)]
    BY RingElement
  <2> QED BY <2>1, <2>2, <2>3
<1>2. RingSeq(cells, size, o, m) = SubSeq(s, 1, m)
  <2> DEFINE r == RingSeq(cells, size, o, m)
             p == SubSeq(s, 1, m)
  <2>1. m \in 0..size
    OBVIOUS
  <2>2. /\ r \in Seq(V) /\ Len(r) = m
        /\ \A j \in 1..m : r[j] = cells[RingPlace(size, o, j - 1)]
    <3>1. r \in Seq(V)
      BY <2>1, RingIsSeq
    <3>2. Len(r) = m
      BY <2>1, RingLen
    <3>3. \A j \in 1..m : r[j] = cells[RingPlace(size, o, j - 1)]
      BY <2>1, RingElement
    <3> QED BY <3>1, <3>2, <3>3
  <2> HIDE DEF s, r
  <2>3. p \in Seq(V) /\ Len(p) = m /\ \A j \in 1..m : p[j] = s[j]
    <3>1. \A j \in 1..m : s[j] \in V
      BY <1>1
    <3>2. /\ p \in Seq(V) /\ Len(p) = IF 1 <= m THEN m - 1 + 1 ELSE 0
          /\ \A j \in 1..(m - 1 + 1) : p[j] = s[1 + j - 1]
      BY <3>1, SubSeqProperties
    <3> HIDE DEF p
    <3> QED BY <3>2
  <2> HIDE DEF p
  <2>4. ASSUME NEW j \in 1..m PROVE r[j] = p[j]
    <3>1. j \in 1..n
      OBVIOUS
    <3> QED BY <1>1, <2>2, <2>3, <3>1
  <2>5. r = p
    BY <2>2, <2>3, <2>4, SeqEqual
  <2> QED BY <2>5 DEF r, p
<1>3. RingSeq(cells, size, RingPlace(size, o, m), n - m) = SubSeq(s, m + 1, n)
  <2> DEFINE f == RingPlace(size, o, m)
             r == RingSeq(cells, size, f, n - m)
             p == SubSeq(s, m + 1, n)
  <2>1. n - m \in 0..size /\ m \in 0..size
    OBVIOUS
  <2>2. f \in 0..size-1
    BY <2>1, PlaceValue
  <2>3. ASSUME NEW j \in 0..size-1, m + j < size
        PROVE  RingPlace(size, f, j) = RingPlace(size, o, m + j)
    BY <2>1, <2>3 DEF RingPlace
  <2> HIDE DEF f
  <2>4. /\ r \in Seq(V) /\ Len(r) = n - m
        /\ \A j \in 1..(n - m) : r[j] = cells[RingPlace(size, f, j - 1)]
    <3>1. r \in Seq(V)
      BY <2>1, <2>2, RingIsSeq
    <3>2. Len(r) = n - m
      BY <2>1, RingLen
    <3>3. \A j \in 1..(n - m) : r[j] = cells[RingPlace(size, f, j - 1)]
      BY <2>1, <2>2, RingElement
    <3> QED BY <3>1, <3>2, <3>3
  <2> HIDE DEF s, r
  <2>5. p \in Seq(V) /\ Len(p) = n - m /\ \A j \in 1..(n - m) : p[j] = s[m + j]
    <3>1. \A j \in (m + 1)..n : s[j] \in V
      BY <1>1
    <3>2. m + 1 \in Int /\ n \in Int
      OBVIOUS
    <3>3. /\ p \in Seq(V) /\ Len(p) = IF m + 1 <= n THEN n - (m + 1) + 1 ELSE 0
          /\ \A j \in 1..(n - (m + 1) + 1) : p[j] = s[(m + 1) + j - 1]
      BY <3>1, <3>2, SubSeqProperties
    <3> HIDE DEF p
    <3>4. n - (m + 1) + 1 = n - m /\ (\A j \in 1..(n - m) : (m + 1) + j - 1 = m + j)
      OBVIOUS
    <3> QED BY <3>3, <3>4
  <2> HIDE DEF p
  <2>6. ASSUME NEW j \in 1..(n - m) PROVE r[j] = p[j]
    <3>1. j - 1 \in 0..size-1 /\ m + (j - 1) < size /\ m + (j - 1) = (m + j) - 1 /\ m + j \in 1..n
      BY <2>1
    <3>2. RingPlace(size, f, j - 1) = RingPlace(size, o, (m + j) - 1)
      BY <2>3, <3>1
    <3>3. s[m + j] = cells[RingPlace(size, o, (m + j) - 1)]
      BY <1>1, <3>1
    <3> QED BY <2>4, <2>5, <3>2, <3>3
  <2>7. r = p
    BY <2>4, <2>5, <2>6, SeqEqual
  <2> QED BY <2>7 DEF r, p, f
<1> QED
  BY <1>2, <1>3 DEF s, Piece

-----------------------------------------------------------------------------
(* The ring buffer: what its indices and mirror bits say. *)

Stored == Byte \union {Blank}

\* The mirror bits agree when the write index is ahead in the same round.
RingOK(r) ==
  /\ r \in Ring
  /\ r.wi > r.ri => r.rm = r.wm
  /\ r.wi < r.ri => r.rm # r.wm

\* The buffer has one cell at least.
LEMMA BufSizeNat == BufSize \in Nat /\ BufSize > 0
BY RingAssumption

\* The fields of a ring.
LEMMA RingFields ==
  ASSUME NEW r, r \in Ring
  PROVE  /\ r.ri \in 0..BufSize-1 /\ r.wi \in 0..BufSize-1
         /\ r.rm \in BOOLEAN /\ r.wm \in BOOLEAN
         /\ r.buf \in Cells(Stored, BufSize) /\ r.buf \in [Cell -> Stored]
         /\ r = [buf |-> r.buf, ri |-> r.ri, rm |-> r.rm, wi |-> r.wi, wm |-> r.wm]
BY DEF Ring, Cell, Cells, Stored

\* How the indices are apart, and what the mirror bits add to it.
LEMMA LenValue ==
  ASSUME NEW r, RingOK(r)
  PROVE  /\ DataLen(r) \in 0..BufSize
         /\ r.wi = RingPlace(BufSize, r.ri, DataLen(r))
         /\ r.rm = r.wm <=> r.ri + DataLen(r) < BufSize
<1>1. /\ r.ri \in 0..BufSize-1 /\ r.wi \in 0..BufSize-1
      /\ (r.wi > r.ri => r.rm = r.wm) /\ (r.wi < r.ri => r.rm # r.wm)
  BY RingFields DEF RingOK
<1>2. CASE r.ri = r.wi /\ r.rm = r.wm
  <2>1. DataLen(r) = 0
    BY <1>2 DEF DataLen, SameIndex, EmptyOrFull
  <2> QED BY <1>1, <1>2, <2>1, BufSizeNat DEF RingPlace
<1>3. CASE r.ri = r.wi /\ r.rm # r.wm
  <2>1. DataLen(r) = BufSize
    BY <1>3 DEF DataLen, SameIndex, EmptyOrFull
  <2> QED BY <1>1, <1>3, <2>1, BufSizeNat DEF RingPlace
<1>4. CASE r.wi > r.ri
  <2>1. DataLen(r) = r.wi - r.ri
    BY <1>1, <1>4 DEF DataLen, SameIndex, HalfFull
  <2> QED BY <1>1, <1>4, <2>1, BufSizeNat DEF RingPlace
<1>5. CASE r.wi < r.ri
  <2>1. DataLen(r) = BufSize - (r.ri - r.wi)
    BY <1>1, <1>5 DEF DataLen, SameIndex, HalfFull
  <2> QED BY <1>1, <1>5, <2>1, BufSizeNat DEF RingPlace
<1> QED
  BY <1>1, <1>2, <1>3, <1>4, <1>5

\* The other way round: indices and mirror bits for a number of bytes.
LEMMA LenFromPlace ==
  ASSUME NEW r, r \in Ring, NEW n \in 0..BufSize,
         r.wi = RingPlace(BufSize, r.ri, n),
         r.rm = r.wm <=> r.ri + n < BufSize
  PROVE  RingOK(r) /\ DataLen(r) = n
<1>1. r.ri \in 0..BufSize-1 /\ r.wi \in 0..BufSize-1
  BY RingFields
<1>2. CASE r.ri + n < BufSize
  <2>1. r.wi = r.ri + n /\ r.rm = r.wm
    BY <1>1, <1>2, BufSizeNat DEF RingPlace
  <2>2. RingOK(r)
    BY <1>1, <2>1, BufSizeNat DEF RingOK
  <2>3. DataLen(r) = n
    BY <1>1, <1>2, <2>1, BufSizeNat DEF DataLen, SameIndex, HalfFull, EmptyOrFull
  <2> QED BY <2>2, <2>3
<1>3. CASE r.ri + n >= BufSize
  <2>1. r.wi = r.ri + n - BufSize /\ r.rm # r.wm
    BY <1>1, <1>3, BufSizeNat DEF RingPlace
  <2>2. RingOK(r)
    BY <1>1, <2>1, BufSizeNat DEF RingOK
  <2>3. DataLen(r) = n
    BY <1>1, <1>3, <2>1, BufSizeNat DEF DataLen, SameIndex, HalfFull, EmptyOrFull
  <2> QED BY <2>2, <2>3
<1> QED
  BY <1>1, <1>2, <1>3, BufSizeNat

\* The bytes in the words of the facts on rings of cells.
LEMMA ContentsWords ==
  ASSUME NEW r
  PROVE  /\ Contents(r) = RingSeq(r.buf, BufSize, r.ri, DataLen(r))
         /\ \A n : First(r, n) = RingSeq(r.buf, BufSize, r.ri, n)
BY DEF Contents, First, RingSeq

\* The contents are bytes, as many as the ring says.
LEMMA ContentsLen ==
  ASSUME NEW r, RingOK(r)
  PROVE  Contents(r) \in Seq(Stored) /\ Len(Contents(r)) = DataLen(r)
<1>1. /\ DataLen(r) \in 0..BufSize /\ DataLen(r) \in Nat
      /\ r.ri \in 0..BufSize-1 /\ r.buf \in Cells(Stored, BufSize)
  BY LenValue, RingFields, BufSizeNat DEF RingOK
<1>2. Contents(r) = RingSeq(r.buf, BufSize, r.ri, DataLen(r))
  BY ContentsWords
<1>3. RingSeq(r.buf, BufSize, r.ri, DataLen(r)) \in Seq(Stored)
  BY <1>1, BufSizeNat, RingIsSeq
<1>4. Len(RingSeq(r.buf, BufSize, r.ri, DataLen(r))) = DataLen(r)
  BY <1>1, RingLen
<1> QED
  BY <1>2, <1>3, <1>4

\* How far cell i is past cell w.
PastCell(size, w, i) == IF i >= w THEN i - w ELSE i + size - w

\* The cell where n more end, from the cell w where len end.
LEMMA PlaceAfter ==
  ASSUME NEW size \in Nat, NEW o \in 0..size-1, NEW len \in 0..size, NEW n \in 1..(size - len),
         NEW w, w = RingPlace(size, o, len)
  PROVE  RingPlace(size, o, len + n)
           = IF size - w > n THEN w + n ELSE n - (size - w)
<1>1. CASE o + len < size
  BY <1>1 DEF RingPlace, PastCell
<1>2. CASE o + len >= size
  BY <1>2 DEF RingPlace, PastCell
<1> QED
  BY <1>1, <1>2

\* The cells in use are a round past the end, less what is there.
LEMMA PastUsed ==
  ASSUME NEW size \in Nat, NEW o \in 0..size-1, NEW len \in 0..size, NEW j \in 0..(len - 1),
         NEW w, w = RingPlace(size, o, len)
  PROVE  PastCell(size, w, RingPlace(size, o, j)) = size - len + j
<1>1. CASE o + len < size
  BY <1>1 DEF RingPlace, PastCell
<1>2. CASE o + len >= size
  BY <1>2 DEF RingPlace, PastCell
<1> QED
  BY <1>1, <1>2

\* The cells to come are just past it.
LEMMA PastFree ==
  ASSUME NEW size \in Nat, NEW o \in 0..size-1, NEW len \in 0..size, NEW j \in 0..(size - len - 1),
         NEW w, w = RingPlace(size, o, len)
  PROVE  PastCell(size, w, RingPlace(size, o, len + j)) = j
<1>1. CASE o + len < size
  BY <1>1 DEF RingPlace, PastCell
<1>2. CASE o + len >= size
  BY <1>2 DEF RingPlace, PastCell
<1> QED
  BY <1>1, <1>2

\* A put stores as many bytes as there is room for, behind the others.
LEMMA PutContents ==
  ASSUME NEW r, RingOK(r), NEW s \in Seq(Byte)
  PROVE  /\ RingOK(Put(r, s))
         /\ Fits(r, s) \in 0..Len(s)
         /\ Fits(r, s) = Len(s) \/ DataLen(r) + Fits(r, s) = BufSize
         /\ Contents(Put(r, s)) = Contents(r) \o SubSeq(s, 1, Fits(r, s))
         /\ Fits(r, s) = 0 => Put(r, s) = r
<1> DEFINE len == DataLen(r)
           n == Fits(r, s)
           past(i) == IF i >= r.wi THEN i - r.wi ELSE i + BufSize - r.wi
           buf == [i \in Cell |-> IF past(i) < n THEN s[past(i) + 1] ELSE r.buf[i]]
           q == Put(r, s)
<1>1. /\ r.ri \in 0..BufSize-1 /\ r.wi \in 0..BufSize-1
      /\ r.rm \in BOOLEAN /\ r.wm \in BOOLEAN
      /\ r.buf \in Cells(Stored, BufSize) /\ r.buf \in [Cell -> Stored] /\ r \in Ring
  BY RingFields DEF RingOK
<1>2. len \in 0..BufSize /\ r.wi = RingPlace(BufSize, r.ri, len) /\ (r.rm = r.wm <=> r.ri + len < BufSize)
  BY LenValue
<1>3. /\ n \in 0..Len(s) /\ n \in 0..(BufSize - len)
      /\ n = Len(s) \/ len + n = BufSize
  <2>1. n = IF Len(s) > BufSize - len THEN BufSize - len ELSE Len(s)
    BY DEF Fits
  <2>2. Len(s) \in Nat
    OBVIOUS
  <2> HIDE DEF n, len
  <2> QED BY <1>2, <2>1, <2>2, BufSizeNat
<1>4. q = IF n = 0 THEN r
          ELSE IF BufSize - r.wi > n THEN [r EXCEPT !.buf = buf, !.wi = r.wi + n]
          ELSE [r EXCEPT !.buf = buf, !.wm = ~r.wm, !.wi = n - (BufSize - r.wi)]
  BY DEF Put
<1> HIDE DEF n, len, q
<1>5. \A i \in Cell : past(i) \in 0..BufSize-1
  BY <1>1, BufSizeNat DEF Cell
<1>6. buf \in [Cell -> Stored]
  <2>1. ASSUME NEW i \in Cell, past(i) < n PROVE s[past(i) + 1] \in Byte
    <3>1. past(i) + 1 \in 1..Len(s)
      BY <1>3, <1>5, <2>1
    <3> QED BY <3>1
  <2>2. \A i \in Cell : r.buf[i] \in Stored
    BY <1>1
  <2> QED BY <2>1, <2>2 DEF Stored
<1>7. \A i \in Cell : buf[i] = IF past(i) < n THEN s[past(i) + 1] ELSE r.buf[i]
  OBVIOUS
<1> HIDE DEF buf
<1>8. CASE n = 0
  <2>1. q = r
    BY <1>4, <1>8
  <2>2. SubSeq(s, 1, n) = <<>>
    BY <1>8, SubSeqEmpty
  <2>3. Contents(r) \o <<>> = Contents(r)
    BY ContentsLen, ConcatEmptySeq
  <2> QED BY <1>3, <2>1, <2>2, <2>3 DEF q, n, len
<1>9. CASE n > 0
  <2>1. /\ q \in Ring /\ q.buf = buf /\ q.ri = r.ri /\ q.rm = r.rm
        /\ q.wi = (IF BufSize - r.wi > n THEN r.wi + n ELSE n - (BufSize - r.wi))
        /\ q.wm = (IF BufSize - r.wi > n THEN r.wm ELSE ~r.wm)
    <3>1. CASE BufSize - r.wi > n
      <4>1. q = [r EXCEPT !.buf = buf, !.wi = r.wi + n]
        BY <1>4, <1>9, <3>1
      <4>2. r.wi + n \in Cell
        BY <1>1, <1>3, <3>1, BufSizeNat DEF Cell
      <4> QED BY <1>1, <1>6, <3>1, <4>1, <4>2 DEF Ring, Stored
    <3>2. CASE ~(BufSize - r.wi > n)
      <4>1. q = [r EXCEPT !.buf = buf, !.wm = ~r.wm, !.wi = n - (BufSize - r.wi)]
        BY <1>4, <1>9, <3>2
      <4>2. n - (BufSize - r.wi) \in Cell
        BY <1>1, <1>2, <1>3, <3>2, BufSizeNat DEF Cell
      <4> QED BY <1>1, <1>6, <3>2, <4>1, <4>2 DEF Ring, Stored
    <3> QED BY <3>1, <3>2
  <2>2. len + n \in 0..BufSize
    BY <1>2, <1>3, BufSizeNat
  <2>3. q.wi = RingPlace(BufSize, q.ri, len + n)
    <3>1. n \in 1..(BufSize - len)
      BY <1>3, <1>9
    <3>2. RingPlace(BufSize, r.ri, len + n)
            = IF BufSize - r.wi > n THEN r.wi + n ELSE n - (BufSize - r.wi)
      BY <1>1, <1>2, <3>1, BufSizeNat, PlaceAfter
    <3> QED BY <2>1, <3>2
  <2>4. q.rm = q.wm <=> q.ri + (len + n) < BufSize
    <3>1. r.wm # ~r.wm /\ (r.rm = r.wm <=> r.rm # ~r.wm)
      BY <1>1
    <3>2. CASE r.ri + len < BufSize
      BY <1>1, <1>2, <1>3, <2>1, <3>1, <3>2, BufSizeNat DEF RingPlace
    <3>3. CASE r.ri + len >= BufSize
      BY <1>1, <1>2, <1>3, <2>1, <3>1, <3>3, BufSizeNat DEF RingPlace
    <3> QED BY <1>1, <1>2, <3>2, <3>3, BufSizeNat
  <2>5. RingOK(q) /\ DataLen(q) = len + n
    BY <2>1, <2>2, <2>3, <2>4, LenFromPlace
  <2>6. ASSUME NEW j \in 0..(len - 1)
        PROVE  buf[RingPlace(BufSize, r.ri, j)] = r.buf[RingPlace(BufSize, r.ri, j)]
    <3> DEFINE i == RingPlace(BufSize, r.ri, j)
    <3>1. i \in Cell
      BY <1>1, <1>2, BufSizeNat DEF RingPlace, Cell
    <3>2. past(i) = BufSize - len + j
      <4>1. PastCell(BufSize, r.wi, i) = BufSize - len + j
        BY <1>1, <1>2, BufSizeNat, PastUsed
      <4> HIDE DEF i
      <4> QED BY <4>1 DEF PastCell
    <3> HIDE DEF i
    <3>3. ~(past(i) < n)
      BY <1>2, <1>3, <3>2, BufSizeNat
    <3> QED BY <1>7, <3>1, <3>3 DEF i
  <2>7. ASSUME NEW j \in 0..(n - 1)
        PROVE  buf[RingPlace(BufSize, r.ri, len + j)] = s[j + 1]
    <3> DEFINE i == RingPlace(BufSize, r.ri, len + j)
    <3>1. i \in Cell
      BY <1>1, <1>2, <1>3, BufSizeNat DEF RingPlace, Cell
    <3>2. past(i) = j
      <4>1. j \in 0..(BufSize - len - 1)
        BY <1>2, <1>3, BufSizeNat
      <4>2. PastCell(BufSize, r.wi, i) = j
        BY <1>1, <1>2, <4>1, BufSizeNat, PastFree
      <4> HIDE DEF i
      <4> QED BY <4>2 DEF PastCell
    <3> HIDE DEF i
    <3>3. j < n
      BY <1>3
    <3> QED BY <1>7, <3>1, <3>2, <3>3 DEF i
  <2>8. Contents(q) = RingSeq(buf, BufSize, r.ri, len + n)
    BY <2>1, <2>5, ContentsWords
  <2>9. Contents(r) = RingSeq(r.buf, BufSize, r.ri, len)
    BY ContentsWords DEF len
  <2>10. Extended(Stored, BufSize, r.buf, r.ri, len, buf, n, s)
    <3>1. buf \in Cells(Stored, BufSize) /\ s \in Seq(Stored) /\ n <= Len(s)
      BY <1>3, <1>6 DEF Cells, Cell, Stored
    <3> QED BY <1>1, <1>2, <1>3, <2>6, <2>7, <3>1, BufSizeNat DEF Extended
  <2>11. RingSeq(buf, BufSize, r.ri, len + n)
           = RingSeq(r.buf, BufSize, r.ri, len) \o Piece(s, 1, n)
    BY <2>10, RingExtends
  <2> QED BY <1>3, <1>9, <2>5, <2>8, <2>9, <2>11 DEF q, n, len, Piece
<1> QED
  BY <1>3, <1>8, <1>9

\* What is taken are the first bytes; the others stay.
LEMMA RestContents ==
  ASSUME NEW r, RingOK(r), NEW n \in 1..DataLen(r)
  PROVE  /\ RingOK(Rest(r, n))
         /\ First(r, n) = Piece(Contents(r), 1, n)
         /\ Contents(Rest(r, n)) = Piece(Contents(r), n + 1, DataLen(r))
<1> DEFINE len == DataLen(r)
           q == Rest(r, n)
           f == RingPlace(BufSize, r.ri, n)
<1>1. /\ r.ri \in 0..BufSize-1 /\ r.wi \in 0..BufSize-1
      /\ r.rm \in BOOLEAN /\ r.wm \in BOOLEAN
      /\ r.buf \in Cells(Stored, BufSize) /\ r \in Ring
  BY RingFields DEF RingOK
<1>2. /\ len \in 0..BufSize /\ r.wi = RingPlace(BufSize, r.ri, len)
      /\ r.rm = r.wm <=> r.ri + len < BufSize
  BY LenValue
<1>3. n \in 1..BufSize /\ n \in 0..len /\ n \in 0..BufSize
  BY <1>2, BufSizeNat
<1>4. q = IF BufSize - r.ri > n THEN [r EXCEPT !.ri = r.ri + n]
          ELSE [r EXCEPT !.rm = ~r.rm, !.ri = n - (BufSize - r.ri)]
  BY DEF Rest
<1> HIDE DEF len, q
<1>5. f \in 0..BufSize-1
  BY <1>1, <1>3, BufSizeNat, PlaceValue
<1>6. /\ q \in Ring /\ q.buf = r.buf /\ q.wi = r.wi /\ q.wm = r.wm /\ q.ri = f
      /\ q.rm = IF BufSize - r.ri > n THEN r.rm ELSE ~r.rm
  <2>1. CASE BufSize - r.ri > n
    <3>1. q = [r EXCEPT !.ri = r.ri + n] /\ f = r.ri + n
      BY <1>1, <1>3, <1>4, <2>1, BufSizeNat DEF RingPlace
    <3> HIDE DEF f
    <3>2. r.ri + n \in Cell
      BY <1>5, <3>1 DEF Cell
    <3> QED BY <1>1, <2>1, <3>1, <3>2 DEF Ring
  <2>2. CASE ~(BufSize - r.ri > n)
    <3>1. q = [r EXCEPT !.rm = ~r.rm, !.ri = n - (BufSize - r.ri)] /\ f = n - (BufSize - r.ri)
      BY <1>1, <1>3, <1>4, <2>2, BufSizeNat DEF RingPlace
    <3> HIDE DEF f
    <3>2. n - (BufSize - r.ri) \in Cell
      BY <1>5, <3>1 DEF Cell
    <3> QED BY <1>1, <2>2, <3>1, <3>2 DEF Ring
  <2> QED BY <2>1, <2>2
<1>7. len - n \in 0..BufSize
  BY <1>2, <1>3, BufSizeNat
<1>8. q.wi = RingPlace(BufSize, q.ri, len - n)
  BY <1>1, <1>2, <1>3, <1>6, BufSizeNat DEF RingPlace
<1>9. q.rm = q.wm <=> q.ri + (len - n) < BufSize
  <2>1. (~r.rm) = r.wm <=> ~(r.rm = r.wm)
    BY <1>1
  <2>2. CASE BufSize - r.ri > n
    BY <1>1, <1>2, <1>3, <1>6, <2>2, BufSizeNat DEF RingPlace
  <2>3. CASE ~(BufSize - r.ri > n)
    <3>1. q.ri + (len - n) < BufSize /\ ~(r.ri + len < BufSize)
      BY <1>1, <1>2, <1>3, <1>6, <2>3, BufSizeNat DEF RingPlace
    <3> QED BY <1>2, <1>6, <2>1, <2>3, <3>1
  <2> QED BY <2>2, <2>3
<1>10. RingOK(q) /\ DataLen(q) = len - n
  BY <1>6, <1>7, <1>8, <1>9, LenFromPlace
<1>11. /\ First(r, n) = RingSeq(r.buf, BufSize, r.ri, n)
       /\ Contents(r) = RingSeq(r.buf, BufSize, r.ri, len)
       /\ Contents(q) = RingSeq(r.buf, BufSize, f, len - n)
  BY <1>6, <1>10, ContentsWords DEF len
<1>12. /\ RingSeq(r.buf, BufSize, r.ri, n) = Piece(RingSeq(r.buf, BufSize, r.ri, len), 1, n)
       /\ RingSeq(r.buf, BufSize, f, len - n)
            = Piece(RingSeq(r.buf, BufSize, r.ri, len), n + 1, len)
  BY <1>1, <1>2, <1>3, BufSizeNat, RingDrops
<1> QED
  BY <1>10, <1>11, <1>12 DEF q, len

\* rt_ringbuffer_getchar is rt_ringbuffer_get of one byte.
LEMMA RestCharIsRest ==
  ASSUME NEW r, r \in Ring
  PROVE  RestChar(r) = Rest(r, 1)
<1>1. r.ri \in 0..BufSize-1 /\ BufSize \in Nat
  BY RingFields, BufSizeNat
<1>2. CASE r.ri = BufSize - 1
  <2>1. ~(BufSize - r.ri > 1) /\ 1 - (BufSize - r.ri) = 0
    BY <1>1, <1>2
  <2> QED BY <1>2, <2>1 DEF RestChar, Rest
<1>3. CASE r.ri # BufSize - 1
  <2>1. BufSize - r.ri > 1
    BY <1>1, <1>3
  <2> QED BY <1>3, <2>1 DEF RestChar, Rest
<1> QED
  BY <1>2, <1>3

\* rt_ringbuffer_putchar stores the byte unless the ring is full.
LEMMA PutCharContents ==
  ASSUME NEW r, RingOK(r), NEW c \in Byte
  PROVE  /\ RingOK(PutChar(r, c))
         /\ DataLen(r) = BufSize => PutChar(r, c) = r
         /\ DataLen(r) # BufSize => Contents(PutChar(r, c)) = Append(Contents(r), c)
<1> DEFINE len == DataLen(r)
           buf == [r.buf EXCEPT ![r.wi] = c]
           q == PutChar(r, c)
<1>1. /\ r.ri \in 0..BufSize-1 /\ r.wi \in 0..BufSize-1
      /\ r.rm \in BOOLEAN /\ r.wm \in BOOLEAN
      /\ r.buf \in Cells(Stored, BufSize) /\ r.buf \in [Cell -> Stored] /\ r \in Ring
  BY RingFields DEF RingOK
<1>2. /\ len \in 0..BufSize /\ r.wi = RingPlace(BufSize, r.ri, len)
      /\ r.rm = r.wm <=> r.ri + len < BufSize
  BY LenValue
<1>3. CASE len = BufSize
  BY <1>3, BufSizeNat DEF PutChar
<1>4. CASE len # BufSize
  <2>1. q = IF r.wi = BufSize - 1 THEN [r EXCEPT !.buf = buf, !.wm = ~r.wm, !.wi = 0]
            ELSE [r EXCEPT !.buf = buf, !.wi = r.wi + 1]
    BY <1>4 DEF PutChar
  <2>2. /\ buf \in [Cell -> Stored] /\ buf[r.wi] = c
        /\ \A i \in DOMAIN r.buf : i # r.wi => buf[i] = r.buf[i]
    BY <1>1 DEF Cell, Stored
  <2> HIDE DEF buf, q, len
  <2>3. len \in 0..BufSize-1 /\ len + 1 \in 0..BufSize
    BY <1>2, <1>4, BufSizeNat
  <2>4. /\ q \in Ring /\ q.buf = buf /\ q.ri = r.ri /\ q.rm = r.rm
        /\ q.wi = (IF r.wi = BufSize - 1 THEN 0 ELSE r.wi + 1)
        /\ q.wm = (IF r.wi = BufSize - 1 THEN ~r.wm ELSE r.wm)
    <3>1. CASE r.wi = BufSize - 1
      <4>1. q = [r EXCEPT !.buf = buf, !.wm = ~r.wm, !.wi = 0] /\ 0 \in Cell
        BY <2>1, <3>1, BufSizeNat DEF Cell
      <4> QED BY <1>1, <2>2, <3>1, <4>1 DEF Ring, Stored
    <3>2. CASE r.wi # BufSize - 1
      <4>1. q = [r EXCEPT !.buf = buf, !.wi = r.wi + 1] /\ r.wi + 1 \in Cell
        BY <1>1, <2>1, <3>2, BufSizeNat DEF Cell
      <4> QED BY <1>1, <2>2, <3>2, <4>1 DEF Ring, Stored
    <3> QED BY <3>1, <3>2
  <2>5. q.wi = RingPlace(BufSize, q.ri, len + 1)
    BY <1>1, <1>2, <2>3, <2>4, BufSizeNat DEF RingPlace
  <2>6. q.rm = q.wm <=> q.ri + (len + 1) < BufSize
    <3>1. r.rm = ~r.wm <=> ~(r.rm = r.wm)
      BY <1>1
    <3>2. CASE r.wi = BufSize - 1
      <4>1. r.ri + len < BufSize /\ ~(r.ri + (len + 1) < BufSize)
        BY <1>1, <1>2, <2>3, <3>2, BufSizeNat DEF RingPlace
      <4> QED BY <1>2, <2>4, <3>1, <3>2, <4>1
    <3>3. CASE r.wi # BufSize - 1
      <4>1. r.ri + len < BufSize <=> r.ri + (len + 1) < BufSize
        BY <1>1, <1>2, <2>3, <3>3, BufSizeNat DEF RingPlace
      <4> QED BY <1>2, <2>4, <3>3, <4>1
    <3> QED BY <3>2, <3>3
  <2>7. RingOK(q) /\ DataLen(q) = len + 1
    BY <2>3, <2>4, <2>5, <2>6, LenFromPlace
  <2>8. /\ Contents(q) = RingSeq(buf, BufSize, r.ri, len + 1)
        /\ Contents(r) = RingSeq(r.buf, BufSize, r.ri, len)
    BY <2>4, <2>7, ContentsWords DEF len
  <2>9. /\ buf \in Cells(Stored, BufSize) /\ c \in Stored
        /\ Filled(buf, r.buf, RingPlace(BufSize, r.ri, len), c)
    BY <1>2, <2>2 DEF Cells, Cell, Stored, Filled
  <2>10. RingSeq(buf, BufSize, r.ri, len + 1) = Append(RingSeq(r.buf, BufSize, r.ri, len), c)
    BY <1>1, <2>3, <2>9, BufSizeNat, RingAppends
  <2> QED BY <1>4, <2>7, <2>8, <2>10 DEF q, len
<1> QED
  BY <1>3, <1>4

-----------------------------------------------------------------------------
(* Receiving *)

RxBytes == Contents(rx.ring)

\* The ring is sound, and what the reader asked for is a number.
RxInv ==
  /\ rx = [ring |-> rx.ring, index |-> rx.index, done |-> rx.done]
  /\ RingOK(rx.ring)
  /\ reading = [asked |-> reading.asked, got |-> reading.got]
  /\ reading.asked \in Nat

RxStep == RxPipe!Next \/ UNCHANGED <<RxBytes, reading.got>>

\* What every step keeps, and how it looks from both ends.
RxGood == RxInv' /\ RxStep

\* The bytes before and after a step.
LEMMA RxWords == RxBytes = Contents(rx.ring) /\ RxBytes' = Contents(rx'.ring)
BY DEF RxBytes, Contents, First, DataLen, SameIndex, EmptyOrFull, HalfFull

\* A step that leaves the ring and what was read alone.
LEMMA RxQuiet ==
  ASSUME RxInv, rx'.ring = rx.ring, reading'.got = reading.got,
         rx' = [ring |-> rx'.ring, index |-> rx'.index, done |-> rx'.done],
         reading' = [asked |-> reading'.asked, got |-> reading'.got],
         reading'.asked \in Nat
  PROVE  RxGood
<1>1. RingOK(rx'.ring)
  BY DEF RxInv
<1>2. RxInv'
  BY <1>1 DEF RxInv, RingOK, Ring, Cell
<1>3. UNCHANGED <<RxBytes, reading.got>>
  BY RxWords
<1> QED
  BY <1>2, <1>3 DEF RxGood, RxStep

\* A read takes the first bytes.
LEMMA RxTakes ==
  ASSUME RxInv, NEW n \in 1..DataLen(rx.ring), GetBytes(n)
  PROVE  RxGood
<1>1. /\ RingOK(Rest(rx.ring, n))
      /\ First(rx.ring, n) = Piece(Contents(rx.ring), 1, n)
      /\ Contents(Rest(rx.ring, n)) = Piece(Contents(rx.ring), n + 1, DataLen(rx.ring))
  BY RestContents DEF RxInv
<1>2. /\ rx'.ring = Rest(rx.ring, n) /\ reading'.got = First(rx.ring, n)
      /\ rx' = [ring |-> rx'.ring, index |-> rx'.index, done |-> rx'.done]
      /\ reading' = [asked |-> reading'.asked, got |-> reading'.got]
      /\ reading'.asked = reading.asked
  BY DEF GetBytes, RxInv
<1>3. RxInv'
  BY <1>1, <1>2 DEF RxInv, RingOK, Ring, Cell
<1>4. Len(RxBytes) = DataLen(rx.ring)
  BY ContentsLen, RxWords DEF RxInv
<1>5. /\ reading'.got = SubSeq(RxBytes, 1, n)
      /\ RxBytes' = SubSeq(RxBytes, n + 1, Len(RxBytes))
  BY <1>1, <1>2, <1>4, RxWords DEF Piece
<1>6. RxPipe!Take(n)
  BY <1>5 DEF RxPipe!Take, RxBytes
<1>7. n \in 1..Len(RxBytes)
  BY <1>4
<1>8. RxPipe!Next
  BY <1>6, <1>7 DEF RxPipe!Next, RxBytes
<1> QED
  BY <1>3, <1>8 DEF RxGood, RxStep

\* An interrupt stores a byte, or drops it.
LEMMA RxStores ==
  ASSUME RxInv, NEW c \in Byte, rx'.ring = PutChar(rx.ring, c),
         rx' = [ring |-> rx'.ring, index |-> rx'.index, done |-> rx'.done],
         UNCHANGED reading
  PROVE  RxGood
<1>1. /\ RingOK(rx'.ring)
      /\ DataLen(rx.ring) = BufSize => rx'.ring = rx.ring
      /\ DataLen(rx.ring) # BufSize => Contents(rx'.ring) = Append(Contents(rx.ring), c)
  BY PutCharContents DEF RxInv
<1>2. RxInv'
  BY <1>1 DEF RxInv, RingOK, Ring, Cell
<1>3. CASE DataLen(rx.ring) = BufSize
  BY <1>1, <1>3, RxQuiet DEF RxInv
<1>4. CASE DataLen(rx.ring) # BufSize
  <2>1. RxBytes' = Append(RxBytes, c)
    BY <1>1, <1>4, RxWords
  <2>2. RxBytes \in Seq(Stored) /\ c \in Stored
    BY ContentsLen, RxWords DEF RxInv, Stored
  <2> HIDE DEF RxBytes
  <2>3. RxBytes' = RxBytes \o SubSeq(<<c>>, 1, 1)
    BY <2>1, <2>2
  <2>4. RxPipe!Offer(<<c>>)
    <3>1. 1 \in 1..Len(<<c>>) /\ 1 = Len(<<c>>) /\ UNCHANGED reading.got
      OBVIOUS
    <3>2. Contents(rx.ring)' = Contents(rx.ring) \o SubSeq(<<c>>, 1, 1)
      BY <2>3 DEF RxBytes
    <3> QED BY <3>1, <3>2, Zenon DEF RxPipe!Offer
  <2>5. RxPipe!Next
    BY <2>4 DEF RxPipe!Next
  <2> QED BY <1>2, <2>5 DEF RxGood, RxStep
<1> QED
  BY <1>3, <1>4

\* The steps of the shell and of the interrupts that serve it.
LEMMA ShellStep ==
  ASSUME RxInv, ShellNext
  PROVE  RxGood
<1>1. CASE UNCHANGED rxVars
  BY <1>1, RxQuiet DEF rxVars, RxInv
<1>2. CASE ShellRead
  <2>1. CASE DataLen(rx.ring) > 0 /\ GetBytes(1)
    <3>1. 1 \in 1..DataLen(rx.ring)
      BY <2>1, LenValue, BufSizeNat DEF RxInv
    <3> QED BY <2>1, <3>1, RxTakes
  <2> QED BY <1>1, <1>2, <2>1 DEF ShellRead
<1>3. CASE ShellTake
  BY <1>1, <1>3 DEF ShellTake, serialVars, rxVars
<1>4. ASSUME NEW c \in Byte, IsrByteForShell(c) PROVE RxGood
  <2>1. rx' = [rx EXCEPT !.ring = PutChar(@, c)] /\ UNCHANGED reading
    BY <1>4 DEF IsrByteForShell
  <2>2. /\ rx'.ring = PutChar(rx.ring, c)
        /\ rx' = [ring |-> rx'.ring, index |-> rx'.index, done |-> rx'.done]
    BY <2>1 DEF RxInv
  <2> QED BY <2>1, <2>2, RxStores
<1> QED
  BY <1>2, <1>3, <1>4 DEF ShellNext

\* The steps of the reader and of the interrupts that serve it.
LEMMA ReaderStep ==
  ASSUME RxInv, ReaderNext
  PROVE  RxGood
<1>1. ASSUME NEW n \in 1..BufSize, ReadCall(n) PROVE RxGood
  <2>1. /\ rx' = rx /\ reading' = [asked |-> n, got |-> reading.got] /\ n \in Nat
    BY <1>1, BufSizeNat DEF ReadCall, RxInv
  <2> QED BY <2>1, RxQuiet DEF RxInv
<1>2. CASE LookAtIndex \/ LookAtLength
  <2>1. rx' = rx /\ reading' = reading
    BY <1>2 DEF LookAtIndex, LookAtLength, rxVars
  <2> QED BY <2>1, RxQuiet DEF RxInv
<1>3. CASE Ask \/ AwaitBytes \/ AwaitedBytes
  <2>1. /\ rx' = [rx EXCEPT !.index = reading.asked] \/ rx' = [rx EXCEPT !.done = FALSE] \/ rx' = rx
        /\ reading' = reading
    BY <1>3 DEF Ask, AwaitBytes, AwaitedBytes, rxVars
  <2>2. /\ rx'.ring = rx.ring
        /\ rx' = [ring |-> rx'.ring, index |-> rx'.index, done |-> rx'.done]
    BY <2>1 DEF RxInv
  <2> QED BY <2>1, <2>2, RxQuiet DEF RxInv
<1>4. CASE FetchBytes
  <2> DEFINE len == DataLen(rx.ring)
             n == IF len < reading.asked THEN len ELSE reading.asked
  <2>1. len \in 0..BufSize
    BY LenValue DEF RxInv
  <2>2. n \in 0..len
    BY <2>1, BufSizeNat DEF RxInv
  <2>3. IF n = 0 THEN UNCHANGED rxVars ELSE GetBytes(n)
    BY <1>4 DEF FetchBytes
  <2> HIDE DEF n
  <2>4. CASE n = 0
    <3>1. rx' = rx /\ reading' = reading
      BY <2>3, <2>4 DEF rxVars
    <3> QED BY <3>1, RxQuiet DEF RxInv
  <2>5. CASE n # 0
    <3>1. n \in 1..DataLen(rx.ring) /\ GetBytes(n)
      BY <2>1, <2>2, <2>3, <2>5
    <3> QED BY <3>1, RxTakes
  <2> QED BY <2>4, <2>5
<1>5. ASSUME NEW c \in Byte, IsrByteForReader(c) PROVE RxGood
  <2>1. /\ rx'.ring = PutChar(rx.ring, c) /\ reading' = reading
        /\ rx' = [ring |-> rx'.ring, index |-> rx'.index, done |-> rx'.done]
    BY <1>5 DEF IsrByteForReader
  <2> QED BY <2>1, RxStores
<1> QED
  BY <1>1, <1>2, <1>3, <1>4, <1>5 DEF ReaderNext

\* Nobody else touches the receiving side.
LEMMA NextRx == RxInv /\ [Next]_vars => RxGood
<1> SUFFICES ASSUME RxInv, [Next]_vars PROVE RxGood
  OBVIOUS
<1>1. CASE UNCHANGED rxVars
  <2>1. rx' = rx /\ reading' = reading
    BY <1>1 DEF rxVars
  <2> QED BY <2>1, RxQuiet DEF RxInv
<1>2. CASE UNCHANGED vars \/ (Next /\ UNCHANGED serialVars)
  BY <1>1, <1>2 DEF vars, serialVars, rxVars
<1>3. CASE QueuerNext \/ WriterNext
  BY <1>1, <1>3 DEF QueuerNext, WriterNext
<1> QED
  BY <1>2, <1>3, ShellStep, ReaderStep DEF Next, SerialNext

\* After rt_serial_rx_enable the ring is empty.
LEMMA InitRing == RingOK(EmptyRing) /\ DataLen(EmptyRing) = 0 /\ Contents(EmptyRing) = <<>>
<1>1. EmptyRing \in Ring
  BY BufSizeNat DEF EmptyRing, Ring, Cell
<1>2. RingOK(EmptyRing) /\ DataLen(EmptyRing) = 0
  BY <1>1 DEF RingOK, EmptyRing, DataLen, SameIndex, EmptyOrFull
<1>3. Contents(EmptyRing) \in Seq(Stored) /\ Len(Contents(EmptyRing)) = 0
  BY <1>2, ContentsLen
<1> QED
  BY <1>2, <1>3, EmptySeq

LEMMA InitRx == Init => RxInv /\ RxPipe!Init
<1> SUFFICES ASSUME Init PROVE RxInv /\ RxPipe!Init
  OBVIOUS
<1>1. /\ rx = [ring |-> EmptyRing, index |-> 0, done |-> FALSE]
      /\ reading = [asked |-> 0, got |-> <<>>]
  BY DEF Init, SerialInit
<1> QED
  BY <1>1, InitRing DEF RxInv, RxPipe!Init

-----------------------------------------------------------------------------
(* Sending *)

TxBytes == Contents(tx.ring) \o unsent

\* The ring is sound; only a writer in its call, which keeps the port active, has
\* something unsent.
TxInv ==
  /\ inUse \in Setups
  /\ tx = [ring |-> tx.ring, active |-> tx.active, done |-> tx.done]
  /\ RingOK(tx.ring)
  /\ line = [txe |-> line.txe, tc |-> line.tc, sent |-> line.sent]
  /\ unsent \in Seq(Byte)
  /\ unsent # <<>> => tx.active /\ "writer" \in inUse

TxStep == TxPipe!Next \/ UNCHANGED <<TxBytes, line.sent>>

TxGood == TxInv' /\ TxStep

\* The bytes before and after a step.
LEMMA TxWords == TxBytes = Contents(tx.ring) \o unsent /\ TxBytes' = Contents(tx'.ring) \o unsent'
BY DEF TxBytes, Contents, First, DataLen, SameIndex, EmptyOrFull, HalfFull

\* A step after which the fields are as they should.
LEMMA TxInvKept ==
  ASSUME inUse' \in Setups, RingOK(tx'.ring), unsent' \in Seq(Byte),
         tx' = [ring |-> tx'.ring, active |-> tx'.active, done |-> tx'.done],
         line' = [txe |-> line'.txe, tc |-> line'.tc, sent |-> line'.sent],
         unsent' # <<>> => tx'.active /\ "writer" \in inUse'
  PROVE  TxInv'
BY DEF TxInv, RingOK, Ring, Cell

\* A step that leaves the bytes and what was sent alone.
LEMMA TxQuiet ==
  ASSUME TxInv, UNCHANGED <<inUse, unsent>>, tx'.ring = tx.ring, line'.sent = line.sent,
         tx' = [ring |-> tx'.ring, active |-> tx'.active, done |-> tx'.done],
         line' = [txe |-> line'.txe, tc |-> line'.tc, sent |-> line'.sent],
         unsent # <<>> => tx'.active
  PROVE  TxGood
<1>1. TxInv'
  BY TxInvKept DEF TxInv
<1>2. UNCHANGED <<TxBytes, line.sent>>
  BY TxWords
<1> QED
  BY <1>1, <1>2 DEF TxGood, TxStep

\* Bytes of a text are offered behind those on their way.
LEMMA TxOffers ==
  ASSUME NEW s \in Text, NEW n \in 1..Len(s),
         n = Len(s) \/ Len(TxBytes) + n = BufSize,
         TxBytes' = TxBytes \o Piece(s, 1, n), line'.sent = line.sent
  PROVE  TxPipe!Next
<1>1. /\ TxBytes' = TxBytes \o SubSeq(s, 1, n)
      /\ UNCHANGED line.sent
  BY DEF Piece
<1>2. TxPipe!Offer(s)
  BY <1>1, Zenon DEF TxPipe!Offer, TxBytes
<1> QED
  BY <1>2 DEF TxPipe!Next

\* Queued bytes: those that fit are offered.
LEMMA QueueStep ==
  ASSUME TxInv, "queuer" \in inUse, inUse' = inUse, NEW t, NEW s \in Text, QueueBytes(t, s)
  PROVE  TxGood
<1> DEFINE n == Fits(tx.ring, s)
<1>1. s \in Seq(Byte)
  BY SerialAssumption
<1>2. unsent = <<>> /\ unsent' = <<>>
  <2>1. "writer" \notin inUse
    BY SetupsAssumption DEF TxInv
  <2> QED BY <2>1 DEF TxInv, QueueBytes
<1>3. /\ tx'.ring = Put(tx.ring, s) /\ line' = line
      /\ tx' = [ring |-> tx'.ring, active |-> tx'.active, done |-> tx'.done]
  BY DEF QueueBytes, TxInv
<1>4. /\ RingOK(tx'.ring)
      /\ n \in 0..Len(s)
      /\ n = Len(s) \/ DataLen(tx.ring) + n = BufSize
      /\ Contents(tx'.ring) = Contents(tx.ring) \o Piece(s, 1, n)
      /\ n = 0 => tx'.ring = tx.ring
  BY <1>1, <1>3, PutContents DEF TxInv, Piece
<1>5. TxInv'
  BY <1>1, <1>2, <1>3, <1>4, TxInvKept DEF TxInv
<1>6. TxBytes = Contents(tx.ring) /\ TxBytes' = Contents(tx'.ring) /\ Len(TxBytes) = DataLen(tx.ring)
  <2>1. /\ Contents(tx.ring) \in Seq(Stored) /\ Contents(tx'.ring) \in Seq(Stored)
        /\ Len(Contents(tx.ring)) = DataLen(tx.ring)
    BY <1>4, ContentsLen DEF TxInv
  <2> QED BY <1>2, <2>1, TxWords, ConcatEmptySeq
<1> HIDE DEF n
<1>7. CASE n = 0
  <2>1. UNCHANGED <<TxBytes, line.sent>>
    BY <1>3, <1>4, <1>6, <1>7
  <2> QED BY <1>5, <2>1 DEF TxGood, TxStep
<1>8. CASE n # 0
  <2>1. n \in 1..Len(s) /\ line'.sent = line.sent
    BY <1>3, <1>4, <1>8
  <2>2. TxBytes' = TxBytes \o Piece(s, 1, n) /\ (n = Len(s) \/ Len(TxBytes) + n = BufSize)
    BY <1>4, <1>6
  <2>3. TxPipe!Next
    BY <2>1, <2>2, TxOffers
  <2> QED BY <1>5, <2>3 DEF TxGood, TxStep
<1> QED
  BY <1>7, <1>8

\* A write call offers its text as a whole.
LEMMA WriteCallStep ==
  ASSUME TxInv, "writer" \in inUse, inUse' = inUse, NEW s \in Text, WriteCall(s)
  PROVE  TxGood
<1>1. s \in Seq(Byte) /\ s # <<>>
  BY SerialAssumption
<1>2. /\ ~tx.active /\ unsent' = s /\ line' = line
      /\ tx' = [tx EXCEPT !.active = TRUE]
  BY DEF WriteCall
<1>3. unsent = <<>>
  BY <1>2 DEF TxInv
<1>4. /\ tx'.ring = tx.ring /\ tx'.active
      /\ tx' = [ring |-> tx'.ring, active |-> tx'.active, done |-> tx'.done]
  BY <1>2 DEF TxInv
<1>5. TxInv'
  BY <1>1, <1>2, <1>4, TxInvKept DEF TxInv
<1>6. TxBytes = Contents(tx.ring) /\ TxBytes' = Contents(tx.ring) \o s
  <2>1. Contents(tx.ring) \in Seq(Stored)
    BY ContentsLen DEF TxInv
  <2> QED BY <1>2, <1>3, <1>4, <2>1, TxWords, ConcatEmptySeq
<1>7. Piece(s, 1, Len(s)) = s
  BY <1>1, SubSeqFull DEF Piece
<1>8. Len(s) \in 1..Len(s)
  BY <1>1, EmptySeq
<1>9. TxPipe!Next
  <2>1. TxBytes' = TxBytes \o Piece(s, 1, Len(s)) /\ line'.sent = line.sent
    BY <1>2, <1>6, <1>7
  <2> QED BY <1>8, <2>1, TxOffers
<1> QED
  BY <1>5, <1>9 DEF TxGood, TxStep

\* What the writer puts into the ring was on its way already.
LEMMA FillStep ==
  ASSUME TxInv, "writer" \in inUse, inUse' = inUse, FillRing
  PROVE  TxGood
<1> DEFINE n == Fits(tx.ring, unsent)
<1>1. /\ unsent \in Seq(Byte) /\ unsent # <<>> /\ tx.active
      /\ unsent' = Piece(unsent, n + 1, Len(unsent)) /\ line' = line
      /\ tx' = [tx EXCEPT !.ring = Put(@, unsent)]
  BY DEF FillRing, TxInv, Piece
<1>2. /\ tx'.ring = Put(tx.ring, unsent) /\ tx'.active
      /\ tx' = [ring |-> tx'.ring, active |-> tx'.active, done |-> tx'.done]
  BY <1>1 DEF TxInv
<1>3. /\ RingOK(tx'.ring) /\ n \in 0..Len(unsent)
      /\ Contents(tx'.ring) = Contents(tx.ring) \o Piece(unsent, 1, n)
  BY <1>1, <1>2, PutContents DEF TxInv, Piece
<1> HIDE DEF n
<1>4. /\ Piece(unsent, 1, n) \in Seq(Byte) /\ Piece(unsent, n + 1, Len(unsent)) \in Seq(Byte)
      /\ Piece(unsent, 1, n) \o Piece(unsent, n + 1, Len(unsent)) = unsent
  <2>1. \A j \in 1..Len(unsent) : unsent[j] \in Byte
    BY <1>1
  <2>2. /\ 1 \in Int /\ n \in Int /\ n + 1 \in Int /\ Len(unsent) \in Int
        /\ (\A j \in 1..n : unsent[j] \in Byte) /\ (\A j \in (n + 1)..Len(unsent) : unsent[j] \in Byte)
    BY <1>1, <1>3, <2>1
  <2>3. SubSeq(unsent, 1, n) \in Seq(Byte)
    BY <2>2, SubSeqProperties
  <2>4. SubSeq(unsent, n + 1, Len(unsent)) \in Seq(Byte)
    BY <2>2, SubSeqProperties
  <2>5. /\ 1 \in 1..(Len(unsent) + 1) /\ n \in (1 - 1)..Len(unsent)
        /\ Len(unsent) \in n..Len(unsent)
    BY <1>1, <1>3
  <2>6. SubSeq(unsent, 1, n) \o SubSeq(unsent, n + 1, Len(unsent)) = SubSeq(unsent, 1, Len(unsent))
    BY <1>1, <2>5, ConcatAdjacentSubSeq
  <2>7. SubSeq(unsent, 1, Len(unsent)) = unsent
    BY <1>1, SubSeqFull
  <2> QED BY <2>3, <2>4, <2>6, <2>7 DEF Piece
<1>5. TxInv'
  BY <1>1, <1>2, <1>3, <1>4, TxInvKept DEF TxInv
<1>6. TxBytes' = TxBytes
  <2> DEFINE a == Contents(tx.ring)
             b == Piece(unsent, 1, n)
             c == Piece(unsent, n + 1, Len(unsent))
  <2>1. a \in Seq(Stored) /\ b \in Seq(Stored) /\ c \in Seq(Stored) /\ b \o c = unsent
    BY <1>4, ContentsLen DEF TxInv, Stored
  <2>2. TxBytes' = (a \o b) \o c /\ TxBytes = a \o unsent
    BY <1>1, <1>3, TxWords
  <2> HIDE DEF a, b, c
  <2>3. (a \o b) \o c = a \o (b \o c)
    BY <2>1, ConcatAssociative, Z3
  <2> QED BY <2>1, <2>2, <2>3
<1> QED
  BY <1>1, <1>5, <1>6 DEF TxGood, TxStep

\* The first element of two sequences in a row is that of the first.
LEMMA JoinedFirst ==
  ASSUME NEW V, NEW a \in Seq(V), NEW b \in Seq(V), a # <<>>
  PROVE  /\ Piece(a \o b, 1, 1) = Piece(a, 1, 1)
         /\ Piece(a \o b, 2, Len(a \o b)) = Piece(a, 2, Len(a)) \o b
<1> DEFINE c == a \o b
           p == Tail(c)
           h == Tail(a)
           q == h \o b
<1>1. Len(a) \in Nat /\ Len(a) >= 1 /\ Len(b) \in Nat
  BY EmptySeq
<1>2. SubSeq(a \o b, 1, 1) = SubSeq(a, 1, 1)
  <2>1. 1 \in 1..Len(a)
    BY <1>1
  <2> QED BY <2>1, SubSeqOfConcat1
<1>3. /\ c \in Seq(V) /\ Len(c) = Len(a) + Len(b)
      /\ \A i \in 1..(Len(a) + Len(b)) : c[i] = IF i <= Len(a) THEN a[i] ELSE b[i - Len(a)]
  BY ConcatProperties
<1> HIDE DEF c
<1>4. c # <<>> /\ SubSeq(c, 2, Len(c)) = p /\ SubSeq(a, 2, Len(a)) = h
  <2>1. c # <<>>
    BY <1>1, <1>3, EmptySeq
  <2> QED BY <1>3, <2>1, TailIsSubSeq
<1>5. /\ p \in Seq(V) /\ Len(p) = Len(c) - 1 /\ \A i \in 1..Len(p) : p[i] = c[i + 1]
      /\ h \in Seq(V) /\ Len(h) = Len(a) - 1 /\ \A i \in 1..Len(h) : h[i] = a[i + 1]
  BY <1>3, <1>4, HeadTailProperties
<1> HIDE DEF p, h
<1>6. /\ q \in Seq(V) /\ Len(q) = Len(h) + Len(b)
      /\ \A i \in 1..(Len(h) + Len(b)) : q[i] = IF i <= Len(h) THEN h[i] ELSE b[i - Len(h)]
  BY <1>5, ConcatProperties
<1> HIDE DEF q
<1>7. Len(p) = Len(q) /\ Len(q) = Len(a) - 1 + Len(b)
  BY <1>1, <1>3, <1>5, <1>6
<1>8. ASSUME NEW i \in 1..Len(q) PROVE p[i] = q[i]
  <2>1. i \in 1..(Len(a) - 1 + Len(b)) /\ i + 1 \in 1..(Len(a) + Len(b)) /\ i \in Int
    BY <1>1, <1>7
  <2>2. p[i] = c[i + 1]
    BY <1>5, <1>7
  <2>3. CASE i <= Len(a) - 1
    <3>1. i \in 1..Len(h) /\ i + 1 <= Len(a)
      BY <1>1, <1>5, <2>1, <2>3
    <3> QED BY <1>3, <1>5, <1>6, <1>7, <2>1, <2>2, <3>1
  <2>4. CASE ~(i <= Len(a) - 1)
    <3>1. ~(i + 1 <= Len(a)) /\ (i + 1) - Len(a) = i - (Len(a) - 1)
      BY <1>1, <2>1, <2>4
    <3>2. c[i + 1] = b[(i + 1) - Len(a)]
      BY <1>3, <2>1, <3>1
    <3>3. q[i] = b[i - (Len(a) - 1)]
      BY <1>5, <1>6, <1>7, <2>4
    <3> QED BY <2>2, <3>1, <3>2, <3>3
  <2> QED BY <2>3, <2>4
<1>9. p = q
  BY <1>5, <1>6, <1>7, <1>8, SeqEqual
<1> QED
  BY <1>2, <1>4, <1>9 DEF q, c, Piece

\* The transmit interrupt takes the first byte, when there is one.
LEMMA SendStep ==
  ASSUME TxInv, inUse' = inUse, IsrTxe
  PROVE  TxGood
<1>1. CASE DataLen(tx.ring) > 0
  <2> DEFINE a == Contents(tx.ring)
  <2>1. /\ line'.sent = First(tx.ring, 1) /\ unsent' = unsent
        /\ line' = [txe |-> line'.txe, tc |-> line'.tc, sent |-> line'.sent]
        /\ tx'.ring = RestChar(tx.ring) /\ tx'.active = tx.active
        /\ tx' = [ring |-> tx'.ring, active |-> tx'.active, done |-> tx'.done]
    <3>1. line' = [line EXCEPT !.sent = First(tx.ring, 1)] /\ unsent' = unsent
          /\ tx' = [tx EXCEPT !.ring = RestChar(@)]
      BY <1>1 DEF IsrTxe
    <3> QED BY <3>1 DEF TxInv
  <2>2. 1 \in 1..DataLen(tx.ring) /\ DataLen(tx.ring) \in Nat
    BY <1>1, LenValue, BufSizeNat DEF TxInv
  <2>3. RestChar(tx.ring) = Rest(tx.ring, 1)
    BY RestCharIsRest DEF TxInv, RingOK
  <2>4. /\ RingOK(tx'.ring)
        /\ First(tx.ring, 1) = Piece(a, 1, 1)
        /\ Contents(tx'.ring) = Piece(a, 1 + 1, DataLen(tx.ring))
    BY <2>1, <2>2, <2>3, RestContents DEF TxInv
  <2>5. TxInv'
    BY <2>1, <2>4, TxInvKept DEF TxInv
  <2>6. /\ a \in Seq(Stored) /\ unsent \in Seq(Stored) /\ Len(a) = DataLen(tx.ring) /\ a # <<>>
    <3>1. a \in Seq(Stored) /\ unsent \in Seq(Stored) /\ Len(a) = DataLen(tx.ring)
      BY ContentsLen DEF TxInv, Stored
    <3> HIDE DEF a
    <3> QED BY <1>1, <2>2, <3>1, EmptySeq
  <2>7. TxBytes = a \o unsent /\ TxBytes' = Piece(a, 2, Len(a)) \o unsent
    BY <2>1, <2>4, <2>6, TxWords
  <2> HIDE DEF a
  <2>8. /\ Piece(TxBytes, 1, 1) = Piece(a, 1, 1)
        /\ Piece(TxBytes, 2, Len(TxBytes)) = Piece(a, 2, Len(a)) \o unsent
    BY <2>6, <2>7, JoinedFirst
  <2>9. line'.sent = SubSeq(TxBytes, 1, 1) /\ TxBytes' = SubSeq(TxBytes, 1 + 1, Len(TxBytes))
    <3>1. line'.sent = Piece(TxBytes, 1, 1) /\ TxBytes' = Piece(TxBytes, 2, Len(TxBytes))
      BY <2>1, <2>4, <2>7, <2>8
    <3> QED BY <3>1 DEF Piece
  <2>10. 1 \in 1..Len(TxBytes)
    <3>1. Len(a \o unsent) = Len(a) + Len(unsent) /\ Len(unsent) \in Nat /\ Len(a) >= 1
      BY <2>2, <2>6, ConcatProperties
    <3>2. Len(TxBytes) = Len(a) + Len(unsent)
      BY <2>7, <3>1
    <3> QED BY <2>2, <2>6, <3>1, <3>2
  <2>11. TxPipe!Take(1)
    BY <2>9 DEF TxPipe!Take, TxBytes
  <2>12. TxPipe!Next
    BY <2>10, <2>11 DEF TxPipe!Next, TxBytes
  <2> QED BY <2>5, <2>12 DEF TxGood, TxStep
<1>2. CASE ~(DataLen(tx.ring) > 0)
  <2>1. /\ line' = [line EXCEPT !.txe = FALSE, !.tc = TRUE] /\ tx' = tx /\ unsent' = unsent
    BY <1>2 DEF IsrTxe
  <2>2. /\ line'.sent = line.sent
        /\ line' = [txe |-> line'.txe, tc |-> line'.tc, sent |-> line'.sent]
    BY <2>1 DEF TxInv
  <2> QED BY <2>1, <2>2, TxQuiet DEF TxInv
<1> QED
  BY <1>1, <1>2

\* The end of a transmission: a port that is left inactive has nothing unsent.
LEMMA SentStep ==
  ASSUME TxInv, inUse' = inUse, NEW blocking \in BOOLEAN, IsrSent(blocking),
         blocking \/ unsent = <<>>
  PROVE  TxGood
<1>1. /\ unsent' = unsent
      /\ \/ line' = [line EXCEPT !.tc = FALSE, !.txe = TRUE] \/ line' = [line EXCEPT !.tc = FALSE]
      /\ \/ tx' = tx \/ tx' = [tx EXCEPT !.done = TRUE]
         \/ ~blocking /\ tx' = [tx EXCEPT !.active = FALSE]
  BY DEF IsrSent
<1>2. /\ line'.sent = line.sent
      /\ line' = [txe |-> line'.txe, tc |-> line'.tc, sent |-> line'.sent]
  BY <1>1 DEF TxInv
<1>3. /\ tx'.ring = tx.ring
      /\ tx' = [ring |-> tx'.ring, active |-> tx'.active, done |-> tx'.done]
      /\ unsent # <<>> => tx'.active
  BY <1>1 DEF TxInv
<1> QED
  BY <1>1, <1>2, <1>3, TxQuiet

\* The steps of threads that queue what they write, and of the interrupts.
LEMMA QueuerStep ==
  ASSUME TxInv, "queuer" \in inUse, inUse' = inUse, QueuerNext
  PROVE  TxGood
<1>1. unsent = <<>>
  <2>1. "writer" \notin inUse
    BY SetupsAssumption DEF TxInv
  <2> QED BY <2>1 DEF TxInv
<1>2. ASSUME NEW t \in Queuer, StartSending(t) PROVE TxGood
  <2>1. line' = [line EXCEPT !.txe = TRUE] /\ tx' = tx /\ unsent' = unsent
    BY <1>2 DEF StartSending
  <2>2. /\ line'.sent = line.sent
        /\ line' = [txe |-> line'.txe, tc |-> line'.tc, sent |-> line'.sent]
    BY <2>1 DEF TxInv
  <2> QED BY <2>1, <2>2, TxQuiet DEF TxInv
<1> QED
  BY <1>1, <1>2, QueueStep, SendStep, SentStep DEF QueuerNext

\* The steps of the thread that waits until all is sent, and of the interrupts.
LEMMA WriterStep ==
  ASSUME TxInv, "writer" \in inUse, inUse' = inUse, WriterNext
  PROVE  TxGood
<1>1. CASE Transmit \/ AwaitSent \/ AwaitedSent \/ WriteReturn
  <2>1. /\ unsent' = unsent
        /\ line' = line \/ line' = [line EXCEPT !.txe = TRUE]
        /\ \/ tx' = tx \/ tx' = [tx EXCEPT !.done = FALSE]
           \/ unsent = <<>> /\ tx' = [tx EXCEPT !.active = FALSE]
    BY <1>1 DEF Transmit, AwaitSent, AwaitedSent, WriteReturn, txVars
  <2>2. /\ line'.sent = line.sent
        /\ line' = [txe |-> line'.txe, tc |-> line'.tc, sent |-> line'.sent]
    BY <2>1 DEF TxInv
  <2>3. /\ tx'.ring = tx.ring
        /\ tx' = [ring |-> tx'.ring, active |-> tx'.active, done |-> tx'.done]
        /\ unsent # <<>> => tx'.active
    BY <2>1 DEF TxInv
  <2> QED BY <2>1, <2>2, <2>3, TxQuiet
<1> QED
  BY <1>1, WriteCallStep, FillStep, SendStep, SentStep DEF WriterNext

\* Nobody else touches the sending side.
LEMMA NextTx == TxInv /\ [Next]_vars => TxGood
<1> SUFFICES ASSUME TxInv, [Next]_vars PROVE TxGood
  OBVIOUS
<1>1. inUse' = inUse
  BY DEF Next, vars
<1>2. CASE UNCHANGED txVars
  <2>1. tx' = tx /\ line' = line /\ unsent' = unsent
    BY <1>2 DEF txVars
  <2> QED BY <1>1, <2>1, TxQuiet DEF TxInv
<1>3. CASE UNCHANGED vars \/ (Next /\ UNCHANGED serialVars)
  BY <1>2, <1>3 DEF vars, serialVars, txVars
<1>4. CASE ShellNext
  BY <1>2, <1>4 DEF ShellNext, ShellRead, ShellTake, IsrByteForShell, serialVars, txVars
<1>5. CASE ReaderNext
  BY <1>2, <1>5 DEF ReaderNext
<1> QED
  BY <1>1, <1>3, <1>4, <1>5, QueuerStep, WriterStep DEF Next, SerialNext

\* After rt_serial_tx_enable nothing is on its way.
LEMMA InitTx == Init => TxInv /\ TxPipe!Init
<1> SUFFICES ASSUME Init PROVE TxInv /\ TxPipe!Init
  OBVIOUS
<1>1. /\ tx = [ring |-> EmptyRing, active |-> FALSE, done |-> FALSE]
      /\ line \in [txe : BOOLEAN, tc : {FALSE}, sent : {<<>>}]
      /\ unsent = <<>> /\ inUse \in Setups
  BY DEF Init, SerialInit
<1>2. line = [txe |-> line.txe, tc |-> line.tc, sent |-> line.sent] /\ line.sent = <<>>
  BY <1>1
<1>3. TxInv
  BY <1>1, <1>2, InitRing DEF TxInv
<1>4. Contents(tx.ring) \o unsent = <<>>
  BY <1>1, InitRing
<1> QED
  BY <1>2, <1>3, <1>4 DEF TxPipe!Init

\* In both directions a serial port is a pipe, for a buffer of any size and any
\* texts: no interrupt between two steps of a reader or a writer, and no
\* preemption between its calls, loses, doubles or reorders a byte, except that a
\* full ring drops the tail of what is offered.
THEOREM PortIsPipe == Spec => BytesKept
<1>1. Init => RxInv /\ RxPipe!Init /\ TxInv /\ TxPipe!Init
  BY InitRx, InitTx
<1>2. RxInv /\ TxInv /\ [Next]_vars
        => /\ RxInv' /\ TxInv'
           /\ [RxPipe!Next]_<<RxBytes, reading.got>> /\ [TxPipe!Next]_<<TxBytes, line.sent>>
  BY NextRx, NextTx DEF RxGood, RxStep, TxGood, TxStep
<1>3. RxPipe!Spec <=> RxPipe!Init /\ [][RxPipe!Next]_<<RxBytes, reading.got>>
  BY DEF RxPipe!Spec, RxBytes
<1>4. TxPipe!Spec <=> TxPipe!Init /\ [][TxPipe!Next]_<<TxBytes, line.sent>>
  BY DEF TxPipe!Spec, TxBytes
<1> QED
  BY <1>1, <1>2, <1>3, <1>4, PTL DEF Spec, BytesKept
-----------------------------------------------------------------------------
(* Where threads wait.  Each object has its own suspend lists and the labels of
   the calls that may wait there; a step of one object leaves the lists of the
   others as calm as they were.                                                *)

Popping == {"popping", "pop"}

Calls ==
  [ labels |-> Label,
    lists  |-> [w \in WaitList |->
                  CASE w = "sem"     -> SemLabel
                    [] w = "event"   -> EventLabel
                    [] w = "pool"    -> PoolLabel
                    [] w = "pushers" -> PushLabel
                    [] w = "poppers" -> Popping
                    [] w = "rx_cpt"  -> {"waiting", "waited"}
                    [] w = "tx_cpt"  -> {"txwaiting", "txwaited"}
                    [] OTHER         -> {}],
    out    |-> {"resched", "taking", "recving", "allocing", "pushing", "popping",
                "waiting", "txwaiting"},
    locked |-> {"testpop", "wakepop", "testpush", "wakepush", "wrecked"} ]

\* A thread that waits for a token finds none; one that waits for events has
\* called rt_event_recv, and the bits it asked for are not there.
SemWaits ==
  /\ sem \in 0..ValueMax /\ (sem > 0 => k.wait["sem"] = <<>>)
  /\ Unserved(k, "sem")

EventWaits ==
  /\ eset \in [Listener -> SUBSET Bit] /\ einfo \in [Listener -> Option]
  /\ \A t \in Thread : On(k, "event", t) =>
       t \in Listener /\ ~Satisfies(set, eset[t], einfo[t])

\* A woken thread for each free block, and for each item; and a push for the room
\* below the low water mark, unless a reset is on its way to wake all of them.
PoolWaits == Enough(k, pc, "pool", PoolLabel, blocks.count)

PopWaits == Enough(k, pc, "poppers", Popping, ItemCount(dq)) /\ Untold(k, "poppers")

PushWaits ==
  /\ Resetting \/ Enough(k, pc, "pushers", PushLabel, LowMark + 1 - ItemCount(dq))
  /\ Untold(k, "pushers")

\* Those that wait for a completion are told nothing before it is done.
CptWaits == Untold(k, "rx_cpt") /\ Untold(k, "tx_cpt")

WaitsInv ==
  /\ Sound(k, pc, Calls)
  /\ SemWaits /\ EventWaits /\ PoolWaits /\ PopWaits /\ PushWaits /\ CptWaits

LEMMA CallsAre ==
  /\ CallsOK(Calls)
  /\ Calls.labels = Label
  /\ Calls.out = {"resched", "taking", "recving", "allocing", "pushing", "popping",
                  "waiting", "txwaiting"}
  /\ Calls.locked = {"testpop", "wakepop", "testpush", "wakepush", "wrecked"}
  /\ Calls.lists["sem"] = SemLabel /\ Calls.lists["event"] = EventLabel
  /\ Calls.lists["pool"] = PoolLabel /\ Calls.lists["pushers"] = PushLabel
  /\ Calls.lists["poppers"] = Popping
  /\ Calls.lists["rx_cpt"] = {"waiting", "waited"}
  /\ Calls.lists["tx_cpt"] = {"txwaiting", "txwaited"}
  /\ {"sem", "event", "pool", "pushers", "poppers", "rx_cpt", "tx_cpt"} \subseteq WaitList
<1>1. {"sem", "event", "pool", "pushers", "poppers", "rx_cpt", "tx_cpt"} \subseteq WaitList
  BY SemaphoreAssumption, EventAssumption, MemPoolAssumption, DataQueueAssumption,
     SerialAssumption
<1>2. /\ Calls.lists["sem"] = SemLabel /\ Calls.lists["event"] = EventLabel
      /\ Calls.lists["pool"] = PoolLabel /\ Calls.lists["pushers"] = PushLabel
      /\ Calls.lists["poppers"] = Popping
      /\ Calls.lists["rx_cpt"] = {"waiting", "waited"}
      /\ Calls.lists["tx_cpt"] = {"txwaiting", "txwaited"}
  BY <1>1 DEF Calls
<1>3. \A w \in WaitList :
        \/ w = "sem"     /\ Calls.lists[w] = {"taking", "take"}
        \/ w = "event"   /\ Calls.lists[w] = {"recving", "recv"}
        \/ w = "pool"    /\ Calls.lists[w] = {"allocing", "alloc"}
        \/ w = "pushers" /\ Calls.lists[w] = {"pushing", "push"}
        \/ w = "poppers" /\ Calls.lists[w] = {"popping", "pop"}
        \/ w = "rx_cpt"  /\ Calls.lists[w] = {"waiting", "waited"}
        \/ w = "tx_cpt"  /\ Calls.lists[w] = {"txwaiting", "txwaited"}
        \/ Calls.lists[w] = {}
  BY DEF Calls, SemLabel, EventLabel, PoolLabel, PushLabel, Popping
<1>4. \A w \in WaitList : "run" \notin Calls.lists[w] /\ "resched" \notin Calls.lists[w]
  BY <1>3
<1>5. \A v, w \in WaitList : v # w => Calls.lists[v] \intersect Calls.lists[w] = {}
  <2> SUFFICES ASSUME NEW v \in WaitList, NEW w \in WaitList, v # w,
                      NEW x \in Calls.lists[v], x \in Calls.lists[w]
               PROVE  FALSE
    OBVIOUS
  <2> QED BY <1>3
<1>6. /\ Calls.labels = Label
      /\ Calls.out = {"resched", "taking", "recving", "allocing", "pushing", "popping",
                      "waiting", "txwaiting"}
      /\ Calls.locked = {"testpop", "wakepop", "testpush", "wakepush", "wrecked"}
  BY DEF Calls
<1>7. CallsOK(Calls)
  BY <1>4, <1>5, <1>6 DEF CallsOK, Label
<1> QED
  BY <1>1, <1>2, <1>6, <1>7

\* A label of one list is of no other.
LEMMA OwnList ==
  ASSUME NEW w \in WaitList, NEW l \in Calls.lists[w]
  PROVE  \A v \in WaitList : l \in Calls.lists[v] <=> v = w
BY CallsAre DEF CallsOK

\* What a step of one object is to the others: all is well on the lists, and the
\* threads it moves were and are in calls on this object or in none.
Apart(own, labels) ==
  /\ Sound(k', pc', Calls)
  /\ \A w \in WaitList \ own : Calm(k', pc', k, pc, w, Calls.lists[w])
  /\ \A x \in Thread : pc'[x] = pc[x] \/ {pc[x], pc'[x]} \subseteq labels \union {"run", "resched"}

\* More lists and more labels.
LEMMA ApartMore ==
  ASSUME NEW A, NEW B, NEW X, NEW Y, A \subseteq B, X \subseteq Y, Apart(A, X)
  PROVE  Apart(B, Y)
BY DEF Apart

LEMMA MovesOnly ==
  ASSUME Sound(k, pc, Calls), NEW t \in Thread, NEW l, Goto(t, l), NEW labels,
         {pc[t], l} \subseteq labels \union {"run", "resched"}
  PROVE  \A x \in Thread : pc'[x] = pc[x] \/ {pc[x], pc'[x]} \subseteq labels \union {"run", "resched"}
<1>1. pc \in [Thread -> Calls.labels]
  BY DEF Sound
<1>2. \A x \in Thread : pc'[x] = IF x = t THEN l ELSE pc[x]
  BY <1>1 DEF Goto
<1> QED
  BY <1>2

\* A thread gives the processor away and goes on in the same call.
LEMMA GoesOnCalm ==
  ASSUME Sound(k, pc, Calls), NEW t \in Thread, NEW from, NEW to, ScheduleThen(t, from, to),
         from \in Calls.out, to \in Label, to \notin Calls.locked,
         \A w \in WaitList : from \in Calls.lists[w] <=> to \in Calls.lists[w],
         NEW labels, {from, to} \subseteq labels \union {"run", "resched"}
  PROVE  Apart({}, labels)
<1>1. /\ t = k.cur /\ pc[t] = from /\ k' = rt_schedule(k)
      /\ pc' = [pc EXCEPT ![t] = to] /\ Goto(t, to)
  BY DEF ScheduleThen, At, Goto
<1>2. Rescheduled(k', k)
  BY <1>1, Reschedules DEF Sound
<1>3. /\ CallsOK(Calls) /\ pc[t] \in Calls.out /\ to \in Calls.labels \ Calls.locked
      /\ \A w \in WaitList : pc[t] \in Calls.lists[w] <=> to \in Calls.lists[w]
  BY <1>1, CallsAre
<1>4. Sound(k', pc', Calls) /\ \A w \in WaitList : Calm(k', pc', k, pc, w, Calls.lists[w])
  BY <1>1, <1>2, <1>3, SoundGoesOn
<1>5. \A x \in Thread : pc'[x] = pc[x]
                          \/ {pc[x], pc'[x]} \subseteq labels \union {"run", "resched"}
  <2>1. {pc[t], to} \subseteq labels \union {"run", "resched"}
    BY <1>1
  <2> QED BY <1>1, <2>1, MovesOnly
<1> QED
  BY <1>4, <1>5 DEF Apart

\* A thread goes to l, where it waits for nothing, from where it waited for nothing.
LEMMA GoesCalm ==
  ASSUME Sound(k, pc, Calls), NEW t \in Thread \ {Idle}, NEW l \in Label, k.cur = t, Goto(t, l),
         UNCHANGED k, pc[t] \notin Calls.out, pc[t] \in Calls.locked <=> l \in Calls.locked,
         \A w \in WaitList : l \notin Calls.lists[w],
         NEW labels, {pc[t], l} \subseteq labels \union {"run", "resched"}
  PROVE  /\ Apart({w \in WaitList : pc[t] \in Calls.lists[w]}, labels)
         /\ \A w \in WaitList : Leaves(k', pc', k, pc, w, Calls.lists[w], t)
<1> DEFINE to == [pc EXCEPT ![t] = l]
<1>1. CallsOK(Calls) /\ l \in Calls.labels /\ t = k.cur
  BY CallsAre
<1> HIDE DEF to
<1>2. /\ Sound(k, to, Calls)
      /\ \A w \in WaitList : Leaves(k, to, k, pc, w, Calls.lists[w], t)
      /\ \A w \in WaitList : pc[t] \notin Calls.lists[w]
                               => Calm(k, to, k, pc, w, Calls.lists[w])
  BY <1>1, SoundMoves DEF to
<1>3. pc' = to /\ k' = k
  BY DEF Goto, to
<1> QED
  BY <1>2, <1>3, MovesOnly DEF Apart

\* A thread comes back from its call.
LEMMA ReturnsCalm ==
  ASSUME Sound(k, pc, Calls), NEW t \in Thread, NEW l, At(t, l), l # "run", Goto(t, "run"),
         l \in Label, l \notin Calls.out, l \notin Calls.locked, UNCHANGED k, NEW labels, l \in labels
  PROVE  /\ Apart({w \in WaitList : l \in Calls.lists[w]}, labels)
         /\ \A w \in WaitList : Leaves(k', pc', k, pc, w, Calls.lists[w], t)
<1>1. pc[t] = l /\ k.cur = t /\ t # Idle
  BY DEF At, Sound
<1>2. /\ "run" \in Label /\ "run" \notin Calls.locked
      /\ \A w \in WaitList : "run" \notin Calls.lists[w]
  BY CallsAre DEF CallsOK
<1>3. {pc[t], "run"} \subseteq labels \union {"run", "resched"}
  BY <1>1
<1>4. /\ Apart({w \in WaitList : pc[t] \in Calls.lists[w]}, labels)
      /\ \A w \in WaitList : Leaves(k', pc', k, pc, w, Calls.lists[w], t)
  <2>1. t \in Thread \ {Idle}
    BY <1>1
  <2>2. pc[t] \notin Calls.out /\ (pc[t] \in Calls.locked <=> "run" \in Calls.locked)
    BY <1>1, <1>2
  <2> QED BY <1>1, <1>2, <1>3, <2>1, <2>2, GoesCalm
<1> QED
  BY <1>1, <1>4

\* The lists and the kernels of two states, where one list has become no longer.
LEMMA CalmEmpty ==
  ASSUME Sound(k, pc, Calls), Sound(k', pc', Calls), NEW w \in WaitList, Fewer(k', k, w),
         k'.wait[w] # <<>>
  PROVE  k.wait[w] # <<>>
BY FewerEmpty DEF Sound

-----------------------------------------------------------------------------
(* The semaphore *)

\* Threads that were given a token and have not returned with it.
Owed == Alert(k, pc, "sem", SemLabel)

\* What a step may do with the tokens: it counts one, gives one to a thread, takes
\* one that is counted, returns with one that was given, or sets the count.
CounterStep ==
  \/ sem' = sem /\ Owed' = Owed
  \/ sem < ValueMax /\ sem' = sem + 1 /\ Owed' = Owed
  \/ sem' = sem /\ \E t \in Thread : t \notin Owed /\ Owed' = Owed \union {t}
  \/ sem > 0 /\ sem' = sem - 1 /\ Owed' = Owed
  \/ sem' = sem /\ \E t \in Thread : Owed' = Owed \ {t}
  \/ sem' \in 0..ValueMax /\ Owed' = Owed

\* What every step does to the semaphore.
SemGood == SemWaits' /\ CounterStep

\* A step that leaves the semaphore alone.
LEMMA SemKept ==
  ASSUME WaitsInv, Sound(k', pc', Calls), Calm(k', pc', k, pc, "sem", Calls.lists["sem"]),
         sem' = sem
  PROVE  SemGood
<1>1. "sem" \in WaitList
  BY CallsAre
<1>2. k'.wait["sem"] # <<>> => k.wait["sem"] # <<>>
  BY <1>1, CalmEmpty DEF WaitsInv, Calm, AsMany, Stay
<1>3. Unserved(k', "sem")
  BY FewerUnserved DEF WaitsInv, SemWaits, Calm, AsMany, Stay
<1>4. Owed' = Owed
  BY CallsAre DEF Owed, Calm, AsMany, Stay
<1> QED
  BY <1>2, <1>3, <1>4 DEF WaitsInv, SemWaits, SemGood, CounterStep

LEMMA TakeTokenWaits ==
  ASSUME WaitsInv, NEW t \in Thread \ {Idle}, NEW l \in {"run", "nobyte"}, At(t, l),
         NEW finite \in BOOLEAN, TakeToken(t, finite)
  PROVE  Apart({"sem"}, SemLabel \union {l}) /\ SemGood
<1>1. /\ Sound(k, pc, Calls) /\ SemWaits /\ CallsOK(Calls) /\ k.cur = t /\ pc[t] = l
      /\ "sem" \in WaitList /\ l \notin Calls.out /\ l \notin Calls.locked
      /\ Calls.lists["sem"] = SemLabel
      /\ \A w \in WaitList : l \notin Calls.lists[w]
  <2>1. \A w \in WaitList : "run" \notin Calls.lists[w] /\ "nobyte" \notin Calls.lists[w]
    BY CallsAre DEF CallsOK, Calls, SemLabel, EventLabel, PoolLabel, PushLabel, Popping
  <2> QED BY <2>1, CallsAre DEF WaitsInv, At
<1>2. CASE sem > 0 /\ sem' = sem - 1 /\ Goto(t, "run") /\ UNCHANGED k
  <2>1. /\ "run" \in Label /\ "run" \notin Calls.locked
        /\ \A w \in WaitList : "run" \notin Calls.lists[w]
    BY CallsAre DEF CallsOK
  <2>2. {pc[t], "run"} \subseteq {l} \union {"run", "resched"}
    BY <1>1
  <2>3. pc[t] \notin Calls.out /\ (pc[t] \in Calls.locked <=> "run" \in Calls.locked)
    BY <1>1, <2>1
  <2>4. Apart({w \in WaitList : pc[t] \in Calls.lists[w]}, {l})
    BY <1>1, <1>2, <2>1, <2>2, <2>3, GoesCalm
  <2>5. Apart({"sem"}, SemLabel \union {l})
    BY <1>1, <2>4 DEF Apart
  <2>6. Calm(k', pc', k, pc, "sem", Calls.lists["sem"])
    BY <1>1, <2>4 DEF Apart
  <2>7. Owed' = Owed
    BY <1>1, <2>6 DEF Owed, Calm, AsMany, Stay
  <2>8. SemWaits'
    BY <1>1, <1>2, SemaphoreAssumption DEF SemWaits, Unserved
  <2> QED BY <1>2, <2>5, <2>7, <2>8 DEF SemGood, CounterStep
<1>3. CASE /\ sem = 0
           /\ k' = SuspendTimed([k EXCEPT !.err[t] = "EINTR"], "sem", SemFlag, t, finite)
           /\ Goto(t, "taking")
           /\ UNCHANGED sem
  <2>1. Suspended(k', k, "sem", t)
    BY <1>3, SemaphoreAssumption DEF Suspended, Error
  <2>2. /\ "taking" \in Calls.labels /\ "taking" \in Calls.lists["sem"] /\ "taking" \in Calls.out
        /\ pc' = [pc EXCEPT ![t] = "taking"] /\ t # Idle /\ t = k.cur
    BY <1>1, <1>3, CallsAre DEF SemLabel, Label, Goto
  <2>3. /\ Sound(k', pc', Calls)
        /\ \A v \in WaitList : v # "sem" /\ pc[t] \notin Calls.lists[v]
                                 => Calm(k', pc', k, pc, v, Calls.lists[v])
    BY <1>1, <2>1, <2>2, SoundSuspends
  <2>4. \A x \in Thread : pc'[x] = pc[x]
          \/ {pc[x], pc'[x]} \subseteq (SemLabel \union {l}) \union {"run", "resched"}
    <3> DEFINE labels == SemLabel \union {l}
    <3>1. {pc[t], "taking"} \subseteq labels \union {"run", "resched"}
      BY <1>1 DEF SemLabel
    <3> HIDE DEF labels
    <3>2. \A x \in Thread : pc'[x] = pc[x]
            \/ {pc[x], pc'[x]} \subseteq labels \union {"run", "resched"}
      BY <1>1, <1>3, <3>1, MovesOnly
    <3> QED BY <3>2 DEF labels
  <2>5. Unserved(k', "sem") /\ Alert(k', pc', "sem", SemLabel) = Alert(k, pc, "sem", SemLabel)
    <3>1. /\ IpcInv(k) /\ t \in Thread /\ t = k.cur /\ t # Idle /\ k.stat[t] = "running"
          /\ k.lock = 0 /\ Unserved(k, "sem") /\ pc[t] \notin SemLabel
      BY <1>1, CallerRuns DEF Sound, SemWaits
    <3>2. OnlyMoves(t, pc', pc)
      BY <1>1, <2>2 DEF Sound, OnlyMoves
    <3>3. SuspendsUnserved(k', k, "sem", t)
      BY <1>3, SemaphoreAssumption DEF SuspendsUnserved
    <3> QED BY <1>1, <3>1, <3>2, <3>3, SuspendUnserved
  <2>6. SemGood
    BY <1>1, <1>3, <2>5 DEF SemWaits, SemGood, CounterStep, Owed
  <2> QED BY <1>1, <2>3, <2>4, <2>6 DEF Apart
<1> QED
  BY <1>2, <1>3 DEF TakeToken

LEMMA TakeScheduleWaits ==
  ASSUME WaitsInv, NEW t \in Thread, TakeSchedule(t)
  PROVE  Apart({}, SemLabel) /\ SemGood
<1>1. /\ "taking" \in Calls.out /\ "take" \in Label /\ "take" \notin Calls.locked
      /\ "taking" \in Calls.lists["sem"] /\ "take" \in Calls.lists["sem"] /\ "sem" \in WaitList
      /\ {"taking", "take"} \subseteq SemLabel \union {"run", "resched"}
  BY CallsAre DEF SemLabel, Label
<1>2. \A w \in WaitList : "taking" \in Calls.lists[w] <=> "take" \in Calls.lists[w]
  BY <1>1, OwnList
<1>3. Apart({}, SemLabel)
  BY <1>1, <1>2, GoesOnCalm DEF WaitsInv, TakeSchedule
<1> QED
  BY <1>1, <1>3, SemKept DEF Apart, TakeSchedule

LEMMA TakeReturnWaits ==
  ASSUME WaitsInv, NEW t \in Thread, TakeReturn(t)
  PROVE  Apart({"sem"}, SemLabel) /\ SemGood
<1>1. /\ "take" \notin Calls.out /\ "take" \in Label /\ "take" \notin Calls.locked
      /\ "take" \in Calls.lists["sem"] /\ "sem" \in WaitList /\ "take" \in SemLabel
  BY CallsAre DEF SemLabel, Label
<1>2. \A w \in WaitList : "take" \in Calls.lists[w] => w = "sem"
  BY <1>1, OwnList
<1>3. /\ Apart({w \in WaitList : "take" \in Calls.lists[w]}, SemLabel)
      /\ \A w \in WaitList : Leaves(k', pc', k, pc, w, Calls.lists[w], t)
  BY <1>1, ReturnsCalm DEF WaitsInv, TakeReturn
<1>4. Apart({"sem"}, SemLabel)
  BY <1>2, <1>3 DEF Apart
<1>5. Fewer(k', k, "sem") /\ Owed' = Owed \ {t} /\ sem' = sem /\ k' = k
  BY <1>1, <1>3, CallsAre DEF Leaves, TakeReturn, Owed
<1> QED
  BY <1>4, <1>5 DEF WaitsInv, SemWaits, SemGood, CounterStep

\* A release gives the token to a thread that waits, or counts it.
LEMMA TokenGiven ==
  ASSUME WaitsInv, k.wait["sem"] # <<>>, UNCHANGED sem,
         NEW h \in Thread, Joins(k', pc', k, pc, "sem", Calls.lists["sem"], h)
  PROVE  SemGood
<1>1. /\ sem \in 0..ValueMax /\ sem' = sem /\ ~(sem > 0) /\ Unserved(k, "sem")
      /\ Calls.lists["sem"] = SemLabel
  BY CallsAre DEF WaitsInv, SemWaits
<1>2. Unserved(k', "sem")
  BY <1>1, FewerUnserved DEF Joins
<1>3. h \notin Owed /\ Owed' = Owed \union {h}
  BY <1>1 DEF Joins, Owed
<1> QED
  BY <1>1, <1>2, <1>3 DEF SemWaits, SemGood, CounterStep

LEMMA TokenCounted ==
  ASSUME WaitsInv, k.wait["sem"] = <<>>, sem < ValueMax, sem' = sem + 1, UNCHANGED <<k, pc>>
  PROVE  SemGood
<1>1. Owed' = Owed /\ Unserved(k', "sem")
  BY DEF Owed, Unserved, WaitsInv, SemWaits
<1> QED
  BY <1>1, SemaphoreAssumption DEF WaitsInv, SemWaits, SemGood, CounterStep

\* rt_sem_release in an interrupt handler.
LEMMA IsrReleaseWaits ==
  ASSUME WaitsInv, IsrRelease
  PROVE  Apart({"sem"}, {}) /\ SemGood
<1>1. Sound(k, pc, Calls) /\ CallsOK(Calls) /\ "sem" \in WaitList
  BY CallsAre DEF WaitsInv
<1>2. k' = (IF k.wait["sem"] = <<>> THEN k ELSE rt_schedule(ResumeFirst(k, "sem"))) /\ pc' = pc
  BY DEF IsrRelease
<1>3. /\ Sound(k', pc', Calls)
      /\ OneMore(k', pc', k, pc, "sem", Calls.lists["sem"])
      /\ \A v \in WaitList : v # "sem" => Calm(k', pc', k, pc, v, Calls.lists[v])
  BY <1>1, <1>2, SoundIsrWakesOne
<1>4. Apart({"sem"}, {})
  BY <1>2, <1>3 DEF Apart
<1>5. CASE k.wait["sem"] # <<>> /\ UNCHANGED sem
  <2>1. PICK h \in Thread : Joins(k', pc', k, pc, "sem", Calls.lists["sem"], h)
    BY <1>3, <1>5 DEF OneMore
  <2>2. SemGood
    BY <1>5, <2>1, TokenGiven
  <2> QED BY <1>4, <2>2
<1>6. CASE k.wait["sem"] = <<>> /\ sem < ValueMax /\ sem' = sem + 1 /\ UNCHANGED k
  BY <1>2, <1>4, <1>6, TokenCounted
<1> QED
  BY <1>5, <1>6 DEF IsrRelease

LEMMA SemStep ==
  ASSUME WaitsInv, SemNext
  PROVE  Apart({"sem"}, SemLabel) /\ SemGood
<1>1. /\ Sound(k, pc, Calls) /\ SemWaits /\ CallsOK(Calls) /\ "sem" \in WaitList
      /\ "run" \notin Calls.out /\ "run" \notin Calls.locked
      /\ "run" \notin Calls.lists["sem"] /\ "resched" \in Label
      /\ \A w \in WaitList : "run" \notin Calls.lists[w]
  BY CallsAre DEF WaitsInv, CallsOK
<1>2. ASSUME NEW t \in Thread, Take(t) PROVE Apart({"sem"}, SemLabel) /\ SemGood
  <2>1. PICK finite \in BOOLEAN : TakeToken(t, finite)
    BY <1>2 DEF Take
  <2>2. t \in Thread \ {Idle} /\ At(t, "run")
    BY <1>2, SemaphoreAssumption DEF Take
  <2>3. Apart({"sem"}, SemLabel \union {"run"}) /\ SemGood
    BY <2>1, <2>2, TakeTokenWaits
  <2> QED BY <2>3 DEF Apart
<1>3. ASSUME NEW t \in Thread, TakeSchedule(t) PROVE Apart({"sem"}, SemLabel) /\ SemGood
  <2>1. Apart({}, SemLabel) /\ SemGood
    BY <1>3, TakeScheduleWaits
  <2> QED BY <2>1 DEF Apart
<1>4. ASSUME NEW t \in Thread, TakeReturn(t) PROVE Apart({"sem"}, SemLabel) /\ SemGood
  BY <1>4, TakeReturnWaits
<1>5. ASSUME NEW t \in Thread, Release(t) PROVE Apart({"sem"}, SemLabel) /\ SemGood
  <2>1. /\ t = k.cur /\ t # Idle /\ pc[t] = "run"
    BY <1>5, SemaphoreAssumption DEF Release, At
  <2>2. CASE /\ k.wait["sem"] # <<>> /\ k' = ResumeFirst(k, "sem") /\ Goto(t, "resched")
             /\ UNCHANGED sem
    <3>1. WakesFirst(k', pc', k, pc, "sem", t)
      BY <2>2 DEF WakesFirst, Goto
    <3>2. /\ Sound(k', pc', Calls)
          /\ \A v \in WaitList : v # "sem" /\ pc[t] \notin Calls.lists[v]
                                   => Calm(k', pc', k, pc, v, Calls.lists[v])
          /\ OneMore(k', pc', k, pc, "sem", Calls.lists["sem"])
      BY <1>1, <2>1, <3>1, SoundWakesOne
    <3>3. \A x \in Thread : pc'[x] = pc[x]
            \/ {pc[x], pc'[x]} \subseteq SemLabel \union {"run", "resched"}
      BY <1>1, <2>1, <2>2, MovesOnly
    <3>4. Apart({"sem"}, SemLabel)
      BY <1>1, <2>1, <3>2, <3>3 DEF Apart
    <3>5. PICK h \in Thread : Joins(k', pc', k, pc, "sem", Calls.lists["sem"], h)
      BY <2>2, <3>2 DEF OneMore
    <3>6. SemGood
      BY <2>2, <3>5, TokenGiven
    <3> QED BY <3>4, <3>6
  <2>3. CASE k.wait["sem"] = <<>> /\ sem < ValueMax /\ sem' = sem + 1 /\ UNCHANGED <<k, pc>>
    <3>1. \A w \in WaitList : Calm(k', pc', k, pc, w, Calls.lists[w])
      BY <1>1, <2>3, CalmSame
    <3>2. SemGood
      BY <2>3, TokenCounted
    <3> QED BY <1>1, <2>3, <3>1, <3>2 DEF Apart
  <2> QED BY <1>5, <2>2, <2>3 DEF Release
<1>6. ASSUME IsrRelease PROVE Apart({"sem"}, SemLabel) /\ SemGood
  <2>1. Apart({"sem"}, {}) /\ SemGood
    BY <1>6, IsrReleaseWaits
  <2> QED BY <2>1 DEF Apart
<1>7. ASSUME NEW t \in Thread, NEW value \in 0..ValueMax, ResetSem(t, value)
      PROVE  Apart({"sem"}, SemLabel) /\ SemGood
  <2>1. t = k.cur /\ t # Idle /\ pc[t] = "run" /\ Goto(t, "resched")
    BY <1>7, SemaphoreAssumption DEF ResetSem, At
  <2>2. /\ Sound(k', pc', Calls) /\ k'.wait["sem"] = <<>>
        /\ \A v \in WaitList : v # "sem" => Calm(k', pc', k, pc, v, Calls.lists[v])
        /\ AsMany(k', pc', k, pc, "sem", Calls.lists["sem"])
    <3>1. WakesEverybody(k', pc', k, pc, "sem", t)
      BY <1>7 DEF WakesEverybody, ResetSem, Goto
    <3> QED BY <1>1, <2>1, <3>1, SoundResets
  <2>3. \A x \in Thread : pc'[x] = pc[x]
          \/ {pc[x], pc'[x]} \subseteq SemLabel \union {"run", "resched"}
    BY <1>1, <2>1, MovesOnly
  <2>4. Apart({"sem"}, SemLabel)
    BY <2>2, <2>3 DEF Apart
  <2>5. Unserved(k', "sem")
    BY <2>2 DEF Unserved, On, Contains
  <2>6. Owed' = Owed
    BY <1>1, <2>2, CallsAre DEF Owed, AsMany
  <2>7. SemGood
    BY <1>7, <2>2, <2>5, <2>6, SemaphoreAssumption DEF SemWaits, ResetSem, SemGood, CounterStep
  <2> QED BY <2>4, <2>7
<1> QED
  BY <1>2, <1>3, <1>4, <1>5, <1>6, <1>7 DEF SemNext

-----------------------------------------------------------------------------
(* The event object *)

\* What more bits satisfy, fewer did.
LEMMA SatisfiesMore ==
  ASSUME NEW a, NEW b, a \subseteq b, NEW asked, NEW option, Satisfies(a, asked, option)
  PROVE  Satisfies(b, asked, option)
BY DEF Satisfies

\* Threads that go on waiting and have asked for the same, when no bit has come.
LEMMA EventLeft ==
  ASSUME EventWaits,
         eset' \in [Listener -> SUBSET Bit], einfo' \in [Listener -> Option],
         \A x \in Thread : On(k', "event", x) =>
           /\ x \in Listener /\ eset'[x] = eset[x] /\ einfo'[x] = einfo[x]
           /\ ~Satisfies(set', eset[x], einfo[x])
  PROVE  EventWaits'
<1>1. \A x \in Thread : On(k', "event", x) => x \in Listener /\ ~Satisfies(set', eset'[x], einfo'[x])
  OBVIOUS
<1> QED
  BY <1>1 DEF EventWaits

LEMMA EventKept ==
  ASSUME WaitsInv, Fewer(k', k, "event"), UNCHANGED eventVars
  PROVE  EventWaits'
<1>1. /\ EventWaits /\ eset' = eset /\ einfo' = einfo /\ set' = set
      /\ \A x \in Thread : On(k', "event", x) => On(k, "event", x)
  BY DEF WaitsInv, eventVars, Fewer
<1>2. /\ eset' \in [Listener -> SUBSET Bit] /\ einfo' \in [Listener -> Option]
      /\ \A x \in Thread : On(k', "event", x) =>
           /\ x \in Listener /\ eset'[x] = eset[x] /\ einfo'[x] = einfo[x]
           /\ ~Satisfies(set', eset[x], einfo[x])
  BY <1>1 DEF EventWaits
<1> QED
  BY <1>1, <1>2, EventLeft

\* The walk of a send: everybody it satisfies is woken, the others have asked for
\* more than is there.
LEMMA SentLeaves ==
  ASSUME WaitsInv, Sound(k', pc', Calls), NEW s \in SUBSET Bit,
         Fewer(k', k, "event"),
         \A x \in Thread : On(k', "event", x) => x \notin Satisfied(set \union s),
         eset' = Sent(s).eset, set' = Sent(s).set, einfo' = einfo
  PROVE  EventWaits'
<1> DEFINE bits  == set \union s
           woken == Satisfied(bits)
<1>1. EventWaits
  BY DEF WaitsInv
<1>2. /\ eset' = [x \in Listener |-> IF x \in woken THEN Received(x, bits) ELSE eset[x]]
      /\ set' \subseteq bits
  BY DEF Sent
<1>3. \A x \in Listener : Received(x, bits) \in SUBSET Bit
  BY <1>1 DEF EventWaits, Received
<1>4. eset' \in [Listener -> SUBSET Bit] /\ einfo' \in [Listener -> Option]
  BY <1>1, <1>2, <1>3 DEF EventWaits
<1>5. ASSUME NEW x \in Thread, On(k', "event", x)
      PROVE  /\ x \in Listener /\ eset'[x] = eset[x] /\ einfo'[x] = einfo[x]
             /\ ~Satisfies(set', eset[x], einfo[x])
  <2>1. x \notin woken /\ On(k, "event", x) /\ x \in Listener
    BY <1>1, <1>5 DEF EventWaits, Fewer
  <2>2. x \in ToSet(k.wait["event"])
    BY <2>1 DEF On, Contains, ToSet
  <2>3. ~Satisfies(bits, eset[x], einfo[x])
    BY <2>1, <2>2 DEF Satisfied
  <2> HIDE DEF bits
  <2>4. ~Satisfies(set', eset[x], einfo[x])
    BY <1>2, <2>3, SatisfiesMore
  <2> QED BY <1>2, <2>1, <2>4
<1> QED
  BY <1>1, <1>4, <1>5, EventLeft

LEMMA RecvWaits ==
  ASSUME WaitsInv, NEW t \in Listener, NEW asked \in SUBSET Bit, NEW option \in Option,
         Recv(t, asked, option)
  PROVE  Apart({"event"}, EventLabel) /\ EventWaits'
<1>1. /\ Sound(k, pc, Calls) /\ EventWaits /\ CallsOK(Calls) /\ "event" \in WaitList
      /\ "run" \notin Calls.out /\ "run" \notin Calls.locked /\ "run" \in Calls.labels
      /\ \A w \in WaitList : "run" \notin Calls.lists[w]
  BY CallsAre DEF WaitsInv, CallsOK
<1>2. /\ k.cur = t /\ pc[t] = "run" /\ t # Idle /\ t \in Thread
  BY EventAssumption DEF Recv, At
<1>3. ~On(k, "event", t)
  BY <1>1, <1>2, CallerRuns DEF WaitsSomewhere, On
<1>4. /\ einfo' = [einfo EXCEPT ![t] = option] /\ einfo' \in [Listener -> Option]
      /\ \A x \in Listener : einfo'[x] = IF x = t THEN option ELSE einfo[x]
  BY <1>1 DEF Recv, EventWaits
<1>5. CASE /\ Satisfies(set, asked, option)
           /\ eset' = [eset EXCEPT ![t] = set \intersect asked]
           /\ set' = IF option.clear THEN set \ asked ELSE set
           /\ k' = [k EXCEPT !.err[t] = "EOK"]
           /\ UNCHANGED pc
  <2>1. GivenError(k', k, t, "EOK") /\ "EOK" \in Error
    BY <1>5 DEF GivenError, Error
  <2>2. pc' = [pc EXCEPT ![t] = "run"]
    BY <1>1, <1>2, <1>5 DEF Sound
  <2>3. /\ Sound(k', pc', Calls)
        /\ \A w \in WaitList : "run" \notin Calls.lists[w] /\ pc[t] \notin Calls.lists[w]
                                 => Calm(k', pc', k, pc, w, Calls.lists[w])
    <3> DEFINE to == [pc EXCEPT ![t] = "run"]
    <3>1. t = k.cur /\ to = [pc EXCEPT ![t] = "run"]
      BY <1>2
    <3> HIDE DEF to
    <3>2. /\ Sound(k', to, Calls)
          /\ \A w \in WaitList : "run" \notin Calls.lists[w] /\ pc[t] \notin Calls.lists[w]
                                   => Calm(k', to, k, pc, w, Calls.lists[w])
      BY <1>1, <1>2, <2>1, <3>1, SoundMoves
    <3> QED BY <2>2, <3>1, <3>2
  <2>4. \A w \in WaitList : Calm(k', pc', k, pc, w, Calls.lists[w])
    BY <1>1, <1>2, <2>3
  <2>5. Apart({"event"}, EventLabel)
    BY <1>5, <2>3, <2>4 DEF Apart
  <2>6. /\ eset' \in [Listener -> SUBSET Bit] /\ set' \subseteq set
        /\ \A x \in Listener : x # t => eset'[x] = eset[x]
    BY <1>1, <1>5 DEF EventWaits
  <2>7. ASSUME NEW x \in Thread, On(k', "event", x)
        PROVE  /\ x \in Listener /\ eset'[x] = eset[x] /\ einfo'[x] = einfo[x]
               /\ ~Satisfies(set', eset[x], einfo[x])
    <3>1. On(k, "event", x) /\ x # t
      BY <1>1, <1>3, <2>4, <2>7 DEF Calm, Fewer, AsMany, Stay
    <3>2. x \in Listener /\ ~Satisfies(set, eset[x], einfo[x])
      BY <1>1, <3>1 DEF EventWaits
    <3>3. ~Satisfies(set', eset[x], einfo[x])
      BY <2>6, <3>2, SatisfiesMore
    <3> QED BY <1>4, <2>6, <3>1, <3>2, <3>3
  <2>8. EventWaits'
    BY <1>1, <1>4, <2>6, <2>7, EventLeft
  <2> QED BY <2>5, <2>8
<1>6. ASSUME NEW finite \in BOOLEAN,
             ~Satisfies(set, asked, option),
             eset' = [eset EXCEPT ![t] = asked],
             k' = SuspendTimed([k EXCEPT !.err[t] = "EINTR"], "event", EventFlag, t, finite),
             Goto(t, "recving"), UNCHANGED set
      PROVE  Apart({"event"}, EventLabel) /\ EventWaits'
  <2>1. Suspended(k', k, "event", t)
    BY <1>6, EventAssumption DEF Suspended, Error
  <2>2. /\ "recving" \in Calls.labels /\ "recving" \in Calls.lists["event"]
        /\ "recving" \in Calls.out /\ t = k.cur /\ pc[t] \notin Calls.out
        /\ pc[t] \notin Calls.locked
    BY <1>1, <1>2, CallsAre DEF EventLabel, Label
  <2>3. pc' = [pc EXCEPT ![t] = "recving"]
    BY <1>6 DEF Goto
  <2>4. /\ Sound(k', pc', Calls)
        /\ \A v \in WaitList : v # "event" /\ pc[t] \notin Calls.lists[v]
                                 => Calm(k', pc', k, pc, v, Calls.lists[v])
    BY <1>1, <1>2, <2>1, <2>2, <2>3, SoundSuspends
  <2>5. \A x \in Thread : On(k', "event", x) => On(k, "event", x) \/ x = t
    BY <1>1, <1>2, <2>1, <2>2, SuspendJoins
  <2>6. \A x \in Thread : pc'[x] = pc[x]
          \/ {pc[x], pc'[x]} \subseteq EventLabel \union {"run", "resched"}
    <3>1. {pc[t], "recving"} \subseteq EventLabel \union {"run", "resched"}
      BY <1>2 DEF EventLabel
    <3> QED BY <1>1, <1>2, <1>6, <3>1, MovesOnly
  <2>7. Apart({"event"}, EventLabel)
    BY <1>1, <1>2, <2>4, <2>6 DEF Apart
  <2>8. /\ eset' \in [Listener -> SUBSET Bit]
        /\ \A x \in Listener : eset'[x] = IF x = t THEN asked ELSE eset[x]
    BY <1>1, <1>6 DEF EventWaits
  <2>9. ASSUME NEW x \in Thread, On(k', "event", x)
        PROVE  x \in Listener /\ ~Satisfies(set', eset'[x], einfo'[x])
    <3>1. CASE x = t
      BY <1>4, <1>6, <2>8, <3>1
    <3>2. CASE x # t
      <4>1. x \in Listener /\ ~Satisfies(set, eset[x], einfo[x])
        BY <1>1, <2>5, <2>9, <3>2 DEF EventWaits
      <4>2. set' = set /\ eset'[x] = eset[x] /\ einfo'[x] = einfo[x]
        BY <1>4, <1>6, <2>8, <3>2, <4>1
      <4> QED BY <4>1, <4>2
    <3> QED BY <3>1, <3>2
  <2>10. EventWaits'
    BY <1>4, <2>8, <2>9 DEF EventWaits
  <2> QED BY <2>7, <2>10
<1> QED
  BY <1>5, <1>6 DEF Recv

LEMMA NotifyWaits ==
  ASSUME WaitsInv, NEW t \in Thread, NEW s \in SUBSET Bit, Notify(t, s)
  PROVE  Apart({"event"}, EventLabel) /\ EventWaits'
<1> DEFINE woken == Satisfied(set \union s)
<1>1. /\ Sound(k, pc, Calls) /\ CallsOK(Calls) /\ "event" \in WaitList
  BY CallsAre DEF WaitsInv
<1>2. t = k.cur /\ pc[t] = "run" /\ t # Idle
  BY EventAssumption DEF Notify, At
<1>3. WalkedBy(k', pc', k, pc, "event", woken)
  BY <1>2 DEF WalkedBy, Notify, Sent, Goto
<1>4. eset' = Sent(s).eset /\ set' = Sent(s).set /\ einfo' = einfo
  BY DEF Notify
<1>5. UNCHANGED pc \/ Goto(t, "resched")
  BY DEF Notify
<1> HIDE DEF woken
<1>6. /\ Sound(k', pc', Calls) /\ Fewer(k', k, "event")
      /\ \A x \in Thread : On(k', "event", x) => x \notin woken
      /\ \A v \in WaitList : v # "event" => Calm(k', pc', k, pc, v, Calls.lists[v])
  BY <1>1, <1>2, <1>3, SoundWalks
<1>7. \A x \in Thread : pc'[x] = pc[x]
        \/ {pc[x], pc'[x]} \subseteq EventLabel \union {"run", "resched"}
  <2>1. CASE UNCHANGED pc
    BY <2>1
  <2>2. CASE Goto(t, "resched")
    <3>1. {pc[t], "resched"} \subseteq EventLabel \union {"run", "resched"}
      BY <1>2
    <3> QED BY <1>1, <2>2, <3>1, MovesOnly
  <2> QED BY <1>5, <2>1, <2>2
<1>8. Apart({"event"}, EventLabel)
  BY <1>6, <1>7 DEF Apart
<1>9. EventWaits'
  BY <1>4, <1>6, SentLeaves DEF woken
<1> QED
  BY <1>8, <1>9

LEMMA IsrNotifyWaits ==
  ASSUME WaitsInv, NEW s \in SUBSET Bit, IsrNotify(s)
  PROVE  Apart({"event"}, EventLabel) /\ EventWaits'
<1> DEFINE woken == Satisfied(set \union s)
<1>1. /\ Sound(k, pc, Calls) /\ CallsOK(Calls) /\ "event" \in WaitList
  BY CallsAre DEF WaitsInv
<1>2. WalkedByIsr(k', k, "event", woken)
  BY DEF WalkedByIsr, IsrNotify, Sent
<1>3. eset' = Sent(s).eset /\ set' = Sent(s).set /\ einfo' = einfo /\ pc' = pc
  BY DEF IsrNotify
<1> HIDE DEF woken
<1>4. /\ Sound(k', pc, Calls) /\ Fewer(k', k, "event")
      /\ \A x \in Thread : On(k', "event", x) => x \notin woken
      /\ \A v \in WaitList : v # "event" => Calm(k', pc, k, pc, v, Calls.lists[v])
  BY <1>1, <1>2, SoundIsrWalks
<1>5. Apart({"event"}, EventLabel)
  BY <1>3, <1>4 DEF Apart
<1>6. EventWaits'
  BY <1>3, <1>4, SentLeaves DEF woken
<1> QED
  BY <1>5, <1>6

LEMMA EventStep ==
  ASSUME WaitsInv, EventNext
  PROVE  Apart({"event"}, EventLabel) /\ EventWaits'
<1>1. /\ Sound(k, pc, Calls) /\ CallsOK(Calls) /\ "event" \in WaitList
  BY CallsAre DEF WaitsInv
<1>2. ASSUME NEW t \in Listener, NEW c \in Asks[t], Recv(t, c.bits, c.option)
      PROVE  Apart({"event"}, EventLabel) /\ EventWaits'
  <2>1. c.bits \in SUBSET Bit /\ c.option \in Option
    BY EventAssumption
  <2> QED BY <1>2, <2>1, RecvWaits
<1>3. ASSUME NEW t \in Thread, RecvSchedule(t)
      PROVE  Apart({"event"}, EventLabel) /\ EventWaits'
  <2>1. /\ "recving" \in Calls.out /\ "recv" \in Label /\ "recv" \notin Calls.locked
        /\ "recving" \in Calls.lists["event"] /\ "recv" \in Calls.lists["event"]
        /\ {"recving", "recv"} \subseteq EventLabel \union {"run", "resched"}
    BY <1>1, CallsAre DEF EventLabel, Label
  <2>2. \A w \in WaitList : "recving" \in Calls.lists[w] <=> "recv" \in Calls.lists[w]
    BY <1>1, <2>1, OwnList
  <2>3. Apart({}, EventLabel)
    BY <1>1, <1>3, <2>1, <2>2, GoesOnCalm DEF RecvSchedule
  <2>4. EventWaits'
    BY <1>1, <1>3, <2>3, EventKept DEF Apart, Calm, RecvSchedule, AsMany, Stay
  <2> QED BY <2>3, <2>4 DEF Apart
<1>4. ASSUME NEW t \in Thread, RecvReturn(t)
      PROVE  Apart({"event"}, EventLabel) /\ EventWaits'
  <2>1. /\ "recv" \notin Calls.out /\ "recv" \in Label /\ "recv" \notin Calls.locked
        /\ "recv" \in Calls.lists["event"] /\ "recv" \in EventLabel
    BY <1>1, CallsAre DEF EventLabel, Label
  <2>2. \A w \in WaitList : "recv" \in Calls.lists[w] => w = "event"
    BY <1>1, <2>1, OwnList
  <2>3. /\ Apart({w \in WaitList : "recv" \in Calls.lists[w]}, EventLabel)
        /\ \A w \in WaitList : Leaves(k', pc', k, pc, w, Calls.lists[w], t)
    BY <1>1, <1>4, <2>1, ReturnsCalm DEF RecvReturn
  <2>4. EventWaits'
    BY <1>1, <1>4, <2>3, EventKept DEF Leaves, RecvReturn
  <2> QED BY <2>2, <2>3, <2>4 DEF Apart
<1>5. ASSUME NEW t \in Thread, ResetEvent(t)
      PROVE  Apart({"event"}, EventLabel) /\ EventWaits'
  <2>1. t = k.cur /\ t # Idle /\ pc[t] = "run" /\ Goto(t, "resched")
    BY <1>5, EventAssumption DEF ResetEvent, At
  <2>2. WakesEverybody(k', pc', k, pc, "event", t)
    BY <1>5 DEF WakesEverybody, ResetEvent, Goto
  <2>3. /\ Sound(k', pc', Calls)
        /\ \A v \in WaitList : v # "event" => Calm(k', pc', k, pc, v, Calls.lists[v])
        /\ AsMany(k', pc', k, pc, "event", Calls.lists["event"])
    BY <1>1, <2>1, <2>2, SoundResets
  <2>4. \A x \in Thread : pc'[x] = pc[x]
          \/ {pc[x], pc'[x]} \subseteq EventLabel \union {"run", "resched"}
    BY <1>1, <2>1, MovesOnly
  <2>5. Apart({"event"}, EventLabel)
    BY <2>3, <2>4 DEF Apart
  <2>6. EventWaits /\ set' \subseteq set /\ eset' = eset /\ einfo' = einfo
    BY <1>5 DEF ResetEvent, WaitsInv
  <2>7. ASSUME NEW x \in Thread, On(k', "event", x)
        PROVE  /\ x \in Listener /\ eset'[x] = eset[x] /\ einfo'[x] = einfo[x]
               /\ ~Satisfies(set', eset[x], einfo[x])
    <3>1. On(k, "event", x)
      BY <1>1, <2>3, <2>7 DEF Fewer, AsMany
    <3> QED BY <2>6, <3>1, SatisfiesMore DEF EventWaits
  <2>8. EventWaits'
    BY <2>6, <2>7, EventLeft DEF EventWaits
  <2> QED BY <2>5, <2>8
<1> QED
  BY <1>2, <1>3, <1>4, <1>5, NotifyWaits, IsrNotifyWaits DEF EventNext

-----------------------------------------------------------------------------
(* The memory pool *)

LEMMA PoolKept ==
  ASSUME WaitsInv, PoolInv, Sound(k', pc', Calls),
         Calm(k', pc', k, pc, "pool", Calls.lists["pool"]), UNCHANGED blocks
  PROVE  PoolWaits'
<1>1. /\ "pool" \in WaitList /\ Calls.lists["pool"] = PoolLabel
      /\ blocks.count \in Int /\ blocks' = blocks
      /\ IpcInv(k) /\ IpcInv(k') /\ Enough(k, pc, "pool", PoolLabel, blocks.count)
  BY CallsAre DEF WaitsInv, PoolWaits, PoolInv, Sound
<1>2. blocks'.count = blocks.count /\ blocks.count <= blocks.count
  BY <1>1
<1> DEFINE n == blocks.count
<1> HIDE DEF n
<1>3. Enough(k', pc', "pool", PoolLabel, n)
  BY <1>1, <1>2, EnoughKept DEF n, Calm
<1> QED
  BY <1>2, <1>3 DEF PoolWaits, n

\* The first free block is taken.
LEMMA TakeBlockWaits ==
  ASSUME WaitsInv, PoolInv, NEW t \in Thread, TakeBlock(t), NEW l \in {"run", "alloc"},
         At(t, l), t # Idle
  PROVE  Apart({"pool"}, PoolLabel) /\ PoolWaits'
<1>1. /\ Sound(k, pc, Calls) /\ CallsOK(Calls) /\ "pool" \in WaitList
      /\ Calls.lists["pool"] = PoolLabel /\ "run" \in Label /\ "run" \notin Calls.locked
      /\ "run" \notin Calls.out /\ l \notin Calls.out /\ l \notin Calls.locked
      /\ \A w \in WaitList : "run" \notin Calls.lists[w]
      /\ l \in PoolLabel \union {"run"} /\ k.cur = t /\ pc[t] = l
  BY CallsAre DEF WaitsInv, CallsOK, PoolLabel, At
<1>2. \A w \in WaitList : l \in Calls.lists[w] => w = "pool"
  BY <1>1, OwnList
<1>3. k' = k /\ Goto(t, "run")
  BY DEF TakeBlock
<1>4. {pc[t], "run"} \subseteq PoolLabel \union {"run", "resched"}
  BY <1>1
<1>5. /\ Apart({w \in WaitList : pc[t] \in Calls.lists[w]}, PoolLabel)
      /\ \A w \in WaitList : Leaves(k', pc', k, pc, w, Calls.lists[w], t)
  <2>1. t \in Thread \ {Idle}
    OBVIOUS
  <2>2. pc[t] \notin Calls.out /\ (pc[t] \in Calls.locked <=> "run" \in Calls.locked)
    BY <1>1
  <2> QED BY <1>1, <1>3, <1>4, <2>1, <2>2, GoesCalm
<1>6. Apart({"pool"}, PoolLabel)
  BY <1>1, <1>2, <1>5 DEF Apart
<1>7. PoolWaits'
  <2> DEFINE n == blocks.count
             m == blocks'.count
  <2>1. /\ n \in Int /\ m \in Int /\ m <= n - 1
        /\ Enough(k, pc, "pool", PoolLabel, n)
    BY DEF TakeBlock, PoolInv, WaitsInv, PoolWaits
  <2> HIDE DEF n, m
  <2>2. IpcInv(k) /\ IpcInv(k') /\ Leaves(k', pc', k, pc, "pool", PoolLabel, t)
    BY <1>1, <1>5 DEF Sound, Apart
  <2>3. Enough(k', pc', "pool", PoolLabel, m)
    BY <1>1, <2>1, <2>2, EnoughLess
  <2> QED BY <2>3 DEF PoolWaits, m
<1> QED
  BY <1>6, <1>7

\* No block is free: the thread waits, in front of the others.
LEMMA WaitForBlockWaits ==
  ASSUME WaitsInv, PoolInv, NEW t \in Thread, NEW finite \in BOOLEAN, WaitForBlock(t, finite),
         NEW l \in {"run", "alloc"}, At(t, l), t # Idle
  PROVE  Apart({"pool"}, PoolLabel) /\ PoolWaits'
<1>1. /\ Sound(k, pc, Calls) /\ CallsOK(Calls) /\ "pool" \in WaitList
      /\ Calls.lists["pool"] = PoolLabel
      /\ l \notin Calls.out /\ l \notin Calls.locked
      /\ \A w \in WaitList : "run" \notin Calls.lists[w]
      /\ l \in PoolLabel \union {"run"} /\ k.cur = t /\ pc[t] = l
  BY CallsAre DEF WaitsInv, CallsOK, PoolLabel, At
<1>2. \A w \in WaitList : l \in Calls.lists[w] => w = "pool"
  BY <1>1, OwnList
<1>3. /\ "allocing" \in Calls.labels /\ "allocing" \in Calls.lists["pool"]
      /\ "allocing" \in Calls.out
      /\ {pc[t], "allocing"} \subseteq PoolLabel \union {"run", "resched"}
  BY <1>1, CallsAre DEF PoolLabel, Label
<1>4. SuspendedInFront(k', k, "pool", t)
  BY DEF WaitForBlock, SuspendedInFront
<1>5. Goto(t, "allocing") /\ blocks' = blocks /\ blocks.count = 0
  BY DEF WaitForBlock
<1>6. k.stat[t] = "running" /\ k.lock = 0 /\ IpcInv(k)
  BY <1>1, CallerRuns DEF Sound
<1>7. Waited(k', k, "pool", t)
  BY <1>1, <1>4, <1>6, FrontWaits
<1>8. /\ Sound(k', pc', Calls)
      /\ \A v \in WaitList : v # "pool" /\ pc[t] \notin Calls.lists[v]
                               => Calm(k', pc', k, pc, v, Calls.lists[v])
  <2> DEFINE to == [pc EXCEPT ![t] = "allocing"]
  <2>1. t = k.cur /\ to = [pc EXCEPT ![t] = "allocing"] /\ pc' = to
        /\ pc[t] \notin Calls.out /\ pc[t] \notin Calls.locked
    BY <1>1, <1>5 DEF Goto
  <2> HIDE DEF to
  <2>2. /\ Sound(k', to, Calls)
        /\ \A v \in WaitList : v # "pool" /\ pc[t] \notin Calls.lists[v]
                                 => Calm(k', to, k, pc, v, Calls.lists[v])
    BY <1>1, <1>3, <1>7, <2>1, SoundWaits
  <2> QED BY <2>1, <2>2
<1>9. Apart({"pool"}, PoolLabel)
  BY <1>1, <1>2, <1>3, <1>5, <1>8, MovesOnly DEF Apart
<1>10. PoolWaits'
  <2>1. blocks'.count <= 0 /\ blocks'.count \in Int
    BY <1>5
  <2> QED BY <2>1, EnoughNone DEF PoolWaits
<1> QED
  BY <1>9, <1>10

\* A block comes back, and a thread that waits is woken for it.
LEMMA PoolOneMore ==
  ASSUME WaitsInv, PoolInv, Sound(k', pc', Calls), blocks'.count = blocks.count + 1,
         OneMore(k', pc', k, pc, "pool", Calls.lists["pool"])
  PROVE  PoolWaits'
<1> DEFINE n == blocks.count
           m == blocks'.count
<1>1. /\ n \in Int /\ m \in Int /\ m <= n + 1
      /\ Enough(k, pc, "pool", PoolLabel, n)
  BY DEF PoolInv, WaitsInv, PoolWaits
<1> HIDE DEF n, m
<1>2. /\ IpcInv(k) /\ IpcInv(k') /\ "pool" \in WaitList
      /\ OneMore(k', pc', k, pc, "pool", PoolLabel)
  BY CallsAre DEF Sound, WaitsInv
<1>3. Enough(k', pc', "pool", PoolLabel, m)
  BY <1>1, <1>2, EnoughWithOneMore
<1> QED
  BY <1>3 DEF PoolWaits, m

LEMMA PoolStep ==
  ASSUME WaitsInv, PoolInv, PoolNext
  PROVE  Apart({"pool"}, PoolLabel) /\ PoolWaits'
<1>1. /\ Sound(k, pc, Calls) /\ CallsOK(Calls) /\ "pool" \in WaitList
      /\ \A w \in WaitList : "run" \notin Calls.lists[w]
  BY CallsAre DEF WaitsInv, CallsOK
<1>2. ASSUME NEW t \in Thread, Alloc(t) PROVE Apart({"pool"}, PoolLabel) /\ PoolWaits'
  <2>1. At(t, "run") /\ t # Idle
    BY <1>2, MemPoolAssumption DEF Alloc
  <2> QED BY <1>2, <2>1, TakeBlockWaits, WaitForBlockWaits DEF Alloc
<1>3. ASSUME NEW t \in Thread, AllocSchedule(t)
      PROVE  Apart({"pool"}, PoolLabel) /\ PoolWaits'
  <2>1. /\ "allocing" \in Calls.out /\ "alloc" \in Label /\ "alloc" \notin Calls.locked
        /\ "allocing" \in Calls.lists["pool"] /\ "alloc" \in Calls.lists["pool"]
        /\ {"allocing", "alloc"} \subseteq PoolLabel \union {"run", "resched"}
    BY CallsAre DEF PoolLabel, Label
  <2>2. \A w \in WaitList : "allocing" \in Calls.lists[w] <=> "alloc" \in Calls.lists[w]
    BY <1>1, <2>1, OwnList
  <2>3. Apart({}, PoolLabel)
    BY <1>1, <1>3, <2>1, <2>2, GoesOnCalm DEF AllocSchedule
  <2>4. PoolWaits'
    BY <1>1, <1>3, <2>3, PoolKept DEF Apart, AllocSchedule, poolVars
  <2> QED BY <2>3, <2>4 DEF Apart
<1>4. ASSUME NEW t \in Thread, At(t, "alloc") PROVE t # Idle
  BY <1>1, <1>4 DEF At, Sound
<1>5. ASSUME NEW t \in Thread, At(t, "alloc"), NEW r, r = k \/ GivenError(r, k, t, "ETIMEOUT"),
             k' = r, Goto(t, "run"), UNCHANGED blocks,
             blocks.count = 0 \/ k.err[t] # "EOK"
      PROVE  Apart({"pool"}, PoolLabel) /\ PoolWaits'
  <2>1. /\ t = k.cur /\ pc[t] = "alloc" /\ t # Idle /\ "run" \in Calls.labels
        /\ pc[t] \notin Calls.out /\ pc[t] \notin Calls.locked /\ "run" \notin Calls.locked
        /\ "alloc" \in Calls.lists["pool"] /\ "ETIMEOUT" \in Error
        /\ {pc[t], "run"} \subseteq PoolLabel \union {"run", "resched"}
    BY <1>4, <1>5, CallsAre DEF At, CallsOK, PoolLabel, Error
  <2>2. \A w \in WaitList : pc[t] \in Calls.lists[w] => w = "pool"
    BY <1>1, <2>1, OwnList
  <2>3. k' = k \/ \E e \in Error : GivenError(k', k, t, e)
    BY <1>5, <2>1
  <2>4. /\ Sound(k', pc', Calls)
        /\ \A w \in WaitList : "run" \notin Calls.lists[w]
                                 => Leaves(k', pc', k, pc, w, Calls.lists[w], t)
        /\ \A w \in WaitList : "run" \notin Calls.lists[w] /\ pc[t] \notin Calls.lists[w]
                                 => Calm(k', pc', k, pc, w, Calls.lists[w])
    <3> DEFINE to == [pc EXCEPT ![t] = "run"]
    <3>1. to = [pc EXCEPT ![t] = "run"] /\ pc' = to
      BY <1>5 DEF Goto
    <3> HIDE DEF to
    <3>2. /\ Sound(k', to, Calls)
          /\ \A w \in WaitList : "run" \notin Calls.lists[w]
                                   => Leaves(k', to, k, pc, w, Calls.lists[w], t)
          /\ \A w \in WaitList : "run" \notin Calls.lists[w] /\ pc[t] \notin Calls.lists[w]
                                   => Calm(k', to, k, pc, w, Calls.lists[w])
      BY <1>1, <2>1, <2>3, <3>1, SoundMoves
    <3> QED BY <3>1, <3>2
  <2>5. Apart({"pool"}, PoolLabel)
    BY <1>1, <1>5, <2>1, <2>2, <2>4, MovesOnly DEF Apart
  <2>6. PoolWaits'
    <3>1. CASE blocks.count = 0
      <4>1. blocks'.count <= 0 /\ blocks'.count \in Int
        BY <1>5, <3>1
      <4> QED BY <4>1, EnoughNone DEF PoolWaits
    <3>2. CASE k.err[t] # "EOK"
      <4>1. t \notin Alert(k, pc, "pool", Calls.lists["pool"])
        BY <3>2 DEF Alert
      <4>2. Calm(k', pc', k, pc, "pool", Calls.lists["pool"])
        BY <1>1, <2>4, <4>1, LeavesCalm
      <4> QED BY <1>5, <2>4, <4>2, PoolKept
    <3> QED BY <1>5, <3>1, <3>2
  <2> QED BY <2>5, <2>6
<1>6. ASSUME NEW t \in Thread, AllocAgain(t) PROVE Apart({"pool"}, PoolLabel) /\ PoolWaits'
  <2>1. At(t, "alloc") /\ t # Idle /\ (t \in hurry) \in BOOLEAN
    BY <1>4, <1>6 DEF AllocAgain
  <2>2. CASE TakeBlock(t)
    BY <2>1, <2>2, TakeBlockWaits
  <2>3. CASE WaitForBlock(t, t \in hurry)
    <3> DEFINE finite == t \in hurry
    <3>1. finite \in BOOLEAN /\ WaitForBlock(t, finite)
      BY <2>1, <2>3
    <3> HIDE DEF finite
    <3> QED BY <2>1, <3>1, WaitForBlockWaits
  <2>4. CASE /\ blocks.count = 0
             /\ k' = [k EXCEPT !.err[t] = "ETIMEOUT"]
             /\ Goto(t, "run")
             /\ UNCHANGED <<blocks, used>>
    <3>1. GivenError(k', k, t, "ETIMEOUT")
      BY <2>4 DEF GivenError
    <3> QED BY <1>5, <2>1, <2>4, <3>1
  <2> QED BY <1>6, <2>2, <2>3, <2>4 DEF AllocAgain
<1>7. ASSUME NEW t \in Thread, AllocFails(t) PROVE Apart({"pool"}, PoolLabel) /\ PoolWaits'
  BY <1>5, <1>7 DEF AllocFails
<1>8. ASSUME NEW t \in Thread, NEW b \in Block, FreeBlock(t, b)
      PROVE  Apart({"pool"}, PoolLabel) /\ PoolWaits'
  <2>1. t = k.cur /\ pc[t] = "run" /\ t # Idle /\ blocks'.count = blocks.count + 1
    BY <1>8, MemPoolAssumption DEF FreeBlock, At, GiveBack
  <2>2. WakesFirst(k', pc', k, pc, "pool", t)
    <3>1. pc = [pc EXCEPT ![t] = "run"]
      BY <1>1, <2>1 DEF Sound
    <3> QED BY <1>8, <3>1 DEF FreeBlock, WakesOne, WakesFirst, Goto
  <2>3. pc' = pc \/ Goto(t, "resched")
    BY <1>8 DEF FreeBlock
  <2>4. \A w \in WaitList : pc[t] \notin Calls.lists[w]
    BY <1>1, <2>1
  <2>5. /\ Sound(k', pc', Calls)
        /\ OneMore(k', pc', k, pc, "pool", Calls.lists["pool"])
        /\ \A v \in WaitList : v # "pool" /\ pc[t] \notin Calls.lists[v]
                                 => Calm(k', pc', k, pc, v, Calls.lists[v])
    <3>1. pc[t] \notin Calls.out /\ pc[t] \notin Calls.locked /\ t = k.cur /\ t # Idle
      BY <2>1, CallsAre
    <3> QED BY <1>1, <2>2, <2>4, <3>1, SoundWakesOne
  <2>6. \A x \in Thread : pc'[x] = pc[x]
          \/ {pc[x], pc'[x]} \subseteq PoolLabel \union {"run", "resched"}
    <3>1. CASE Goto(t, "resched")
      <4>1. {pc[t], "resched"} \subseteq PoolLabel \union {"run", "resched"}
        BY <2>1
      <4> QED BY <1>1, <3>1, <4>1, MovesOnly
    <3> QED BY <2>3, <3>1
  <2>7. Apart({"pool"}, PoolLabel)
    BY <2>4, <2>5, <2>6 DEF Apart
  <2>8. PoolWaits'
    BY <2>1, <2>5, PoolOneMore
  <2> QED BY <2>7, <2>8
<1>9. ASSUME NEW b \in Block, IsrFreeBlock(b) PROVE Apart({"pool"}, PoolLabel) /\ PoolWaits'
  <2>1. k' = (IF k.wait["pool"] = <<>> THEN k ELSE rt_schedule(ResumeFirst(k, "pool")))
        /\ pc' = pc /\ blocks'.count = blocks.count + 1
    BY <1>9 DEF IsrFreeBlock, WakesOne, GiveBack
  <2>2. /\ Sound(k', pc', Calls)
        /\ OneMore(k', pc', k, pc, "pool", Calls.lists["pool"])
        /\ \A v \in WaitList : v # "pool" => Calm(k', pc', k, pc, v, Calls.lists[v])
    BY <1>1, <2>1, SoundIsrWakesOne
  <2>3. Apart({"pool"}, PoolLabel)
    BY <2>1, <2>2 DEF Apart
  <2>4. PoolWaits'
    BY <2>1, <2>2, PoolOneMore
  <2> QED BY <2>3, <2>4
<1> QED
  BY <1>2, <1>3, <1>6, <1>7, <1>8, <1>9 DEF PoolNext

-----------------------------------------------------------------------------
(* The data queue: threads that wait for items or for room *)

Working == PushLabel \union Popping

LEMMA ResettingGoesOn ==
  ASSUME NEW own, NEW labels, Apart(own, labels), labels \intersect ResetLabel = {}, Resetting
  PROVE  Resetting'
<1>1. PICK t \in Thread : pc[t] \in ResetLabel
  BY DEF Resetting
<1>2. pc[t] \notin labels \union {"run", "resched"}
  BY <1>1 DEF ResetLabel
<1>3. pc'[t] = pc[t]
  BY <1>2 DEF Apart
<1> QED
  BY <1>1, <1>3 DEF Resetting, ResetLabel

LEMMA CountsAre ==
  ASSUME QueueInv, QueueInv'
  PROVE  /\ ItemCount(dq) \in Int /\ ItemCount(dq') \in Int /\ LowMark \in Int
         /\ (dq.empty <=> ItemCount(dq) = 0) /\ (dq.full <=> ItemCount(dq) = ItemMax)
         /\ LowMark <= ItemMax - 1 /\ ItemMax \in Int
<1>1. dq' \in DataState /\ FlagsAgree(dq')
  BY DEF QueueInv, DataState, FlagsAgree, Held
<1>2. ItemCount(dq') \in 0..ItemMax /\ ItemCount(dq) \in 0..ItemMax
  BY <1>1, CountValue DEF QueueInv
<1>3. (dq.empty <=> ItemCount(dq) = 0) /\ (dq.full <=> ItemCount(dq) = ItemMax)
  BY CountValue DEF QueueInv
<1>4. LowMark \in Int /\ LowMark <= ItemMax - 1 /\ ItemMax \in Int
  BY DataQueueAssumption
<1>5. ItemCount(dq') \in Int /\ ItemCount(dq) \in Int
  BY <1>2, <1>4
<1> QED
  BY <1>3, <1>4, <1>5

\* Threads that wait for an item: what was said of them and of those on their way.
LEMMA PopCalm ==
  ASSUME WaitsInv, QueueInv, QueueInv', Sound(k', pc', Calls),
         AsMany(k', pc', k, pc, "poppers", Calls.lists["poppers"]),
         ItemCount(dq') <= ItemCount(dq)
  PROVE  PopWaits'
<1> DEFINE n == ItemCount(dq)
           m == ItemCount(dq')
<1>1. /\ n \in Int /\ m \in Int /\ m <= n /\ Enough(k, pc, "poppers", Popping, n)
      /\ Untold(k, "poppers")
  BY CountsAre DEF WaitsInv, PopWaits
<1> HIDE DEF n, m
<1>2. /\ IpcInv(k) /\ IpcInv(k') /\ "poppers" \in WaitList
      /\ AsMany(k', pc', k, pc, "poppers", Popping)
  BY CallsAre DEF Sound, WaitsInv
<1>3. Enough(k', pc', "poppers", Popping, m)
  BY <1>1, <1>2, EnoughKept
<1>4. Untold(k', "poppers")
  BY <1>1, <1>2, FewerUntold DEF AsMany
<1>5. Enough(k', pc', "poppers", Popping, ItemCount(dq'))
  BY <1>3 DEF m
<1> QED
  BY <1>4, <1>5 DEF PopWaits, ItemCount

LEMMA PopLeaves ==
  ASSUME WaitsInv, QueueInv, QueueInv', Sound(k', pc', Calls), NEW t,
         Leaves(k', pc', k, pc, "poppers", Calls.lists["poppers"], t),
         ItemCount(dq') <= ItemCount(dq) - 1
  PROVE  PopWaits'
<1> DEFINE n == ItemCount(dq)
           m == ItemCount(dq')
<1>1. /\ n \in Int /\ m \in Int /\ m <= n - 1 /\ Enough(k, pc, "poppers", Popping, n)
      /\ Untold(k, "poppers")
  BY CountsAre DEF WaitsInv, PopWaits
<1> HIDE DEF n, m
<1>2. /\ IpcInv(k) /\ IpcInv(k') /\ "poppers" \in WaitList
      /\ Leaves(k', pc', k, pc, "poppers", Popping, t)
  BY CallsAre DEF Sound, WaitsInv
<1>3. Enough(k', pc', "poppers", Popping, m)
  BY <1>1, <1>2, EnoughLess
<1>4. Untold(k', "poppers")
  BY <1>1, <1>2, FewerUntold DEF Leaves
<1>5. Enough(k', pc', "poppers", Popping, ItemCount(dq'))
  BY <1>3 DEF m
<1> QED
  BY <1>4, <1>5 DEF PopWaits, ItemCount

LEMMA OneMoreUntold ==
  ASSUME NEW s, NEW r, NEW at, NEW to, NEW w, NEW ls, OneMore(r, to, s, at, w, ls), Untold(s, w)
  PROVE  Untold(r, w)
<1>1. CASE r.wait[w] = <<>>
  BY <1>1 DEF Untold, On, Contains
<1>2. CASE r.wait[w] # <<>>
  BY <1>2 DEF OneMore, Joins, Fewer, Untold
<1> QED
  BY <1>1, <1>2

LEMMA PopMore ==
  ASSUME WaitsInv, QueueInv, QueueInv', Sound(k', pc', Calls),
         OneMore(k', pc', k, pc, "poppers", Calls.lists["poppers"]),
         ItemCount(dq') <= ItemCount(dq) + 1
  PROVE  PopWaits'
<1> DEFINE n == ItemCount(dq)
           m == ItemCount(dq')
<1>1. /\ n \in Int /\ m \in Int /\ m <= n + 1 /\ Enough(k, pc, "poppers", Popping, n)
      /\ Untold(k, "poppers")
  BY CountsAre DEF WaitsInv, PopWaits
<1> HIDE DEF n, m
<1>2. /\ IpcInv(k) /\ IpcInv(k') /\ "poppers" \in WaitList
      /\ OneMore(k', pc', k, pc, "poppers", Popping)
  BY CallsAre DEF Sound, WaitsInv
<1>3. Enough(k', pc', "poppers", Popping, m)
  BY <1>1, <1>2, EnoughWithOneMore
<1>4. Untold(k', "poppers")
  BY <1>1, <1>2, OneMoreUntold
<1>5. Enough(k', pc', "poppers", Popping, ItemCount(dq'))
  BY <1>3 DEF m
<1> QED
  BY <1>4, <1>5 DEF PopWaits, ItemCount

\* Threads that wait for room: what is needed is the distance to the mark.
LEMMA PushIs ==
  ASSUME Untold(k', "pushers"),
         Resetting' \/ Enough(k', pc', "pushers", PushLabel, LowMark + 1 - ItemCount(dq'))
  PROVE  PushWaits'
BY DEF PushWaits, ItemCount, PushLabel

LEMMA PushCalm ==
  ASSUME WaitsInv, QueueInv, QueueInv', Sound(k', pc', Calls), Resetting => Resetting',
         AsMany(k', pc', k, pc, "pushers", Calls.lists["pushers"]),
         ItemCount(dq') >= ItemCount(dq)
  PROVE  PushWaits'
<1> DEFINE n == LowMark + 1 - ItemCount(dq)
           m == LowMark + 1 - ItemCount(dq')
<1>1. /\ n \in Int /\ m \in Int /\ m <= n
      /\ Resetting \/ Enough(k, pc, "pushers", PushLabel, n)
      /\ Untold(k, "pushers")
  BY CountsAre DEF WaitsInv, PushWaits
<1> HIDE DEF n, m
<1>2. /\ IpcInv(k) /\ IpcInv(k') /\ "pushers" \in WaitList
      /\ AsMany(k', pc', k, pc, "pushers", PushLabel)
  BY CallsAre DEF Sound, WaitsInv
<1>3. ASSUME ~Resetting PROVE Enough(k', pc', "pushers", PushLabel, m)
  BY <1>1, <1>2, <1>3, EnoughKept
<1>4. Untold(k', "pushers")
  BY <1>1, <1>2, FewerUntold DEF AsMany
<1> QED
  BY <1>3, <1>4, PushIs DEF m

LEMMA PushLeaves ==
  ASSUME WaitsInv, QueueInv, QueueInv', Sound(k', pc', Calls), Resetting => Resetting', NEW t,
         Leaves(k', pc', k, pc, "pushers", Calls.lists["pushers"], t),
         ItemCount(dq') >= ItemCount(dq) + 1
  PROVE  PushWaits'
<1> DEFINE n == LowMark + 1 - ItemCount(dq)
           m == LowMark + 1 - ItemCount(dq')
<1>1. /\ n \in Int /\ m \in Int /\ m <= n - 1
      /\ Resetting \/ Enough(k, pc, "pushers", PushLabel, n)
      /\ Untold(k, "pushers")
  BY CountsAre DEF WaitsInv, PushWaits
<1> HIDE DEF n, m
<1>2. /\ IpcInv(k) /\ IpcInv(k') /\ "pushers" \in WaitList
      /\ Leaves(k', pc', k, pc, "pushers", PushLabel, t)
  BY CallsAre DEF Sound, WaitsInv
<1>3. ASSUME ~Resetting PROVE Enough(k', pc', "pushers", PushLabel, m)
  BY <1>1, <1>2, <1>3, EnoughLess
<1>4. Untold(k', "pushers")
  BY <1>1, <1>2, FewerUntold DEF Leaves
<1> QED
  BY <1>3, <1>4, PushIs DEF m

LEMMA PushMore ==
  ASSUME WaitsInv, QueueInv, QueueInv', Sound(k', pc', Calls), Resetting => Resetting',
         OneMore(k', pc', k, pc, "pushers", Calls.lists["pushers"]),
         ItemCount(dq') >= ItemCount(dq) - 1
  PROVE  PushWaits'
<1> DEFINE n == LowMark + 1 - ItemCount(dq)
           m == LowMark + 1 - ItemCount(dq')
<1>1. /\ n \in Int /\ m \in Int /\ m <= n + 1
      /\ Resetting \/ Enough(k, pc, "pushers", PushLabel, n)
      /\ Untold(k, "pushers")
  BY CountsAre DEF WaitsInv, PushWaits
<1> HIDE DEF n, m
<1>2. /\ IpcInv(k) /\ IpcInv(k') /\ "pushers" \in WaitList
      /\ OneMore(k', pc', k, pc, "pushers", PushLabel)
  BY CallsAre DEF Sound, WaitsInv
<1>3. ASSUME ~Resetting PROVE Enough(k', pc', "pushers", PushLabel, m)
  BY <1>1, <1>2, <1>3, EnoughWithOneMore
<1>4. Untold(k', "pushers")
  BY <1>1, <1>2, OneMoreUntold
<1> QED
  BY <1>3, <1>4, PushIs DEF m

\* What every step of the data queue keeps.
DataStepGood == Apart({"pushers", "poppers"}, DataLabel) /\ PopWaits' /\ PushWaits'

\* The labels of a push and of a pop.
LEMMA WorkingLabels ==
  /\ CallsOK(Calls) /\ {"pushers", "poppers"} \subseteq WaitList
  /\ Working \intersect ResetLabel = {} /\ Working \subseteq DataLabel
  /\ \A l \in {"run", "push", "pop"} :
       /\ l \in Label /\ l \notin Calls.out /\ l \notin Calls.locked
       /\ l \in Working \union {"run", "resched"}
  /\ \A w \in WaitList : /\ "run" \notin Calls.lists[w] /\ "resched" \notin Calls.lists[w]
                         /\ "push" \in Calls.lists[w] <=> w = "pushers"
                         /\ "pop" \in Calls.lists[w] <=> w = "poppers"
                         /\ "pushing" \in Calls.lists[w] <=> w = "pushers"
                         /\ "popping" \in Calls.lists[w] <=> w = "poppers"
  /\ "resched" \in Calls.labels /\ "resched" \notin Calls.locked
  /\ {"pushing", "popping"} \subseteq Calls.labels /\ {"pushing", "popping"} \subseteq Calls.out
  /\ {"pushing", "popping"} \subseteq Working
<1>1. "pushers" \in WaitList /\ "poppers" \in WaitList
  BY CallsAre
<1>2. /\ {"push", "pushing"} \subseteq Calls.lists["pushers"]
      /\ {"pop", "popping"} \subseteq Calls.lists["poppers"]
  BY CallsAre DEF PushLabel, Popping
<1>3. \A w \in WaitList : /\ "push" \in Calls.lists[w] <=> w = "pushers"
                          /\ "pop" \in Calls.lists[w] <=> w = "poppers"
                          /\ "pushing" \in Calls.lists[w] <=> w = "pushers"
                          /\ "popping" \in Calls.lists[w] <=> w = "poppers"
  BY <1>1, <1>2, OwnList
<1>4. Working \intersect ResetLabel = {} /\ Working \subseteq DataLabel
  BY DEF Working, PushLabel, Popping, ResetLabel, DataLabel
<1>5. /\ \A l \in {"run", "push", "pop"} :
           /\ l \in Label /\ l \notin Calls.out /\ l \notin Calls.locked
           /\ l \in Working \union {"run", "resched"}
      /\ {"pushing", "popping"} \subseteq Calls.labels
      /\ {"pushing", "popping"} \subseteq Calls.out
      /\ {"pushing", "popping"} \subseteq Working
  BY CallsAre DEF Label, Working, PushLabel, Popping, DataLabel
<1> QED
  BY <1>1, <1>3, <1>4, <1>5, CallsAre DEF CallsOK

\* A thread that leaves a push or a pop, or begins one.
LEMMA WorkingApart ==
  ASSUME Sound(k, pc, Calls), Sound(k', pc', Calls), NEW t \in Thread,
         NEW l \in {"run", "push", "pop"}, pc[t] = l,
         \A v \in WaitList \ {"pushers", "poppers"} : Calm(k', pc', k, pc, v, Calls.lists[v]),
         NEW to \in {"run", "resched", "pushing", "popping"}, Goto(t, to)
  PROVE  Apart({"pushers", "poppers"}, DataLabel) /\ (Resetting => Resetting')
<1>1. {pc[t], to} \subseteq Working \union {"run", "resched"}
  BY WorkingLabels
<1>2. \A x \in Thread : pc'[x] = pc[x]
        \/ {pc[x], pc'[x]} \subseteq Working \union {"run", "resched"}
  BY <1>1, MovesOnly
<1>3. Apart({"pushers", "poppers"}, Working)
  BY <1>2 DEF Apart
<1>4. Apart({"pushers", "poppers"}, DataLabel)
  BY <1>3, WorkingLabels DEF Apart
<1>5. Working \intersect ResetLabel = {}
  BY WorkingLabels
<1> QED
  BY <1>3, <1>4, <1>5, ResettingGoesOn

\* A thread that takes an item or a place and goes on, without waking anybody.
LEMMA WorkerGoes ==
  ASSUME Sound(k, pc, Calls), NEW t \in Thread, NEW l \in {"run", "push", "pop"}, At(t, l),
         t # Idle, UNCHANGED k, Goto(t, "run")
  PROVE  /\ Sound(k', pc', Calls)
         /\ Apart({"pushers", "poppers"}, DataLabel) /\ (Resetting => Resetting')
         /\ \A w \in WaitList : Leaves(k', pc', k, pc, w, Calls.lists[w], t)
<1>1. /\ k.cur = t /\ pc[t] = l /\ t \in Thread \ {Idle} /\ "run" \in Label
      /\ pc[t] \notin Calls.out /\ (pc[t] \in Calls.locked <=> "run" \in Calls.locked)
      /\ {pc[t], "run"} \subseteq Working \union {"run", "resched"}
      /\ \A w \in WaitList : "run" \notin Calls.lists[w]
      /\ \A w \in WaitList : pc[t] \in Calls.lists[w] => w \in {"pushers", "poppers"}
  BY WorkingLabels DEF At
<1>2. /\ Apart({w \in WaitList : pc[t] \in Calls.lists[w]}, Working)
      /\ \A w \in WaitList : Leaves(k', pc', k, pc, w, Calls.lists[w], t)
  BY <1>1, GoesCalm
<1>3. /\ Sound(k', pc', Calls)
      /\ \A v \in WaitList \ {"pushers", "poppers"} : Calm(k', pc', k, pc, v, Calls.lists[v])
  BY <1>1, <1>2 DEF Apart
<1> QED
  BY <1>1, <1>2, <1>3, WorkingApart

\* It wakes the first thread of list w.
LEMMA WorkerWakes ==
  ASSUME WaitsInv, NEW t \in Thread, NEW l \in {"run", "push", "pop"}, At(t, l),
         t # Idle, NEW w \in {"pushers", "poppers"}, l \notin Calls.lists[w],
         k.wait[w] # <<>>, k' = WakeHead(w), Goto(t, "resched")
  PROVE  /\ Sound(k', pc', Calls)
         /\ Apart({"pushers", "poppers"}, DataLabel) /\ (Resetting => Resetting')
         /\ OneMore(k', pc', k, pc, w, Calls.lists[w])
         /\ \A v \in WaitList : v # w => Leaves(k', pc', k, pc, v, Calls.lists[v], t)
<1>1. /\ Sound(k, pc, Calls) /\ Untold(k, w) /\ w \in WaitList /\ CallsOK(Calls)
      /\ k.cur = t /\ pc[t] = l /\ pc[t] \notin Calls.out
      /\ pc[t] \notin Calls.locked /\ "resched" \notin Calls.locked /\ "resched" \in Calls.labels
      /\ \A v \in WaitList : "resched" \notin Calls.lists[v]
      /\ \A v \in WaitList : pc[t] \in Calls.lists[v] => v \in {"pushers", "poppers"}
      /\ pc[t] \notin Calls.lists[w] /\ "EOK" \in Error
  BY WorkingLabels DEF WaitsInv, PopWaits, PushWaits, At, Error
<1>2. HeadWoke(k', k, w, "EOK")
  <2>1. IpcInv(k)
    BY <1>1 DEF Sound
  <2> QED BY <1>1, <2>1, HeadResumed DEF WakeHead
<1>3. /\ Sound(k', pc', Calls)
      /\ OneMore(k', pc', k, pc, w, Calls.lists[w])
      /\ \A v \in WaitList : v # w => Leaves(k', pc', k, pc, v, Calls.lists[v], t)
      /\ \A v \in WaitList : v # w /\ pc[t] \notin Calls.lists[v]
                               => Calm(k', pc', k, pc, v, Calls.lists[v])
  <2> DEFINE to == [pc EXCEPT ![t] = "resched"]
             e == "EOK"
             n == "resched"
  <2>1. /\ t = k.cur /\ to = [pc EXCEPT ![t] = n] /\ e \in Error /\ HeadWoke(k', k, w, e)
        /\ n \in Calls.labels /\ (pc[t] \in Calls.locked <=> n \in Calls.locked)
        /\ \A v \in WaitList : n \notin Calls.lists[v]
    BY <1>1, <1>2
  <2>2. pc' = to /\ e = "EOK"
    BY DEF Goto
  <2> HIDE DEF to, e, n
  <2>3. /\ Sound(k', to, Calls)
        /\ IF e = "EOK" THEN OneMore(k', to, k, pc, w, Calls.lists[w])
                        ELSE AsMany(k', to, k, pc, w, Calls.lists[w])
        /\ \A v \in WaitList : v # w => Leaves(k', to, k, pc, v, Calls.lists[v], t)
        /\ \A v \in WaitList : v # w /\ pc[t] \notin Calls.lists[v]
                                 => Calm(k', to, k, pc, v, Calls.lists[v])
    BY <1>1, <2>1, SoundWakesTo
  <2> QED BY <2>2, <2>3
<1>4. \A v \in WaitList \ {"pushers", "poppers"} : Calm(k', pc', k, pc, v, Calls.lists[v])
  BY <1>1, <1>3
<1> QED
  BY <1>1, <1>3, <1>4, WorkingApart

\* It waits on list w itself, told nothing.
SuspendsOn(w, t) ==
  \E finite \in BOOLEAN :
    k' = SuspendTimed([k EXCEPT !.err[t] = "EOK"], w, "FIFO", t, finite)

LEMMA WorkerWaits ==
  ASSUME WaitsInv, NEW t \in Thread, NEW l \in {"run", "push", "pop"}, At(t, l),
         t # Idle, NEW w \in {"pushers", "poppers"},
         \A v \in WaitList : v # w => l \notin Calls.lists[v],
         SuspendsOn(w, t), NEW to \in {"pushing", "popping"}, to \in Calls.lists[w], Goto(t, to)
  PROVE  /\ Sound(k', pc', Calls) /\ Untold(k', w)
         /\ Apart({"pushers", "poppers"}, DataLabel) /\ (Resetting => Resetting')
         /\ \A v \in WaitList : v # w => Calm(k', pc', k, pc, v, Calls.lists[v])
<1>1. /\ Sound(k, pc, Calls) /\ Untold(k, w) /\ w \in WaitList /\ CallsOK(Calls)
      /\ k.cur = t /\ pc[t] = l /\ pc[t] \notin Calls.out /\ pc[t] \notin Calls.locked
      /\ to \in Calls.labels /\ to \in Calls.out
      /\ "EOK" \in Error /\ "FIFO" \in {"FIFO", "PRIO"}
      /\ \A v \in WaitList : v # w => pc[t] \notin Calls.lists[v]
  BY WorkingLabels DEF WaitsInv, PopWaits, PushWaits, At, Error
<1>2. Suspended(k', k, w, t)
  BY <1>1 DEF Suspended, SuspendsOn
<1>3. Untold(k', w)
  <2> PICK finite \in BOOLEAN :
        k' = SuspendTimed([k EXCEPT !.err[t] = "EOK"], w, "FIFO", t, finite)
    BY DEF SuspendsOn
  <2> DEFINE flag == "FIFO"
             r == SuspendTimed([k EXCEPT !.err[t] = "EOK"], w, flag, t, finite)
  <2>1. flag \in {"FIFO", "PRIO"} /\ t = k.cur
        /\ r = SuspendTimed([k EXCEPT !.err[t] = "EOK"], w, flag, t, finite)
    BY <1>1
  <2>2. k' = r
    OBVIOUS
  <2> HIDE DEF flag, r
  <2>3. Untold(r, w)
    BY <1>1, <2>1, SuspendUntold
  <2> QED BY <2>2, <2>3
<1>4. /\ Sound(k', pc', Calls)
      /\ \A v \in WaitList : v # w /\ pc[t] \notin Calls.lists[v]
                               => Calm(k', pc', k, pc, v, Calls.lists[v])
  <2> DEFINE n == [pc EXCEPT ![t] = to]
  <2>1. t = k.cur /\ n = [pc EXCEPT ![t] = to] /\ pc' = n
    BY <1>1 DEF Goto
  <2> HIDE DEF n
  <2>2. /\ Sound(k', n, Calls)
        /\ \A v \in WaitList : v # w /\ pc[t] \notin Calls.lists[v]
                                 => Calm(k', n, k, pc, v, Calls.lists[v])
    BY <1>1, <1>2, <2>1, SoundSuspends
  <2> QED BY <2>1, <2>2
<1>5. \A v \in WaitList : v # w => Calm(k', pc', k, pc, v, Calls.lists[v])
  BY <1>1, <1>4
<1> QED
  BY <1>1, <1>3, <1>4, <1>5, WorkingApart

LEMMA PushItemWaits ==
  ASSUME WaitsInv, QueueInv, NEW t \in Thread, NEW v \in Item, PushItem(t, v),
         NEW l \in {"run", "push"}, At(t, l), t # Idle
  PROVE  DataStepGood
<1>1. QueueInv' /\ ItemCount(dq') = ItemCount(dq) + 1
  BY PutAppends DEF PushItem
<1>2. /\ ItemCount(dq) \in Int /\ ItemCount(dq') \in Int
      /\ "pushers" \in WaitList /\ "poppers" \in WaitList
  BY <1>1, CountsAre, WorkingLabels
<1>3. CASE k.wait["poppers"] = <<>> /\ UNCHANGED k /\ Goto(t, "run")
  <2>1. /\ Sound(k', pc', Calls)
        /\ Apart({"pushers", "poppers"}, DataLabel) /\ (Resetting => Resetting')
        /\ \A w \in WaitList : Leaves(k', pc', k, pc, w, Calls.lists[w], t)
    BY <1>3, WorkerGoes DEF WaitsInv
  <2>2. OneMore(k', pc', k, pc, "poppers", Calls.lists["poppers"])
    BY <1>3 DEF OneMore
  <2>3. PopWaits'
    BY <1>1, <1>2, <2>1, <2>2, PopMore
  <2>4. PushWaits'
    BY <1>1, <1>2, <2>1, PushLeaves
  <2> QED BY <2>1, <2>3, <2>4 DEF DataStepGood
<1>4. CASE k.wait["poppers"] # <<>> /\ k' = WakeHead("poppers") /\ Goto(t, "resched")
  <2>1. l \notin Calls.lists["poppers"]
    BY <1>2, WorkingLabels
  <2>2. /\ Sound(k', pc', Calls)
        /\ Apart({"pushers", "poppers"}, DataLabel) /\ (Resetting => Resetting')
        /\ OneMore(k', pc', k, pc, "poppers", Calls.lists["poppers"])
        /\ \A w \in WaitList : w # "poppers" => Leaves(k', pc', k, pc, w, Calls.lists[w], t)
    BY <1>4, <2>1, WorkerWakes
  <2>3. PopWaits'
    BY <1>1, <1>2, <2>2, PopMore
  <2>4. PushWaits'
    BY <1>1, <1>2, <2>2, PushLeaves
  <2> QED BY <2>2, <2>3, <2>4 DEF DataStepGood
<1> QED
  BY <1>3, <1>4 DEF PushItem

LEMMA WaitToPushWaits ==
  ASSUME WaitsInv, QueueInv, NEW t \in Thread, NEW v, NEW finite \in BOOLEAN,
         WaitToPush(t, v, finite), NEW l \in {"run", "push"}, At(t, l), t # Idle
  PROVE  DataStepGood
<1>1. QueueInv' /\ dq' = dq
  BY QuietStep DEF WaitToPush
<1>2. ItemCount(dq') = ItemCount(dq)
  BY <1>1
<1>3. /\ ItemCount(dq) \in Int /\ "pushers" \in WaitList /\ "poppers" \in WaitList
      /\ "pushing" \in Calls.lists["pushers"]
      /\ \A w \in WaitList : w # "pushers" => l \notin Calls.lists[w]
  BY <1>1, CountsAre, WorkingLabels
<1>4. /\ Sound(k', pc', Calls) /\ Untold(k', "pushers")
      /\ Apart({"pushers", "poppers"}, DataLabel) /\ (Resetting => Resetting')
      /\ \A w \in WaitList : w # "pushers" => Calm(k', pc', k, pc, w, Calls.lists[w])
  <2>1. SuspendsOn("pushers", t) /\ Goto(t, "pushing")
    BY DEF WaitToPush, SuspendsOn
  <2> QED BY <1>3, <2>1, WorkerWaits
<1>5. PopWaits'
  BY <1>1, <1>2, <1>3, <1>4, PopCalm DEF Calm
<1>6. PushWaits'
  <2>1. LowMark + 1 - ItemCount(dq') <= 0 /\ LowMark + 1 - ItemCount(dq') \in Int
    BY <1>1, <1>2, CountsAre DEF WaitToPush
  <2> QED BY <1>4, <2>1, PushIs, EnoughNone
<1> QED
  BY <1>4, <1>5, <1>6 DEF DataStepGood

LEMMA PopItemWaits ==
  ASSUME WaitsInv, QueueInv, NEW t \in Thread, PopItem(t),
         NEW l \in {"run", "pop"}, At(t, l), t # Idle
  PROVE  DataStepGood
<1>1. QueueInv' /\ ItemCount(dq') = ItemCount(dq) - 1 /\ dq' = GetItem
  BY GetTakesHead DEF PopItem
<1>2. /\ ItemCount(dq) \in Int /\ ItemCount(dq') \in Int
      /\ "pushers" \in WaitList /\ "poppers" \in WaitList
  BY <1>1, CountsAre, WorkingLabels
<1>3. CASE ~RoomIsMade /\ UNCHANGED k /\ Goto(t, "run")
  <2>1. /\ Sound(k', pc', Calls)
        /\ Apart({"pushers", "poppers"}, DataLabel) /\ (Resetting => Resetting')
        /\ \A w \in WaitList : Leaves(k', pc', k, pc, w, Calls.lists[w], t)
    BY <1>3, WorkerGoes DEF WaitsInv
  <2>2. PopWaits'
    BY <1>1, <1>2, <2>1, PopLeaves
  <2>3. PushWaits'
    <3>1. CASE k.wait["pushers"] = <<>>
      <4>1. OneMore(k', pc', k, pc, "pushers", Calls.lists["pushers"])
        BY <1>3, <3>1 DEF OneMore
      <4> QED BY <1>1, <1>2, <2>1, <4>1, PushMore
    <3>2. CASE ItemCount(dq') > LowMark
      <4>1. LowMark + 1 - ItemCount(dq') <= 0 /\ LowMark + 1 - ItemCount(dq') \in Int
        BY <1>1, <1>2, <3>2, CountsAre
      <4>2. Untold(k', "pushers")
        BY <1>3 DEF WaitsInv, PushWaits
      <4> QED BY <4>1, <4>2, PushIs, EnoughNone
    <3>3. ItemCount(dq') > LowMark \/ k.wait["pushers"] = <<>>
      BY <1>1, <1>2, <1>3, CountsAre DEF RoomIsMade
    <3> QED BY <3>1, <3>2, <3>3
  <2> QED BY <2>1, <2>2, <2>3 DEF DataStepGood
<1>4. CASE k.wait["pushers"] # <<>> /\ k' = WakeHead("pushers") /\ Goto(t, "resched")
  <2>1. l \notin Calls.lists["pushers"]
    BY <1>2, WorkingLabels
  <2>2. /\ Sound(k', pc', Calls)
        /\ Apart({"pushers", "poppers"}, DataLabel) /\ (Resetting => Resetting')
        /\ OneMore(k', pc', k, pc, "pushers", Calls.lists["pushers"])
        /\ \A w \in WaitList : w # "pushers" => Leaves(k', pc', k, pc, w, Calls.lists[w], t)
    BY <1>4, <2>1, WorkerWakes
  <2>3. PopWaits'
    BY <1>1, <1>2, <2>2, PopLeaves
  <2>4. PushWaits'
    BY <1>1, <1>2, <2>2, PushMore
  <2> QED BY <2>2, <2>3, <2>4 DEF DataStepGood
<1> QED
  BY <1>3, <1>4 DEF PopItem, RoomIsMade

LEMMA WaitToPopWaits ==
  ASSUME WaitsInv, QueueInv, NEW t \in Thread, NEW finite \in BOOLEAN,
         WaitToPop(t, finite), NEW l \in {"run", "pop"}, At(t, l), t # Idle
  PROVE  DataStepGood
<1>1. QueueInv' /\ dq' = dq
  BY QuietStep DEF WaitToPop
<1>2. ItemCount(dq') = ItemCount(dq)
  BY <1>1
<1>3. /\ ItemCount(dq) \in Int /\ "pushers" \in WaitList /\ "poppers" \in WaitList
      /\ "popping" \in Calls.lists["poppers"]
      /\ \A w \in WaitList : w # "poppers" => l \notin Calls.lists[w]
  BY <1>1, CountsAre, WorkingLabels
<1>4. /\ Sound(k', pc', Calls) /\ Untold(k', "poppers")
      /\ Apart({"pushers", "poppers"}, DataLabel) /\ (Resetting => Resetting')
      /\ \A w \in WaitList : w # "poppers" => Calm(k', pc', k, pc, w, Calls.lists[w])
  <2>1. SuspendsOn("poppers", t) /\ Goto(t, "popping")
    BY DEF WaitToPop, SuspendsOn
  <2> QED BY <1>3, <2>1, WorkerWaits
<1>5. PopWaits'
  <2>1. ItemCount(dq') <= 0 /\ ItemCount(dq') \in Int
    BY <1>1, <1>2, CountsAre DEF WaitToPop
  <2>2. Enough(k', pc', "poppers", Popping, ItemCount(dq'))
    BY <2>1, EnoughNone
  <2> QED BY <1>4, <2>2 DEF PopWaits, ItemCount
<1>6. PushWaits'
  BY <1>1, <1>2, <1>3, <1>4, PushCalm DEF Calm
<1> QED
  BY <1>4, <1>5, <1>6 DEF DataStepGood

\* A step that leaves the queue alone, and what was said of both lists.
LEMMA DataHolds ==
  ASSUME WaitsInv, QueueInv, Apart({"pushers", "poppers"}, DataLabel), UNCHANGED dataVars,
         Resetting => Resetting',
         \A w \in {"pushers", "poppers"} : AsMany(k', pc', k, pc, w, Calls.lists[w])
  PROVE  DataStepGood
<1>1. QueueInv' /\ dq' = dq
  BY QuietStep DEF dataVars
<1>2. ItemCount(dq') = ItemCount(dq)
  BY <1>1
<1>3. ItemCount(dq) \in Int
  BY <1>1, CountsAre
<1>4. /\ Sound(k', pc', Calls)
      /\ AsMany(k', pc', k, pc, "pushers", Calls.lists["pushers"])
      /\ AsMany(k', pc', k, pc, "poppers", Calls.lists["poppers"])
  BY DEF Apart
<1>5. PopWaits'
  BY <1>1, <1>2, <1>3, <1>4, PopCalm
<1>6. PushWaits'
  BY <1>1, <1>2, <1>3, <1>4, PushCalm
<1> QED
  BY <1>5, <1>6 DEF DataStepGood

LEMMA DataQuiet ==
  ASSUME WaitsInv, QueueInv, Apart({}, DataLabel), UNCHANGED dataVars, Resetting => Resetting'
  PROVE  DataStepGood
<1>1. \A w \in {"pushers", "poppers"} : AsMany(k', pc', k, pc, w, Calls.lists[w])
  BY WorkingLabels DEF Apart, Calm
<1>2. Apart({"pushers", "poppers"}, DataLabel)
  BY DEF Apart
<1> QED
  BY <1>1, <1>2, DataHolds

\* The two calls to the scheduler.
LEMMA DataSchedules ==
  ASSUME WaitsInv, QueueInv, NEW t \in Thread, PushSchedule(t) \/ PopSchedule(t)
  PROVE  DataStepGood
<1>1. ASSUME NEW from, NEW to, ScheduleThen(t, from, to), UNCHANGED dataVars,
             from \in Working, to \in Working, from \in Calls.out, to \in {"push", "pop"},
             \A w \in WaitList : from \in Calls.lists[w] <=> to \in Calls.lists[w]
      PROVE  DataStepGood
  <2>1. to \in Label /\ to \notin Calls.locked /\ Working \intersect ResetLabel = {}
        /\ Working \subseteq DataLabel
    BY <1>1, WorkingLabels
  <2>2. {from, to} \subseteq Working \union {"run", "resched"}
    BY <1>1
  <2>3. Apart({}, Working)
    BY <1>1, <2>1, <2>2, GoesOnCalm DEF WaitsInv
  <2>4. Resetting => Resetting'
    BY <2>1, <2>3, ResettingGoesOn
  <2>5. Apart({}, DataLabel)
    BY <2>1, <2>3 DEF Apart
  <2> QED BY <1>1, <2>4, <2>5, DataQuiet
<1>2. CASE PushSchedule(t)
  <2>1. "pushing" \in Working /\ "push" \in Working /\ "pushing" \in Calls.out
        /\ \A w \in WaitList : "pushing" \in Calls.lists[w] <=> "push" \in Calls.lists[w]
    BY WorkingLabels DEF Working, PushLabel
  <2> QED BY <1>1, <1>2, <2>1 DEF PushSchedule
<1>3. CASE PopSchedule(t)
  <2>1. "popping" \in Working /\ "pop" \in Working /\ "popping" \in Calls.out
        /\ \A w \in WaitList : "popping" \in Calls.lists[w] <=> "pop" \in Calls.lists[w]
    BY WorkingLabels DEF Working, Popping
  <2> QED BY <1>1, <1>3, <2>1 DEF PopSchedule
<1> QED
  BY <1>2, <1>3

LEMMA DataFailsWaits ==
  ASSUME WaitsInv, QueueInv, NEW t \in Thread, DataFails(t)
  PROVE  DataStepGood
<1>1. /\ t = k.cur /\ pc[t] \in {"push", "pop"} /\ t # Idle /\ k.err[t] # "EOK"
      /\ k' = k /\ pc' = [pc EXCEPT ![t] = "run"] /\ Goto(t, "run") /\ dq' = dq /\ popped' = popped
  BY DEF DataFails, At, Goto, WaitsInv, Sound
<1>2. CallsOK(Calls) /\ Sound(k, pc, Calls) /\ pc[t] \notin Calls.out /\ pc[t] \notin Calls.locked
  BY <1>1, WorkingLabels DEF WaitsInv
<1>3. Sound(k, pc', Calls) /\ \A w \in WaitList : Calm(k, pc', k, pc, w, Calls.lists[w])
  <2> DEFINE to == [pc EXCEPT ![t] = "run"]
  <2>1. to = [pc EXCEPT ![t] = "run"] /\ pc' = to
    BY <1>1
  <2> HIDE DEF to
  <2>2. Sound(k, to, Calls) /\ \A w \in WaitList : Calm(k, to, k, pc, w, Calls.lists[w])
    BY <1>1, <1>2, <2>1, SoundFails
  <2> QED BY <2>1, <2>2
<1>4. \A x \in Thread : pc'[x] = pc[x]
        \/ {pc[x], pc'[x]} \subseteq Working \union {"run", "resched"}
  <2>1. {pc[t], "run"} \subseteq Working \union {"run", "resched"}
    BY <1>1, WorkingLabels
  <2> QED BY <1>1, <1>2, <2>1, MovesOnly
<1>5. /\ Sound(k', pc', Calls)
      /\ \A w \in WaitList : Calm(k', pc', k, pc, w, Calls.lists[w])
  BY <1>1, <1>3
<1>6. Apart({}, Working) /\ Apart({}, DataLabel)
  BY <1>4, <1>5, WorkingLabels DEF Apart
<1>7. Resetting => Resetting'
  BY <1>6, WorkingLabels, ResettingGoesOn
<1>8. QueueInv' /\ ItemCount(dq') = ItemCount(dq)
  BY <1>1, QuietStep
<1>9. ItemCount(dq) \in Int /\ "pushers" \in WaitList /\ "poppers" \in WaitList
  BY <1>8, CountsAre, WorkingLabels
<1>10. PopWaits'
  BY <1>5, <1>8, <1>9, PopCalm DEF Calm
<1>11. PushWaits'
  BY <1>5, <1>7, <1>8, <1>9, PushCalm DEF Calm
<1> QED
  BY <1>6, <1>10, <1>11 DEF DataStepGood, Apart

-----------------------------------------------------------------------------
(* A push and a pop of an interrupt handler *)

LEMMA IsrWakesOne ==
  ASSUME WaitsInv, NEW w \in {"pushers", "poppers"}, k.wait[w] # <<>>,
         k' = rt_schedule(WakeHead(w)), pc' = pc
  PROVE  /\ Sound(k', pc', Calls) /\ Apart({w}, DataLabel) /\ (Resetting => Resetting')
         /\ OneMore(k', pc', k, pc, w, Calls.lists[w])
         /\ \A v \in WaitList : v # w => Calm(k', pc', k, pc, v, Calls.lists[v])
<1>1. /\ Sound(k, pc, Calls) /\ Untold(k, w) /\ w \in WaitList /\ CallsOK(Calls)
  BY WorkingLabels DEF WaitsInv, PopWaits, PushWaits
<1>2. HeadWoke(WakeHead(w), k, w, "EOK")
  <2>1. IpcInv(k)
    BY <1>1 DEF Sound
  <2> QED BY <1>1, <2>1, HeadResumed DEF WakeHead
<1>3. /\ Sound(k', pc', Calls)
      /\ OneMore(k', pc', k, pc, w, Calls.lists[w])
      /\ \A v \in WaitList : v # w => Calm(k', pc', k, pc, v, Calls.lists[v])
  <2> DEFINE u == WakeHead(w)
             r == rt_schedule(u)
  <2>1. HeadWoke(u, k, w, "EOK") /\ r = rt_schedule(u) /\ k' = r
    BY <1>2
  <2> HIDE DEF u, r
  <2>2. /\ Sound(r, pc, Calls)
        /\ OneMore(r, pc, k, pc, w, Calls.lists[w])
        /\ \A v \in WaitList : v # w => Calm(r, pc, k, pc, v, Calls.lists[v])
    BY <1>1, <2>1, SoundIsrWakes
  <2> QED BY <2>1, <2>2
<1> QED
  BY <1>3 DEF Apart, Resetting

LEMMA StaysCalm ==
  ASSUME WaitsInv, UNCHANGED <<k, pc>>
  PROVE  /\ Sound(k', pc', Calls) /\ Apart({}, DataLabel) /\ (Resetting => Resetting')
         /\ \A w \in WaitList : Calm(k', pc', k, pc, w, Calls.lists[w])
<1>1. Sound(k, pc, Calls)
  BY DEF WaitsInv
<1>2. \A w \in WaitList : Calm(k', pc', k, pc, w, Calls.lists[w])
  BY <1>1, CalmSame
<1> QED
  BY <1>1, <1>2 DEF Apart, Resetting

LEMMA IsrPushWaits ==
  ASSUME WaitsInv, QueueInv, NEW v \in Item, IsrPush(v)
  PROVE  DataStepGood
<1>1. QueueInv' /\ ItemCount(dq') = ItemCount(dq) + 1
  BY PutAppends DEF IsrPush
<1>2. /\ ItemCount(dq) \in Int /\ ItemCount(dq') \in Int
      /\ "pushers" \in WaitList /\ "poppers" \in WaitList
  BY <1>1, CountsAre, WorkingLabels
<1>3. /\ Sound(k', pc', Calls) /\ Apart({"poppers"}, DataLabel) /\ (Resetting => Resetting')
      /\ OneMore(k', pc', k, pc, "poppers", Calls.lists["poppers"])
      /\ Calm(k', pc', k, pc, "pushers", Calls.lists["pushers"])
  <2>1. CASE k.wait["poppers"] = <<>>
    BY <1>2, <2>1, StaysCalm DEF IsrPush, OneMore, Apart
  <2>2. CASE k.wait["poppers"] # <<>>
    <3>1. k' = rt_schedule(WakeHead("poppers")) /\ pc' = pc
      BY <2>2 DEF IsrPush
    <3> QED BY <1>2, <2>2, <3>1, IsrWakesOne
  <2> QED BY <2>1, <2>2
<1>4. PopWaits'
  BY <1>1, <1>2, <1>3, PopMore
<1>5. PushWaits'
  BY <1>1, <1>2, <1>3, PushCalm DEF Calm
<1> QED
  BY <1>3, <1>4, <1>5 DEF DataStepGood, Apart

LEMMA IsrPopWaits ==
  ASSUME WaitsInv, QueueInv, IsrPop
  PROVE  DataStepGood
<1>1. QueueInv' /\ ItemCount(dq') = ItemCount(dq) - 1 /\ dq' = GetItem
  BY GetTakesHead DEF IsrPop
<1>2. /\ ItemCount(dq) \in Int /\ ItemCount(dq') \in Int
      /\ "pushers" \in WaitList /\ "poppers" \in WaitList
  BY <1>1, CountsAre, WorkingLabels
<1>3. CASE ~RoomIsMade
  <2>1. /\ UNCHANGED <<k, pc>>
    BY <1>3 DEF IsrPop
  <2>2. /\ Sound(k', pc', Calls) /\ Apart({}, DataLabel) /\ (Resetting => Resetting')
        /\ \A w \in WaitList : Calm(k', pc', k, pc, w, Calls.lists[w])
    BY <2>1, StaysCalm
  <2>3. PopWaits'
    BY <1>1, <1>2, <2>2, PopCalm DEF Calm
  <2>4. PushWaits'
    <3>1. CASE k.wait["pushers"] = <<>>
      <4>1. OneMore(k', pc', k, pc, "pushers", Calls.lists["pushers"])
        BY <2>1, <3>1 DEF OneMore
      <4> QED BY <1>1, <1>2, <2>2, <4>1, PushMore
    <3>2. CASE ItemCount(dq') > LowMark
      <4>1. LowMark + 1 - ItemCount(dq') <= 0 /\ LowMark + 1 - ItemCount(dq') \in Int
        BY <1>1, <1>2, <3>2, CountsAre
      <4>2. Untold(k', "pushers")
        BY <2>1 DEF WaitsInv, PushWaits
      <4> QED BY <4>1, <4>2, PushIs, EnoughNone
    <3>3. ItemCount(dq') > LowMark \/ k.wait["pushers"] = <<>>
      BY <1>1, <1>2, <1>3, CountsAre DEF RoomIsMade
    <3> QED BY <3>1, <3>2, <3>3
  <2> QED BY <2>2, <2>3, <2>4 DEF DataStepGood, Apart
<1>4. CASE RoomIsMade
  <2>1. k' = rt_schedule(WakeHead("pushers")) /\ pc' = pc /\ k.wait["pushers"] # <<>>
    BY <1>4 DEF IsrPop, RoomIsMade
  <2>2. /\ Sound(k', pc', Calls) /\ Apart({"pushers"}, DataLabel) /\ (Resetting => Resetting')
        /\ OneMore(k', pc', k, pc, "pushers", Calls.lists["pushers"])
        /\ Calm(k', pc', k, pc, "poppers", Calls.lists["poppers"])
    BY <1>2, <2>1, IsrWakesOne
  <2>3. PopWaits'
    BY <1>1, <1>2, <2>2, PopCalm DEF Calm
  <2>4. PushWaits'
    BY <1>1, <1>2, <2>2, PushMore
  <2> QED BY <2>2, <2>3, <2>4 DEF DataStepGood, Apart
<1> QED
  BY <1>3, <1>4

-----------------------------------------------------------------------------
(* A reset *)

LEMMA ResetLabels ==
  /\ CallsOK(Calls) /\ "run" \notin ResetLabel /\ "resched" \in Label
  /\ "run" \notin Calls.out /\ "run" \notin Calls.locked
  /\ \A w \in WaitList : "run" \notin Calls.lists[w]
  /\ \A l \in ResetLabel : /\ l \in Label /\ l \in DataLabel /\ l \notin Calls.out
                           /\ l \in Calls.locked <=> l # "emptied"
                           /\ \A w \in WaitList : l \notin Calls.lists[w]
<1>1. \A l \in ResetLabel, w \in WaitList : l \notin Calls.lists[w]
  BY DEF ResetLabel, Calls, SemLabel, EventLabel, PoolLabel, PushLabel, Popping
<1> QED
  BY <1>1, CallsAre DEF CallsOK, ResetLabel, DataLabel, Label

\* The reset goes on, and wakes nobody.
LEMMA ResetGoes ==
  ASSUME WaitsInv, NEW t \in Thread \ {Idle}, k.cur = t, UNCHANGED k, NEW l \in ResetLabel,
         Goto(t, l), pc[t] \in ResetLabel \union {"run"},
         pc[t] \in {"run", "emptied"} <=> l = "emptied"
  PROVE  Apart({}, DataLabel) /\ Resetting'
<1>1. /\ Sound(k, pc, Calls) /\ l \in Label /\ pc[t] \notin Calls.out
      /\ (pc[t] \in Calls.locked <=> l \in Calls.locked)
      /\ \A w \in WaitList : l \notin Calls.lists[w]
      /\ \A w \in WaitList : pc[t] \notin Calls.lists[w]
      /\ {pc[t], l} \subseteq DataLabel \union {"run", "resched"}
  BY ResetLabels DEF WaitsInv
<1>2. Apart({w \in WaitList : pc[t] \in Calls.lists[w]}, DataLabel)
  BY <1>1, GoesCalm
<1>3. {w \in WaitList : pc[t] \in Calls.lists[w]} = {}
  BY <1>1
<1>4. pc'[t] \in ResetLabel
  BY <1>1 DEF Goto, Sound
<1> QED
  BY <1>2, <1>3, <1>4 DEF Resetting

LEMMA EmptyQueueWaits ==
  ASSUME WaitsInv, QueueInv, NEW t \in Thread, EmptyQueue(t)
  PROVE  DataStepGood
<1>1. /\ t \in Thread \ {Idle} /\ k.cur = t /\ pc[t] = "run" /\ Goto(t, "emptied") /\ UNCHANGED k
  BY DataQueueAssumption DEF EmptyQueue, At
<1>2. Apart({}, DataLabel) /\ Resetting'
  <2>1. "emptied" \in ResetLabel
    BY DEF ResetLabel
  <2> QED BY <1>1, <2>1, ResetGoes
<1>3. QueueInv' /\ ItemCount(dq') = 0
  BY EmptiedQueue DEF EmptyQueue
<1>4. PopWaits'
  <2>1. ItemCount(dq') <= 0 /\ ItemCount(dq') \in Int
    BY <1>3
  <2>2. Enough(k', pc', "poppers", Popping, ItemCount(dq'))
    BY <2>1, EnoughNone
  <2>3. Untold(k', "poppers")
    BY <1>1 DEF WaitsInv, PopWaits
  <2> QED BY <2>2, <2>3 DEF PopWaits, ItemCount
<1>5. PushWaits'
  <2>1. Untold(k', "pushers")
    BY <1>1 DEF WaitsInv, PushWaits
  <2> QED BY <1>2, <2>1, PushIs
<1> QED
  BY <1>2, <1>4, <1>5 DEF DataStepGood, Apart

LEMMA LockWaits ==
  ASSUME WaitsInv, QueueInv, NEW t \in Thread, LockToWake(t)
  PROVE  DataStepGood
<1>1. /\ Sound(k, pc, Calls) /\ k.cur = t /\ pc[t] = "emptied" /\ t # Idle
      /\ Goto(t, "testpop") /\ pc' = [pc EXCEPT ![t] = "testpop"] /\ UNCHANGED dataVars
  BY DEF LockToWake, At, Goto, WaitsInv, Sound
<1>2. {"emptied", "testpop"} \subseteq ResetLabel
  BY DEF ResetLabel
<1>3. /\ CallsOK(Calls) /\ pc[t] \notin Calls.out /\ "testpop" \in Calls.labels
      /\ "testpop" \in Calls.locked /\ pc[t] \notin Calls.locked
      /\ \A w \in WaitList : "testpop" \notin Calls.lists[w]
      /\ \A w \in WaitList : pc[t] \notin Calls.lists[w]
      /\ {pc[t], "testpop"} \subseteq DataLabel \union {"run", "resched"}
  BY <1>1, <1>2, ResetLabels, CallsAre
<1>4. LockedAs(k', k, "testpop", Calls)
  <2>1. k.lock = 0
    BY <1>1, <1>3 DEF Sound, LockFits
  <2> QED BY <1>3, <2>1 DEF LockToWake, LockedAs
<1>5. /\ Sound(k', pc', Calls)
      /\ \A w \in WaitList : Calm(k', pc', k, pc, w, Calls.lists[w])
  <2> DEFINE l == "testpop"
             to == [pc EXCEPT ![t] = l]
  <2>1. /\ to = [pc EXCEPT ![t] = l] /\ l \in Calls.labels
        /\ \A w \in WaitList : l \notin Calls.lists[w]
    BY <1>3
  <2>2. t = k.cur /\ LockedAs(k', k, l, Calls) /\ pc' = to
    BY <1>1, <1>4
  <2> HIDE DEF l, to
  <2>3. /\ Sound(k', to, Calls)
        /\ \A w \in WaitList : pc[t] \notin Calls.lists[w]
                                 => Calm(k', to, k, pc, w, Calls.lists[w])
    BY <1>1, <1>3, <2>1, <2>2, SoundLocks
  <2> QED BY <1>3, <2>2, <2>3
<1>6. Apart({}, DataLabel)
  <2>1. \A x \in Thread : pc'[x] = pc[x]
          \/ {pc[x], pc'[x]} \subseteq DataLabel \union {"run", "resched"}
    BY <1>1, <1>3, MovesOnly
  <2> QED BY <1>5, <2>1 DEF Apart
<1>7. Resetting'
  <2>1. pc'[t] \in ResetLabel
    BY <1>1, <1>2 DEF Sound
  <2> QED BY <2>1 DEF Resetting
<1> QED
  BY <1>1, <1>6, <1>7, DataQuiet

\* It wakes a thread with an error, or loses its way.
LEMMA WakeWaiterWaits ==
  ASSUME WaitsInv, QueueInv, NEW t \in Thread, NEW w \in {"poppers", "pushers"}, WakeWaiter(t, w)
  PROVE  DataStepGood
<1> DEFINE at == WakeAt[w]
           l == TestAt[w]
<1>1. /\ at \in ResetLabel /\ l \in ResetLabel /\ at \notin {"emptied", "run"} /\ l # "emptied"
      /\ "wrecked" \in ResetLabel
  BY DEF WakeAt, TestAt, ResetLabel
<1>2. /\ k.cur = t /\ pc[t] = at
      /\ \/ /\ k.wait[w] # <<>>
            /\ k' = rt_thread_resume([k EXCEPT !.err[Head(k.wait[w])] = "ERROR"], Head(k.wait[w]))
            /\ Goto(t, l)
         \/ k.wait[w] = <<>> /\ Goto(t, "wrecked") /\ UNCHANGED k
      /\ UNCHANGED dataVars
  BY DEF WakeWaiter, At
<1> HIDE DEF at, l
<1>3. t \in Thread \ {Idle} /\ Sound(k, pc, Calls)
  BY <1>1, <1>2 DEF WaitsInv, Sound
<1>4. CASE k.wait[w] = <<>> /\ Goto(t, "wrecked") /\ UNCHANGED k
  <2>1. Apart({}, DataLabel) /\ Resetting'
    BY <1>1, <1>2, <1>3, <1>4, ResetGoes
  <2> QED BY <1>2, <2>1, DataQuiet
<1>5. CASE /\ k.wait[w] # <<>>
           /\ k' = rt_thread_resume([k EXCEPT !.err[Head(k.wait[w])] = "ERROR"], Head(k.wait[w]))
           /\ Goto(t, l)
  <2>1. w \in WaitList /\ IpcInv(k) /\ "ERROR" \in Error /\ CallsOK(Calls)
    BY <1>3, WorkingLabels DEF Sound, Error
  <2>2. HeadWoke(k', k, w, "ERROR")
    <3>1. HeadWoke(ResumeHead(k, w, "ERROR"), k, w, "ERROR")
      BY <1>5, <2>1, HeadTold
    <3> QED BY <1>5, <3>1 DEF ResumeHead
  <2>3. /\ pc[t] \notin Calls.out /\ l \in Calls.labels /\ (pc[t] \in Calls.locked <=> l \in Calls.locked)
        /\ \A v \in WaitList : l \notin Calls.lists[v]
        /\ \A v \in WaitList : pc[t] \notin Calls.lists[v]
        /\ {pc[t], l} \subseteq DataLabel \union {"run", "resched"}
    BY <1>1, <1>2, ResetLabels, CallsAre
  <2>4. /\ Sound(k', pc', Calls)
        /\ \A v \in WaitList : v # w => Calm(k', pc', k, pc, v, Calls.lists[v])
        /\ AsMany(k', pc', k, pc, w, Calls.lists[w])
    <3> DEFINE e == "ERROR"
               to == [pc EXCEPT ![t] = l]
    <3>1. /\ to = [pc EXCEPT ![t] = l] /\ pc' = to /\ e # "EOK" /\ e \in Error
          /\ HeadWoke(k', k, w, e) /\ t = k.cur /\ t # Idle
      BY <1>2, <1>3, <1>5, <2>1, <2>2 DEF Goto
    <3> HIDE DEF e, to
    <3>2. /\ Sound(k', to, Calls)
          /\ IF e = "EOK" THEN OneMore(k', to, k, pc, w, Calls.lists[w])
                          ELSE AsMany(k', to, k, pc, w, Calls.lists[w])
          /\ \A v \in WaitList : v # w /\ pc[t] \notin Calls.lists[v]
                                   => Calm(k', to, k, pc, v, Calls.lists[v])
      BY <1>3, <2>1, <2>3, <3>1, SoundWakesTo
    <3> QED BY <2>3, <3>1, <3>2
  <2>5. Apart({"pushers", "poppers"}, DataLabel)
    <3>1. \A x \in Thread : pc'[x] = pc[x]
            \/ {pc[x], pc'[x]} \subseteq DataLabel \union {"run", "resched"}
      BY <1>3, <1>5, <2>3, MovesOnly
    <3> QED BY <2>4, <3>1 DEF Apart
  <2>7. \A v \in {"pushers", "poppers"} : AsMany(k', pc', k, pc, v, Calls.lists[v])
    BY <2>4, WorkingLabels DEF Calm
  <2>6. Resetting'
    <3>1. pc'[t] \in ResetLabel
      BY <1>1, <1>3, <1>5 DEF Sound, Goto
    <3> QED BY <3>1 DEF Resetting
  <2> QED BY <1>2, <2>5, <2>6, <2>7, DataHolds
<1> QED
  BY <1>2, <1>4, <1>5

\* The reset ends: nobody waits for room any more.
LEMMA PushersWokenWaits ==
  ASSUME WaitsInv, QueueInv, NEW t \in Thread, PushersWoken(t)
  PROVE  DataStepGood
<1>1. /\ Sound(k, pc, Calls) /\ k.cur = t /\ pc[t] = "testpush" /\ t # Idle
      /\ Goto(t, "resched") /\ pc' = [pc EXCEPT ![t] = "resched"] /\ UNCHANGED dataVars
      /\ k.wait["pushers"] = <<>>
  BY DEF PushersWoken, At, Goto, WaitsInv, Sound
<1>2. "testpush" \in ResetLabel
  BY DEF ResetLabel
<1>3. /\ CallsOK(Calls) /\ pc[t] \notin Calls.out /\ pc[t] \in Calls.locked
      /\ \A w \in WaitList : pc[t] \notin Calls.lists[w]
      /\ {pc[t], "resched"} \subseteq DataLabel \union {"run", "resched"}
  BY <1>1, <1>2, ResetLabels
<1>4. /\ Sound(k', pc', Calls) /\ k'.wait = k.wait
      /\ \A w \in WaitList : Calm(k', pc', k, pc, w, Calls.lists[w])
  <2> DEFINE r == rt_schedule([k EXCEPT !.lock = @ - 1])
             to == [pc EXCEPT ![t] = "resched"]
  <2>1. /\ r = rt_schedule([k EXCEPT !.lock = @ - 1]) /\ to = [pc EXCEPT ![t] = "resched"]
        /\ k' = r /\ pc' = to /\ t = k.cur
    BY <1>1 DEF PushersWoken
  <2> HIDE DEF r, to
  <2>2. /\ Sound(r, to, Calls) /\ r.wait = k.wait
        /\ \A w \in WaitList : pc[t] \notin Calls.lists[w]
                                 => Calm(r, to, k, pc, w, Calls.lists[w])
    BY <1>1, <1>3, <2>1, SoundUnlocks
  <2> QED BY <1>3, <2>1, <2>2
<1>5. Apart({}, DataLabel)
  <2>1. \A x \in Thread : pc'[x] = pc[x]
          \/ {pc[x], pc'[x]} \subseteq DataLabel \union {"run", "resched"}
    BY <1>1, <1>3, MovesOnly
  <2> QED BY <1>4, <2>1 DEF Apart
<1>6. QueueInv' /\ ItemCount(dq') = ItemCount(dq)
  BY <1>1, QuietStep DEF dataVars
<1>7. ItemCount(dq) \in Int /\ "pushers" \in WaitList /\ "poppers" \in WaitList
  BY <1>6, CountsAre, WorkingLabels
<1>8. PopWaits'
  BY <1>4, <1>6, <1>7, PopCalm DEF Calm
<1>9. PushWaits'
  <2>1. k'.wait["pushers"] = <<>>
    BY <1>1, <1>4
  <2>2. Enough(k', pc', "pushers", PushLabel, LowMark + 1 - ItemCount(dq'))
    BY <2>1 DEF Enough
  <2>3. Untold(k', "pushers")
    BY <2>1 DEF Untold, On, Contains
  <2> QED BY <2>2, <2>3, PushIs
<1> QED
  BY <1>5, <1>8, <1>9 DEF DataStepGood, Apart

LEMMA DataStepWaits ==
  ASSUME WaitsInv, DataInv, DataNext
  PROVE  DataStepGood
<1>1. QueueInv /\ Sound(k, pc, Calls)
  BY DEF DataInv, WaitsInv
<1>2. ASSUME NEW t \in Thread, NEW v \in Item, Push(t, v) PROVE DataStepGood
  <2>1. At(t, "run") /\ t # Idle
    BY <1>2, DataQueueAssumption DEF Push
  <2> QED BY <1>1, <1>2, <2>1, PushItemWaits, WaitToPushWaits DEF Push
<1>3. ASSUME NEW t \in Thread, PushAgain(t) PROVE DataStepGood
  <2>1. At(t, "push") /\ t # Idle /\ calling[t].item \in Item /\ calling[t].finite \in BOOLEAN
    BY <1>1, <1>3 DEF PushAgain, At, Sound, DataInv, PushInv, PushLabel
  <2> DEFINE v == calling[t].item
             finite == calling[t].finite
  <2>2. v \in Item /\ finite \in BOOLEAN /\ (PushItem(t, v) \/ WaitToPush(t, v, finite))
    BY <1>3, <2>1 DEF PushAgain
  <2> HIDE DEF v, finite
  <2> QED BY <1>1, <2>1, <2>2, PushItemWaits, WaitToPushWaits
<1>4. ASSUME NEW t \in Thread, Pop(t) PROVE DataStepGood
  <2>1. At(t, "run") /\ t # Idle
    BY <1>4, DataQueueAssumption DEF Pop
  <2> QED BY <1>1, <1>4, <2>1, PopItemWaits, WaitToPopWaits DEF Pop
<1>5. ASSUME NEW t \in Thread, PopAgain(t) PROVE DataStepGood
  <2>1. At(t, "pop") /\ t # Idle /\ calling[t].finite \in BOOLEAN
    BY <1>1, <1>5 DEF PopAgain, At, Sound, DataInv, PushInv
  <2> DEFINE finite == calling[t].finite
  <2>2. finite \in BOOLEAN /\ (PopItem(t) \/ WaitToPop(t, finite))
    BY <1>5, <2>1 DEF PopAgain
  <2> HIDE DEF finite
  <2> QED BY <1>1, <2>1, <2>2, PopItemWaits, WaitToPopWaits
<1>6. ASSUME NEW t \in Thread, PoppersWoken(t) PROVE DataStepGood
  <2>1. /\ k.cur = t /\ pc[t] = "testpop" /\ Goto(t, "testpush") /\ UNCHANGED k
        /\ UNCHANGED dataVars /\ {"testpop", "testpush"} \subseteq ResetLabel
    BY <1>6 DEF PoppersWoken, At, ResetLabel
  <2>2. t \in Thread \ {Idle}
    BY <1>1, <2>1 DEF Sound
  <2>3. Apart({}, DataLabel) /\ Resetting'
    BY <2>1, <2>2, ResetGoes
  <2> QED BY <1>1, <2>1, <2>3, DataQuiet
<1>7. ASSUME NEW t \in Thread, NEW w \in {"poppers", "pushers"}, FindWaiter(t, w)
      PROVE  DataStepGood
  <2> DEFINE at == TestAt[w]
             l == WakeAt[w]
  <2>1. at \in ResetLabel \ {"emptied", "run"} /\ l \in ResetLabel \ {"emptied"}
    BY DEF WakeAt, TestAt, ResetLabel
  <2>2. k.cur = t /\ pc[t] = at /\ Goto(t, l) /\ UNCHANGED k /\ UNCHANGED dataVars
    BY <1>7 DEF FindWaiter, At
  <2> HIDE DEF at, l
  <2>3. t \in Thread \ {Idle}
    BY <1>1, <2>1, <2>2 DEF Sound
  <2>4. Apart({}, DataLabel) /\ Resetting'
    BY <2>1, <2>2, <2>3, ResetGoes
  <2> QED BY <1>1, <2>2, <2>4, DataQuiet
<1>8. ASSUME NEW t \in Thread,
             PushSchedule(t) \/ PopSchedule(t) \/ DataFails(t) \/ EmptyQueue(t)
               \/ LockToWake(t) \/ PushersWoken(t)
      PROVE  DataStepGood
  BY <1>1, <1>8, DataSchedules, DataFailsWaits, EmptyQueueWaits, LockWaits, PushersWokenWaits
<1> QED
  BY <1>1, <1>2, <1>3, <1>4, <1>5, <1>6, <1>7, <1>8, IsrPushWaits, IsrPopWaits,
     WakeWaiterWaits DEF DataNext

-----------------------------------------------------------------------------
(* The serial port *)

SerialLists == {"sem", "rx_cpt", "tx_cpt"}
SerialLabel == SemLabel \union RxLabel \union TxLabel

\* Where a thread of a port waits for nothing, and where it goes on from.
PortLabel == {"nobyte", "index", "mirror", "length", "ask", "await", "fetch", "given",
              "start", "more", "transmit", "txawait", "run"}
PortStops == PortLabel \union {"waited", "txwaited"}

\* What every step of the serial port keeps; own are the lists it works on, labels
\* those of the threads it moves.
PortStep(own, labels) == Apart(own, labels) /\ SemGood /\ CptWaits'

\* The labels of the threads that wait for completion w.
WayLabel(w) == IF w = "rx_cpt" THEN RxLabel ELSE TxLabel

ShellStepGood  == PortStep({"sem"}, SemLabel \union {"nobyte"})
ReaderStepGood == PortStep({"rx_cpt"}, RxLabel)
SenderStepGood == PortStep({"tx_cpt"}, TxLabel)
SerialStepGood == PortStep(SerialLists, SerialLabel)

LEMMA PortLabels ==
  /\ CallsOK(Calls) /\ SerialLists \subseteq WaitList
  /\ \A l \in PortLabel : l \in Label /\ \A w \in WaitList : l \notin Calls.lists[w]
  /\ \A l \in PortStops : /\ l \notin Calls.out /\ l \notin Calls.locked
                          /\ l \in SerialLabel \union {"run", "resched"}
                          /\ \A w \in WaitList : l \in Calls.lists[w] => w \in {"rx_cpt", "tx_cpt"}
  /\ "await" \in PortLabel /\ "txawait" \in PortLabel
<1>1. \A l \in PortLabel, w \in WaitList : l \notin Calls.lists[w]
  BY DEF PortLabel, Calls, SemLabel, EventLabel, PoolLabel, PushLabel, Popping
<1>2. SerialLists \subseteq WaitList
  BY CallsAre DEF SerialLists
<1>3. /\ \A w \in WaitList : "waited" \in Calls.lists[w] => w = "rx_cpt"
      /\ \A w \in WaitList : "txwaited" \in Calls.lists[w] => w = "tx_cpt"
  <2>1. "waited" \in Calls.lists["rx_cpt"] /\ "txwaited" \in Calls.lists["tx_cpt"]
        /\ "rx_cpt" \in WaitList /\ "tx_cpt" \in WaitList
    BY CallsAre
  <2> QED BY <2>1, OwnList
<1>4. \A l \in PortStops, w \in WaitList : l \in Calls.lists[w] => w \in {"rx_cpt", "tx_cpt"}
  BY <1>1, <1>3 DEF PortStops
<1>5. /\ \A l \in PortLabel : l \in Label
      /\ \A l \in PortStops : l \in SerialLabel \union {"run", "resched"}
  BY DEF PortStops, PortLabel, Label, SerialLabel, RxLabel, TxLabel
<1>6. \A l \in PortStops : l \notin Calls.out /\ l \notin Calls.locked
  BY CallsAre DEF PortStops, PortLabel
<1> QED
  BY <1>1, <1>2, <1>4, <1>5, <1>6, CallsAre DEF PortLabel

\* What is said of the completions is kept when their lists grow no longer.
LEMMA CptKept ==
  ASSUME WaitsInv, Fewer(k', k, "rx_cpt"), Fewer(k', k, "tx_cpt")
  PROVE  CptWaits'
BY FewerUntold DEF WaitsInv, CptWaits

LEMMA PortMore ==
  ASSUME NEW A, NEW B, NEW X, NEW Y, A \subseteq B, X \subseteq Y, PortStep(A, X)
  PROVE  PortStep(B, Y)
BY DEF PortStep, Apart

\* A label of one direction is not of the list of the other one.
LEMMA OwnWay ==
  ASSUME NEW w \in {"rx_cpt", "tx_cpt"}
  PROVE  /\ w \in WaitList /\ w # "sem"
         /\ \A l \in WayLabel(w) \union {"run"}, v \in WaitList : l \in Calls.lists[v] => v = w
<1>1. w \in WaitList /\ w # "sem"
  BY CallsAre
<1>2. \A l \in RxLabel \union {"run"}, v \in WaitList : l \in Calls.lists[v] => v = "rx_cpt"
  BY DEF Calls, RxLabel, SemLabel, EventLabel, PoolLabel, PushLabel, Popping
<1>3. \A l \in TxLabel \union {"run"}, v \in WaitList : l \in Calls.lists[v] => v = "tx_cpt"
  BY DEF Calls, TxLabel, SemLabel, EventLabel, PoolLabel, PushLabel, Popping
<1> QED
  BY <1>1, <1>2, <1>3 DEF WayLabel

\* A step that only the semaphore can tell.
LEMMA SemIsSerial ==
  ASSUME WaitsInv, NEW labels, Apart({"sem"}, labels), SemGood
  PROVE  PortStep({"sem"}, labels)
<1>1. Fewer(k', k, "rx_cpt") /\ Fewer(k', k, "tx_cpt")
  BY CallsAre DEF Apart, Calm, AsMany
<1>2. CptWaits'
  BY <1>1, CptKept
<1> QED
  BY <1>2 DEF PortStep

LEMMA PortStays ==
  ASSUME WaitsInv, UNCHANGED <<k, pc, sem>>
  PROVE  PortStep({}, {})
<1>1. Sound(k, pc, Calls)
  BY DEF WaitsInv
<1>2. \A w \in WaitList : Calm(k', pc', k, pc, w, Calls.lists[w])
  BY <1>1, CalmSame
<1>3. Apart({}, {}) /\ CptWaits'
  BY <1>1, <1>2 DEF Apart, WaitsInv, CptWaits
<1>4. SemGood
  BY <1>1, <1>2, SemKept, CallsAre
<1> QED
  BY <1>3, <1>4 DEF PortStep

LEMMA PortGoes ==
  ASSUME WaitsInv, NEW t \in Thread \ {Idle}, k.cur = t, UNCHANGED <<k, sem>>,
         pc[t] \in PortStops, NEW l \in PortLabel, Goto(t, l),
         NEW own, "sem" \notin own, \A v \in WaitList : pc[t] \in Calls.lists[v] => v \in own,
         NEW labels, {pc[t], l} \subseteq labels \union {"run"}
  PROVE  PortStep(own, labels)
<1>1. /\ Sound(k, pc, Calls) /\ l \in Label /\ pc[t] \notin Calls.out
      /\ (pc[t] \in Calls.locked <=> l \in Calls.locked)
      /\ \A v \in WaitList : l \notin Calls.lists[v]
      /\ {pc[t], l} \subseteq labels \union {"run", "resched"}
  BY PortLabels DEF WaitsInv, PortStops
<1>2. Apart({v \in WaitList : pc[t] \in Calls.lists[v]}, labels)
  BY <1>1, GoesCalm
<1>3. Apart(own, labels)
  BY <1>2 DEF Apart
<1>4. Sound(k', pc', Calls) /\ Calm(k', pc', k, pc, "sem", Calls.lists["sem"])
  BY <1>3, CallsAre DEF Apart
<1>5. SemGood
  BY <1>4, SemKept
<1> QED
  BY <1>3, <1>5 DEF PortStep, WaitsInv, CptWaits

\* A thread of one direction goes on.
LEMMA WayGoes ==
  ASSUME WaitsInv, NEW t \in Thread \ {Idle}, NEW from \in PortStops, At(t, from),
         NEW to \in PortLabel, Goto(t, to), UNCHANGED <<k, sem>>,
         NEW w \in {"rx_cpt", "tx_cpt"}, {from, to} \subseteq WayLabel(w) \union {"run"}
  PROVE  PortStep({w}, WayLabel(w))
<1>1. /\ k.cur = t /\ pc[t] = from /\ "sem" \notin {w}
      /\ \A v \in WaitList : pc[t] \in Calls.lists[v] => v \in {w}
  BY OwnWay DEF At
<1>2. {pc[t], to} \subseteq WayLabel(w) \union {"run"}
  BY <1>1
<1> QED
  BY <1>1, <1>2, PortGoes

\* A thread waits for a completion.
LEMMA PortWaits ==
  ASSUME WaitsInv, NEW t \in Thread \ {Idle}, k.cur = t, pc[t] \in {"await", "txawait"},
         NEW w \in {"rx_cpt", "tx_cpt"}, Suspend(t, w), UNCHANGED sem,
         NEW to \in {"waiting", "txwaiting"}, to \in Calls.lists[w], Goto(t, to),
         {pc[t], to} \subseteq WayLabel(w)
  PROVE  PortStep({w}, WayLabel(w))
<1>1. /\ Sound(k, pc, Calls) /\ Untold(k, w) /\ w \in WaitList /\ CallsOK(Calls)
      /\ pc[t] \notin Calls.out /\ pc[t] \notin Calls.locked
      /\ to \in Calls.labels /\ to \in Calls.out
      /\ \A v \in WaitList : pc[t] \notin Calls.lists[v]
      /\ {pc[t], to} \subseteq WayLabel(w) \union {"run", "resched"}
  <2>1. pc[t] \in PortLabel /\ pc[t] \in PortStops
    BY DEF PortLabel, PortStops
  <2> QED BY <2>1, PortLabels, CallsAre DEF WaitsInv, CptWaits, Label, RxLabel, TxLabel
<1>2. Suspended(k', k, w, t)
  BY <1>1 DEF Suspended, Suspend, Error
<1>3. Untold(k', w)
  <2> DEFINE flag == "FIFO"
             finite == FALSE
             r == SuspendTimed([k EXCEPT !.err[t] = "EOK"], w, flag, t, finite)
  <2>1. flag \in {"FIFO", "PRIO"} /\ t = k.cur /\ t # Idle /\ finite \in BOOLEAN
        /\ r = SuspendTimed([k EXCEPT !.err[t] = "EOK"], w, flag, t, finite)
    BY <1>1
  <2>2. k' = r
    BY DEF Suspend
  <2> HIDE DEF flag, finite, r
  <2>3. Untold(r, w)
    BY <1>1, <2>1, SuspendUntold
  <2> QED BY <2>2, <2>3
<1>4. /\ Sound(k', pc', Calls)
      /\ \A v \in WaitList : v # w => Leaves(k', pc', k, pc, v, Calls.lists[v], t)
      /\ \A v \in WaitList : v # w => Calm(k', pc', k, pc, v, Calls.lists[v])
  <2> DEFINE n == [pc EXCEPT ![t] = to]
  <2>1. t = k.cur /\ n = [pc EXCEPT ![t] = to] /\ pc' = n /\ t # Idle
    BY <1>1 DEF Goto
  <2> HIDE DEF n
  <2>2. /\ Sound(k', n, Calls)
        /\ \A v \in WaitList : v # w => Leaves(k', n, k, pc, v, Calls.lists[v], t)
        /\ \A v \in WaitList : v # w /\ pc[t] \notin Calls.lists[v]
                                 => Calm(k', n, k, pc, v, Calls.lists[v])
    BY <1>1, <1>2, <2>1, SoundSuspends
  <2> QED BY <1>1, <2>1, <2>2
<1>5. Apart({w}, WayLabel(w))
  <2>1. \A x \in Thread : pc'[x] = pc[x]
          \/ {pc[x], pc'[x]} \subseteq WayLabel(w) \union {"run", "resched"}
    BY <1>1, MovesOnly
  <2> QED BY <1>4, <2>1 DEF Apart
<1>6. SemGood
  <2>1. Calm(k', pc', k, pc, "sem", Calls.lists["sem"])
    BY <1>4, CallsAre
  <2> QED BY <1>4, <2>1, SemKept
<1>7. CptWaits'
  <2>1. \A v \in {"rx_cpt", "tx_cpt"} : v # w => Untold(k', v)
    <3> SUFFICES ASSUME NEW v \in {"rx_cpt", "tx_cpt"}, v # w PROVE Untold(k', v)
      OBVIOUS
    <3>1. Untold(k, v) /\ Fewer(k', k, v)
      BY <1>4, CallsAre DEF Calm, WaitsInv, CptWaits, AsMany, Stay
    <3> QED BY <3>1, FewerUntold
  <2> QED BY <1>3, <2>1 DEF CptWaits
<1> QED
  BY <1>5, <1>6, <1>7 DEF PortStep

\* A handler completes.
LEMMA PortCompletes ==
  ASSUME WaitsInv, NEW done, NEW w \in {"rx_cpt", "tx_cpt"}, Complete(done, w), UNCHANGED <<pc, sem>>
  PROVE  PortStep({w}, {})
<1>1. CASE k' = k
  <2>1. PortStep({}, {})
    BY <1>1, PortStays
  <2> QED BY <2>1, PortMore
<1>2. CASE k.wait[w] # <<>> /\ k' = rt_schedule(rt_thread_resume(k, Head(k.wait[w])))
  <2>1. /\ Sound(k, pc, Calls) /\ Untold(k, w) /\ w \in WaitList /\ CallsOK(Calls) /\ IpcInv(k)
    BY CallsAre DEF WaitsInv, CptWaits, Sound
  <2>2. /\ Sound(k', pc', Calls)
        /\ OneMore(k', pc', k, pc, w, Calls.lists[w])
        /\ \A v \in WaitList : v # w => Calm(k', pc', k, pc, v, Calls.lists[v])
    <3> DEFINE u == rt_thread_resume(k, Head(k.wait[w]))
               r == rt_schedule(u)
    <3>1. HeadWoke(u, k, w, "EOK")
      BY <1>2, <2>1, HeadResumed
    <3>2. r = rt_schedule(u) /\ k' = r
      BY <1>2
    <3> HIDE DEF u, r
    <3>3. /\ Sound(r, pc, Calls)
          /\ OneMore(r, pc, k, pc, w, Calls.lists[w])
          /\ \A v \in WaitList : v # w => Calm(r, pc, k, pc, v, Calls.lists[v])
      BY <2>1, <3>1, <3>2, SoundIsrWakes
    <3> QED BY <3>2, <3>3
  <2>3. Apart({w}, {})
    BY <2>2 DEF Apart
  <2>4. SemGood
    <3>1. Calm(k', pc', k, pc, "sem", Calls.lists["sem"])
      BY <2>2, CallsAre
    <3> QED BY <2>2, <3>1, SemKept
  <2>5. CptWaits'
    <3>1. \A v \in {"rx_cpt", "tx_cpt"} : v # w => Untold(k', v)
      <4> SUFFICES ASSUME NEW v \in {"rx_cpt", "tx_cpt"}, v # w PROVE Untold(k', v)
        OBVIOUS
      <4>1. Untold(k, v) /\ Fewer(k', k, v)
        BY <2>2, CallsAre DEF Calm, WaitsInv, CptWaits, AsMany, Stay
      <4> QED BY <4>1, FewerUntold
    <3>2. Untold(k', w)
      BY <2>1, <2>2, OneMoreUntold
    <3> QED BY <3>1, <3>2 DEF CptWaits
  <2> QED BY <2>3, <2>4, <2>5 DEF PortStep
<1> QED
  BY <1>1, <1>2 DEF Complete

\* It comes back from rt_schedule, in the wait for a completion.
LEMMA PortGoesOn ==
  ASSUME WaitsInv, NEW t \in Thread, NEW w \in {"rx_cpt", "tx_cpt"}, UNCHANGED sem,
         NEW from, NEW to, ScheduleThen(t, from, to),
         from \in {"waiting", "txwaiting"}, to \in {"waited", "txwaited"},
         {from, to} \subseteq Calls.lists[w], {from, to} \subseteq WayLabel(w)
  PROVE  PortStep({}, WayLabel(w))
<1>1. /\ from \in Calls.out /\ to \in Label /\ to \notin Calls.locked /\ w \in WaitList
      /\ {from, to} \subseteq WayLabel(w) \union {"run", "resched"}
  BY CallsAre DEF Label, RxLabel, TxLabel
<1>2. \A v \in WaitList : from \in Calls.lists[v] <=> to \in Calls.lists[v]
  BY <1>1, OwnList
<1>3. Apart({}, WayLabel(w))
  BY <1>1, <1>2, GoesOnCalm DEF WaitsInv
<1>4. /\ Calm(k', pc', k, pc, "sem", Calls.lists["sem"]) /\ Sound(k', pc', Calls)
      /\ Fewer(k', k, "rx_cpt") /\ Fewer(k', k, "tx_cpt")
  BY <1>3, CallsAre DEF Apart, Calm, AsMany
<1>5. SemGood /\ CptWaits'
  BY <1>4, SemKept, CptKept
<1> QED
  BY <1>3, <1>5 DEF PortStep

LEMMA ShellWaits ==
  ASSUME WaitsInv, ShellNext
  PROVE  ShellStepGood
<1>1. Shell \in Thread \ {Idle}
  BY SerialAssumption
<1>2. CASE ShellRead
  <2>1. CASE UNCHANGED pc
    <3>1. PortStep({}, {})
      BY <1>2, <2>1, PortStays DEF ShellRead
    <3> QED BY <3>1, PortMore DEF ShellStepGood
  <2>2. CASE Goto(Shell, "nobyte")
    <3>1. /\ k.cur = Shell /\ pc[Shell] = "run" /\ UNCHANGED <<k, sem>>
          /\ pc[Shell] \in PortStops /\ "nobyte" \in PortLabel
          /\ {pc[Shell], "nobyte"} \subseteq {"nobyte"} \union {"run"}
          /\ "sem" \notin {}
      BY <1>2 DEF ShellRead, At, PortStops, PortLabel
    <3>2. \A v \in WaitList : pc[Shell] \in Calls.lists[v] => v \in {}
      BY <3>1, CallsAre DEF CallsOK
    <3>3. PortStep({}, {"nobyte"})
      BY <1>1, <2>2, <3>1, <3>2, PortGoes
    <3> QED BY <3>3, PortMore DEF ShellStepGood
  <2> QED BY <1>2, <2>1, <2>2 DEF ShellRead
<1>3. CASE ShellTake
  <2>1. CASE At(Shell, "nobyte") /\ TakeToken(Shell, FALSE)
    <3>1. Apart({"sem"}, SemLabel \union {"nobyte"}) /\ SemGood
      BY <1>1, <2>1, TakeTokenWaits
    <3> QED BY <3>1, SemIsSerial DEF ShellStepGood
  <2>2. CASE TakeSchedule(Shell) \/ TakeReturn(Shell)
    <3>1. Apart({"sem"}, SemLabel) /\ SemGood
      BY <1>1, <2>2, TakeScheduleWaits, TakeReturnWaits DEF Apart
    <3>2. PortStep({"sem"}, SemLabel)
      BY <3>1, SemIsSerial
    <3> QED BY <3>2, PortMore DEF ShellStepGood
  <2> QED BY <1>3, <2>1, <2>2 DEF ShellTake
<1>4. ASSUME NEW c \in Byte, IsrByteForShell(c) PROVE ShellStepGood
  <2>1. CASE IsrRelease
    <3>1. Apart({"sem"}, {}) /\ SemGood
      BY <2>1, IsrReleaseWaits
    <3>2. PortStep({"sem"}, {})
      BY <3>1, SemIsSerial
    <3> QED BY <3>2, PortMore DEF ShellStepGood
  <2>2. CASE UNCHANGED <<k, pc, sem>>
    <3>1. PortStep({}, {})
      BY <2>2, PortStays
    <3> QED BY <3>1, PortMore DEF ShellStepGood
  <2> QED BY <1>4, <2>1, <2>2 DEF IsrByteForShell
<1> QED
  BY <1>2, <1>3, <1>4 DEF ShellNext

LEMMA ReaderWaits ==
  ASSUME WaitsInv, ReaderNext
  PROVE  ReaderStepGood
<1>1. Reader \in Thread \ {Idle} /\ UNCHANGED sem
  BY SerialAssumption DEF ReaderNext
<1>2. ASSUME NEW from \in PortStops, At(Reader, from), NEW to \in PortLabel, Goto(Reader, to),
             UNCHANGED k, {from, to} \subseteq RxLabel \union {"run"}
      PROVE  ReaderStepGood
  <2>1. {from, to} \subseteq WayLabel("rx_cpt") \union {"run"} /\ UNCHANGED <<k, sem>>
    BY <1>1, <1>2 DEF WayLabel
  <2>2. PortStep({"rx_cpt"}, WayLabel("rx_cpt"))
    BY <1>1, <1>2, <2>1, WayGoes
  <2> QED BY <2>2 DEF ReaderStepGood, WayLabel
<1>3. ASSUME NEW n \in 1..BufSize, ReadCall(n) PROVE ReaderStepGood
  <2>1. "run" \in PortStops /\ "index" \in PortLabel /\ "index" \in RxLabel
    BY DEF PortStops, PortLabel, RxLabel
  <2> QED BY <1>2, <1>3, <2>1 DEF ReadCall
<1>4. CASE LookAtIndex
  <2> DEFINE to == IF SameIndex(rx.ring) THEN "mirror" ELSE "length"
  <2>1. to \in PortLabel /\ "index" \in PortStops /\ {to, "index"} \subseteq RxLabel
    BY DEF PortLabel, PortStops, RxLabel
  <2>2. Goto(Reader, to) /\ At(Reader, "index") /\ UNCHANGED k
    BY <1>4 DEF LookAtIndex
  <2> HIDE DEF to
  <2> QED BY <1>2, <2>1, <2>2
<1>5. CASE LookAtLength
  <2> PICK len \in 0..BufSize :
       /\ At(Reader, "mirror") \/ At(Reader, "length")
       /\ Goto(Reader, IF len < reading.asked THEN "ask" ELSE "fetch")
    BY <1>5 DEF LookAtLength
  <2> DEFINE to == IF len < reading.asked THEN "ask" ELSE "fetch"
  <2>1. /\ to \in PortLabel /\ {"mirror", "length"} \subseteq PortStops
        /\ {to, "mirror", "length"} \subseteq RxLabel
    BY DEF PortLabel, PortStops, RxLabel
  <2>2. Goto(Reader, to) /\ (At(Reader, "mirror") \/ At(Reader, "length")) /\ UNCHANGED k
    BY <1>5 DEF LookAtLength
  <2> HIDE DEF to
  <2> QED BY <1>2, <2>1, <2>2
<1>6. CASE Ask
  <2>1. "ask" \in PortStops /\ "await" \in PortLabel /\ {"ask", "await"} \subseteq RxLabel
    BY DEF PortStops, PortLabel, RxLabel
  <2> QED BY <1>2, <1>6, <2>1 DEF Ask
<1>7. CASE AwaitBytes
  <2>1. CASE rx.done /\ Goto(Reader, "given") /\ UNCHANGED k
    <3>1. "await" \in PortStops /\ "given" \in PortLabel /\ {"await", "given"} \subseteq RxLabel
      BY DEF PortStops, PortLabel, RxLabel
    <3> QED BY <1>2, <1>7, <2>1, <3>1 DEF AwaitBytes
  <2>2. CASE Suspend(Reader, "rx_cpt") /\ Goto(Reader, "waiting")
    <3>1. /\ k.cur = Reader /\ pc[Reader] \in {"await", "txawait"} /\ "waiting" \in Calls.lists["rx_cpt"]
          /\ {pc[Reader], "waiting"} \subseteq WayLabel("rx_cpt")
      BY <1>7, CallsAre DEF AwaitBytes, At, WayLabel, RxLabel
    <3>2. PortStep({"rx_cpt"}, WayLabel("rx_cpt"))
      BY <1>1, <2>2, <3>1, PortWaits
    <3> QED BY <3>2 DEF ReaderStepGood, WayLabel
  <2> QED BY <1>7, <2>1, <2>2 DEF AwaitBytes
<1>8. CASE AwaitedBytes
  <2>1. CASE ScheduleThen(Reader, "waiting", "waited")
    <3>1. /\ {"waiting", "waited"} \subseteq Calls.lists["rx_cpt"]
          /\ {"waiting", "waited"} \subseteq WayLabel("rx_cpt")
      BY CallsAre DEF WayLabel, RxLabel
    <3>2. PortStep({}, WayLabel("rx_cpt"))
      BY <1>1, <2>1, <3>1, PortGoesOn
    <3> QED BY <3>2, PortMore DEF ReaderStepGood, WayLabel
  <2>2. CASE At(Reader, "waited") /\ Goto(Reader, "given") /\ UNCHANGED k
    <3>1. "waited" \in PortStops /\ "given" \in PortLabel /\ {"waited", "given"} \subseteq RxLabel
      BY DEF PortStops, PortLabel, RxLabel
    <3> QED BY <1>2, <2>2, <3>1
  <2> QED BY <1>8, <2>1, <2>2 DEF AwaitedBytes
<1>9. CASE FetchBytes
  <2>1. {"fetch", "given"} \subseteq PortStops /\ "run" \in PortLabel /\ {"fetch", "given"} \subseteq RxLabel
    BY DEF PortStops, PortLabel, RxLabel
  <2> QED BY <1>2, <1>9, <2>1 DEF FetchBytes
<1>10. ASSUME NEW c \in Byte, IsrByteForReader(c) PROVE ReaderStepGood
  <2>1. UNCHANGED pc /\ (Complete(rx.done, "rx_cpt") \/ UNCHANGED k)
    BY <1>10 DEF IsrByteForReader
  <2>2. PortStep({"rx_cpt"}, {}) \/ PortStep({}, {})
    BY <1>1, <2>1, PortCompletes, PortStays
  <2> QED BY <2>2, PortMore DEF ReaderStepGood
<1> QED
  BY <1>3, <1>4, <1>5, <1>6, <1>7, <1>8, <1>9, <1>10 DEF ReaderNext

LEMMA SendingWaits ==
  ASSUME WaitsInv, UNCHANGED sem, NEW blocking, IsrTxe \/ IsrSent(blocking)
  PROVE  SenderStepGood
<1>1. UNCHANGED pc /\ (Complete(tx.done, "tx_cpt") \/ UNCHANGED k)
  BY DEF IsrTxe, IsrSent
<1>2. PortStep({"tx_cpt"}, {}) \/ PortStep({}, {})
  BY <1>1, PortCompletes, PortStays
<1> QED
  BY <1>2, PortMore DEF SenderStepGood

\* A thread that writes goes on.
LEMMA SenderGoes ==
  ASSUME WaitsInv, NEW t \in Thread \ {Idle}, NEW from \in PortStops, At(t, from),
         NEW to \in PortLabel, Goto(t, to), UNCHANGED <<k, sem>>,
         {from, to} \subseteq TxLabel \union {"run"}
  PROVE  SenderStepGood
<1>1. {from, to} \subseteq WayLabel("tx_cpt") \union {"run"}
  BY DEF WayLabel
<1>2. PortStep({"tx_cpt"}, WayLabel("tx_cpt"))
  BY <1>1, WayGoes
<1> QED
  BY <1>2 DEF SenderStepGood, WayLabel

LEMMA QueuerWaits ==
  ASSUME WaitsInv, QueuerNext
  PROVE  SenderStepGood
<1>1. UNCHANGED sem
  BY DEF QueuerNext
<1>2. ASSUME NEW t \in Queuer, NEW s \in Text, QueueBytes(t, s) PROVE SenderStepGood
  <2> DEFINE to == IF tx.active THEN "run" ELSE "start"
  <2>1. /\ to \in PortLabel /\ "run" \in PortStops /\ t \in Thread \ {Idle}
        /\ {"run", to} \subseteq TxLabel \union {"run"}
    BY SerialAssumption DEF PortLabel, PortStops, TxLabel
  <2>2. At(t, "run") /\ Goto(t, to) /\ UNCHANGED k
    BY <1>2 DEF QueueBytes
  <2> HIDE DEF to
  <2> QED BY <1>1, <2>1, <2>2, SenderGoes
<1>3. ASSUME NEW t \in Queuer, StartSending(t) PROVE SenderStepGood
  <2>1. /\ "run" \in PortLabel /\ "start" \in PortStops /\ t \in Thread \ {Idle}
        /\ {"start", "run"} \subseteq TxLabel \union {"run"}
    BY SerialAssumption DEF PortLabel, PortStops, TxLabel
  <2> QED BY <1>1, <1>3, <2>1, SenderGoes DEF StartSending
<1> QED
  BY <1>1, <1>2, <1>3, SendingWaits DEF QueuerNext

LEMMA WriterWaits ==
  ASSUME WaitsInv, WriterNext
  PROVE  SenderStepGood
<1>1. Writer \in Thread \ {Idle} /\ UNCHANGED sem
  BY SerialAssumption DEF WriterNext
<1>2. ASSUME NEW from \in PortStops, At(Writer, from), NEW to \in PortLabel, Goto(Writer, to),
             UNCHANGED k, {from, to} \subseteq TxLabel \union {"run"}
      PROVE  SenderStepGood
  BY <1>1, <1>2, SenderGoes
<1>3. /\ {"run", "more", "transmit", "txawait", "txwaited"} \subseteq PortStops
      /\ {"run", "more", "transmit", "txawait"} \subseteq PortLabel
      /\ {"more", "transmit", "txawait", "txwaited"} \subseteq TxLabel
  BY DEF PortStops, PortLabel, TxLabel
<1>4. ASSUME NEW s \in Text, WriteCall(s) PROVE SenderStepGood
  BY <1>2, <1>3, <1>4 DEF WriteCall
<1>5. CASE FillRing
  BY <1>2, <1>3, <1>5 DEF FillRing
<1>6. CASE Transmit
  BY <1>2, <1>3, <1>6 DEF Transmit
<1>7. CASE AwaitSent
  <2>1. CASE Goto(Writer, "more") /\ UNCHANGED k
    BY <1>2, <1>3, <1>7, <2>1 DEF AwaitSent
  <2>2. CASE Suspend(Writer, "tx_cpt") /\ Goto(Writer, "txwaiting")
    <3>1. /\ k.cur = Writer /\ pc[Writer] \in {"await", "txawait"}
          /\ "txwaiting" \in Calls.lists["tx_cpt"]
          /\ {pc[Writer], "txwaiting"} \subseteq WayLabel("tx_cpt")
      BY <1>7, CallsAre DEF AwaitSent, At, WayLabel, TxLabel
    <3>2. PortStep({"tx_cpt"}, WayLabel("tx_cpt"))
      BY <1>1, <2>2, <3>1, PortWaits
    <3> QED BY <3>2 DEF SenderStepGood, WayLabel
  <2> QED BY <1>7, <2>1, <2>2 DEF AwaitSent
<1>8. CASE AwaitedSent
  <2>1. CASE ScheduleThen(Writer, "txwaiting", "txwaited")
    <3>1. /\ {"txwaiting", "txwaited"} \subseteq Calls.lists["tx_cpt"]
          /\ {"txwaiting", "txwaited"} \subseteq WayLabel("tx_cpt")
      BY CallsAre DEF WayLabel, TxLabel
    <3>2. PortStep({}, WayLabel("tx_cpt"))
      BY <1>1, <2>1, <3>1, PortGoesOn
    <3> QED BY <3>2, PortMore DEF SenderStepGood, WayLabel
  <2>2. CASE At(Writer, "txwaited") /\ Goto(Writer, "more") /\ UNCHANGED k
    BY <1>2, <1>3, <2>2
  <2> QED BY <1>8, <2>1, <2>2 DEF AwaitedSent
<1>9. CASE WriteReturn
  BY <1>2, <1>3, <1>9 DEF WriteReturn
<1> QED
  BY <1>1, <1>4, <1>5, <1>6, <1>7, <1>8, <1>9, SendingWaits DEF WriterNext

LEMMA SerialStepWaits ==
  ASSUME WaitsInv, SerialNext
  PROVE  SerialStepGood
<1>1. ShellStepGood \/ ReaderStepGood \/ SenderStepGood
  BY ShellWaits, ReaderWaits, QueuerWaits, WriterWaits DEF SerialNext
<1>2. /\ {"sem"} \subseteq SerialLists /\ SemLabel \union {"nobyte"} \subseteq SerialLabel
      /\ {"rx_cpt"} \subseteq SerialLists /\ RxLabel \subseteq SerialLabel
      /\ {"tx_cpt"} \subseteq SerialLists /\ TxLabel \subseteq SerialLabel
  BY DEF SerialLists, SerialLabel, RxLabel
<1> QED
  BY <1>1, <1>2, PortMore DEF ShellStepGood, ReaderStepGood, SenderStepGood, SerialStepGood

-----------------------------------------------------------------------------
(* All of them *)

\* The end of a call that woke a thread, time spent elsewhere, and the clock.
LEMMA CommonWaits ==
  ASSUME WaitsInv, Common
  PROVE  Apart({}, {})
<1>1. /\ Sound(k, pc, Calls) /\ CallsOK(Calls)
      /\ \A w \in WaitList : "run" \notin Calls.lists[w] /\ "resched" \notin Calls.lists[w]
      /\ "resched" \in Calls.out /\ "run" \in Label /\ "run" \notin Calls.locked
      /\ {"run", "resched"} \subseteq {} \union {"run", "resched"}
  BY CallsAre DEF WaitsInv, CallsOK
<1>2. ASSUME NEW t \in Thread, ScheduleThen(t, "resched", "run") PROVE Apart({}, {})
  BY <1>1, <1>2, GoesOnCalm
<1>3. ASSUME NEW t \in Thread, SleepStart(t) PROVE Apart({}, {})
  <2>1. /\ t = k.cur /\ pc[t] = "run" /\ t # Idle /\ Goto(t, "resched")
        /\ pc' = [pc EXCEPT ![t] = "resched"] /\ "EINTR" \in Error
    BY <1>3 DEF SleepStart, At, Goto, Error
  <2>2. Sleeps(k', k, t, "EINTR")
    BY <1>3 DEF SleepStart, Sleeps
  <2>3. /\ Sound(k', pc', Calls)
        /\ \A w \in WaitList : Calm(k', pc', k, pc, w, Calls.lists[w])
    <3> DEFINE to == [pc EXCEPT ![t] = "resched"]
               e == "EINTR"
    <3>1. to = [pc EXCEPT ![t] = "resched"] /\ pc' = to /\ e \in Error /\ Sleeps(k', k, t, e)
      BY <2>1, <2>2
    <3> HIDE DEF to, e
    <3>2. /\ Sound(k', to, Calls)
          /\ \A w \in WaitList : Calm(k', to, k, pc, w, Calls.lists[w])
      BY <1>1, <2>1, <3>1, SoundSleep
    <3> QED BY <3>1, <3>2
  <2>4. \A x \in Thread : pc'[x] = pc[x] \/ {pc[x], pc'[x]} \subseteq {} \union {"run", "resched"}
    <3>1. {pc[t], "resched"} \subseteq {} \union {"run", "resched"}
      BY <2>1
    <3> QED BY <1>1, <2>1, <3>1, MovesOnly
  <2> QED BY <2>3, <2>4 DEF Apart
<1>4. ASSUME NEW t \in Thread, TimerExpires(t) PROVE Apart({}, {})
  <2> DEFINE r == _thread_timeout(k, t)
  <2>1. t \in k.armed /\ k' = r /\ pc' = pc
    BY <1>4 DEF TimerExpires
  <2>2. Sound(r, pc, Calls) /\ \A w \in WaitList : Calm(r, pc, k, pc, w, Calls.lists[w])
    BY <1>1, <2>1, SoundTimeout
  <2> HIDE DEF r
  <2> QED BY <2>1, <2>2 DEF Apart
<1>5. CASE SliceEnd
  <2> DEFINE r == rt_schedule([k EXCEPT !.yield = @ \union {k.cur}])
  <2>1. k' = r /\ pc' = pc
    BY <1>5 DEF SliceEnd
  <2>2. Sound(r, pc, Calls) /\ \A w \in WaitList : Calm(r, pc, k, pc, w, Calls.lists[w])
    BY <1>1, SoundSlice
  <2> HIDE DEF r
  <2> QED BY <2>1, <2>2 DEF Apart
<1> QED
  BY <1>2, <1>3, <1>4, <1>5 DEF Common

\* What an object keeps through a step of another one.
LEMMA OthersKept ==
  ASSUME WaitsInv, PoolInv, QueueInv, NEW own, NEW labels, Apart(own, labels),
         labels \intersect ResetLabel = {}
  PROVE  /\ "sem" \notin own /\ sem' = sem => SemGood
         /\ "event" \notin own /\ UNCHANGED eventVars => EventWaits'
         /\ "pool" \notin own /\ UNCHANGED poolVars => PoolWaits'
         /\ own \intersect {"rx_cpt", "tx_cpt"} = {} => CptWaits'
         /\ own \intersect {"pushers", "poppers"} = {} /\ UNCHANGED dataVars
              => PopWaits' /\ PushWaits'
<1>1. Sound(k', pc', Calls)
  BY DEF Apart
<1>2. \A w \in {"sem", "event", "pool", "rx_cpt", "tx_cpt", "pushers", "poppers"} :
        w \notin own => Calm(k', pc', k, pc, w, Calls.lists[w]) /\ Fewer(k', k, w)
  BY CallsAre DEF Apart, Calm, AsMany, Stay
<1>3. ASSUME "sem" \notin own, sem' = sem PROVE SemGood
  BY <1>1, <1>2, <1>3, SemKept
<1>4. ASSUME "event" \notin own, UNCHANGED eventVars PROVE EventWaits'
  BY <1>2, <1>4, EventKept
<1>5. ASSUME "pool" \notin own, UNCHANGED poolVars PROVE PoolWaits'
  BY <1>1, <1>2, <1>5, PoolKept DEF poolVars
<1>6. ASSUME own \intersect {"rx_cpt", "tx_cpt"} = {} PROVE CptWaits'
  <2>1. "rx_cpt" \notin own /\ "tx_cpt" \notin own
    BY <1>6
  <2> QED BY <1>2, <2>1, CptKept
<1>7. ASSUME own \intersect {"pushers", "poppers"} = {}, UNCHANGED dataVars
      PROVE  PopWaits' /\ PushWaits'
  <2>1. Calm(k', pc', k, pc, "pushers", Calls.lists["pushers"])
        /\ Calm(k', pc', k, pc, "poppers", Calls.lists["poppers"])
    BY <1>2, <1>7
  <2>2. QueueInv' /\ dq' = dq
    BY <1>7, QuietStep DEF dataVars
  <2>3. ItemCount(dq') = ItemCount(dq)
    BY <2>2
  <2>4. ItemCount(dq) \in Int
    BY <2>2, CountsAre
  <2>5. Resetting => Resetting'
    BY ResettingGoesOn
  <2>6. PopWaits'
    BY <1>1, <2>1, <2>2, <2>3, <2>4, PopCalm DEF Calm
  <2>7. PushWaits'
    BY <1>1, <2>1, <2>2, <2>3, <2>4, <2>5, PushCalm DEF Calm
  <2> QED BY <2>6, <2>7
<1> QED
  BY <1>3, <1>4, <1>5, <1>6, <1>7

\* A step of the objects whose lists are own: the others are kept.
LEMMA NoResetElsewhere ==
  /\ SemLabel \intersect ResetLabel = {} /\ EventLabel \intersect ResetLabel = {}
  /\ PoolLabel \intersect ResetLabel = {} /\ SerialLabel \intersect ResetLabel = {}
  /\ {} \intersect ResetLabel = {}
BY DEF SemLabel, EventLabel, PoolLabel, SerialLabel, RxLabel, TxLabel, ResetLabel

\* A step of the data queue leaves the other objects alone; a reset, too.
LEMMA DataLeavesOthers ==
  ASSUME WaitsInv, PoolInv, DataStepGood, UNCHANGED <<sem, eventVars, poolVars>>
  PROVE  SemGood /\ EventWaits' /\ PoolWaits' /\ CptWaits'
<1>1. Sound(k', pc', Calls)
  BY DEF Apart, DataStepGood
<1>2. \A w \in {"sem", "event", "pool", "rx_cpt", "tx_cpt"} :
        Calm(k', pc', k, pc, w, Calls.lists[w]) /\ Fewer(k', k, w)
  BY CallsAre DEF Apart, Calm, DataStepGood, AsMany, Stay
<1> QED
  BY <1>1, <1>2, SemKept, EventKept, PoolKept, CptKept DEF poolVars

LEMMA NextWaits == WaitsInv /\ PoolInv /\ DataInv /\ [Next]_vars => WaitsInv' /\ CounterStep
<1> SUFFICES ASSUME WaitsInv, PoolInv, DataInv, [Next]_vars PROVE WaitsInv' /\ CounterStep
  OBVIOUS
<1>1. QueueInv
  BY DEF DataInv
<1>2. CASE SemNext /\ UNCHANGED <<inUse, eventVars, poolVars, dataVars, serialVars>>
  <2>1. Apart({"sem"}, SemLabel) /\ SemGood
    BY <1>2, SemStep
  <2>2. /\ EventWaits' /\ PoolWaits' /\ CptWaits' /\ PopWaits' /\ PushWaits'
    BY <1>1, <1>2, <2>1, NoResetElsewhere, OthersKept
  <2> QED BY <2>1, <2>2 DEF WaitsInv, Apart, SemGood
<1>3. CASE EventNext /\ UNCHANGED <<inUse, sem, poolVars, dataVars, serialVars>>
  <2>1. Apart({"event"}, EventLabel) /\ EventWaits'
    BY <1>3, EventStep
  <2>2. /\ SemGood /\ PoolWaits' /\ CptWaits' /\ PopWaits' /\ PushWaits'
    BY <1>1, <1>3, <2>1, NoResetElsewhere, OthersKept
  <2> QED BY <2>1, <2>2 DEF WaitsInv, Apart, SemGood
<1>4. CASE PoolNext /\ UNCHANGED <<inUse, sem, eventVars, dataVars, serialVars>>
  <2>1. Apart({"pool"}, PoolLabel) /\ PoolWaits'
    BY <1>4, PoolStep
  <2>2. /\ SemGood /\ EventWaits' /\ CptWaits' /\ PopWaits' /\ PushWaits'
    BY <1>1, <1>4, <2>1, NoResetElsewhere, OthersKept
  <2> QED BY <2>1, <2>2 DEF WaitsInv, Apart, SemGood
<1>5. CASE DataNext /\ UNCHANGED <<inUse, sem, eventVars, poolVars, serialVars>>
  <2>1. DataStepGood
    BY <1>5, DataStepWaits
  <2>2. SemGood /\ EventWaits' /\ PoolWaits' /\ CptWaits'
    BY <1>5, <2>1, DataLeavesOthers
  <2> QED BY <2>1, <2>2 DEF WaitsInv, Apart, DataStepGood, SemGood
<1>6. CASE SerialNext /\ UNCHANGED <<inUse, eventVars, poolVars, dataVars>>
  <2>1. Apart(SerialLists, SerialLabel) /\ SemGood /\ CptWaits'
    BY <1>6, SerialStepWaits DEF SerialStepGood, PortStep
  <2>2. "event" \notin SerialLists /\ "pool" \notin SerialLists
        /\ SerialLists \intersect {"pushers", "poppers"} = {}
    BY DEF SerialLists
  <2>3. EventWaits' /\ PoolWaits' /\ PopWaits' /\ PushWaits'
    BY <1>1, <1>6, <2>1, <2>2, NoResetElsewhere, OthersKept
  <2> QED BY <2>1, <2>3 DEF WaitsInv, Apart, SemGood
<1>7. CASE Common /\ UNCHANGED <<inUse, sem, eventVars, poolVars, dataVars, serialVars>>
  <2>1. Apart({}, {})
    BY <1>7, CommonWaits
  <2>2. /\ SemGood /\ EventWaits' /\ PoolWaits' /\ CptWaits' /\ PopWaits' /\ PushWaits'
    BY <1>1, <1>7, <2>1, NoResetElsewhere, OthersKept
  <2> QED BY <2>1, <2>2 DEF WaitsInv, Apart, SemGood
<1>8. CASE UNCHANGED vars
  <2>1. Apart({}, {})
    <3>1. Sound(k, pc, Calls) /\ k' = k /\ pc' = pc
      BY <1>8 DEF WaitsInv, vars
    <3>2. \A w \in WaitList : Calm(k', pc', k, pc, w, Calls.lists[w])
      BY <3>1, CalmSame
    <3> QED BY <3>1, <3>2 DEF Apart
  <2>2. UNCHANGED <<sem, eventVars, poolVars, dataVars>>
    BY <1>8 DEF vars
  <2>3. /\ SemGood /\ EventWaits' /\ PoolWaits' /\ CptWaits' /\ PopWaits' /\ PushWaits'
    BY <1>1, <2>1, <2>2, NoResetElsewhere, OthersKept
  <2> QED BY <2>1, <2>3 DEF WaitsInv, Apart, SemGood
<1> QED
  BY <1>2, <1>3, <1>4, <1>5, <1>6, <1>7, <1>8 DEF Next

\* At the start nobody waits.
LEMMA InitWaits == Init => WaitsInv
<1> SUFFICES ASSUME Init PROVE WaitsInv
  OBVIOUS
<1>1. k = Started(Main, InitPrio) /\ pc = [t \in Thread |-> "run"]
  BY DEF Init, StartedKernel
<1>2. Sound(k, pc, Calls)
  BY <1>1, MainAssumption, InitPrioAssumption, SoundStarts, CallsAre
<1>3. \A w \in {"sem", "event", "pool", "pushers", "poppers", "rx_cpt", "tx_cpt"} :
        k.wait[w] = <<>>
  BY <1>1, CallsAre DEF Started
<1>4. \A w \in {"sem", "event", "pool", "pushers", "poppers", "rx_cpt", "tx_cpt"} :
        Untold(k, w) /\ \A t \in Thread : ~On(k, w, t)
  BY <1>3 DEF Untold, On, Contains
<1>5. SemWaits
  BY <1>3, <1>4, SemaphoreAssumption DEF Init, SemInit, SemWaits, Unserved
<1>6. EventWaits
  BY <1>4 DEF Init, EventInit, EventWaits, Option
<1>7. PoolWaits /\ PopWaits /\ PushWaits /\ CptWaits
  BY <1>3, <1>4 DEF PoolWaits, PopWaits, PushWaits, CptWaits, Enough
<1> QED
  BY <1>2, <1>5, <1>6, <1>7 DEF WaitsInv

\* What the objects keep while their calls interleave: who is on which suspend
\* list, and that somebody is on the way to all there is to have.
ObjectsInv == WaitsInv /\ PoolInv /\ DataInv

THEOREM ObjectsInvHolds == Spec => []ObjectsInv
<1>1. Init => ObjectsInv
  BY InitWaits, InitPool, InitData DEF ObjectsInv
<1>2. ObjectsInv /\ [Next]_vars => ObjectsInv'
  BY NextWaits, NextPool, NextData DEF ObjectsInv, DataGood
<1> QED
  BY <1>1, <1>2, PTL DEF Spec

\* The suspend lists hold threads; ToSet and On say the same of them.
LEMMA ListedIsOn ==
  ASSUME WaitsInv, NEW w \in WaitList
  PROVE  /\ k.wait[w] \in Seq(Thread)
         /\ \A t : t \in ToSet(k.wait[w]) <=> On(k, w, t)
<1>1. k.wait[w] \in Seq(Thread)
  BY DEF WaitsInv, Sound, IpcInv, KernelInv, ListFacts, KernelState
<1>2. DOMAIN k.wait[w] = 1..Len(k.wait[w])
  BY <1>1
<1> QED
  BY <1>1, <1>2 DEF ToSet, On, Contains

\* A thread on a suspend list is suspended in a call on that object and on the
\* list of no other one, whatever the calls, the handlers, the timeouts and the
\* resets of ipc.c, mempool.c, dataqueue.c and completion.c do in between.
THEOREM WaitsWhereItSaysHolds == Spec => []WaitsWhereItSays
<1>1. ObjectsInv => WaitsWhereItSays
  <2> SUFFICES ASSUME ObjectsInv, NEW t \in Thread, NEW w \in WaitList, t \in ToSet(k.wait[w])
               PROVE  /\ k.stat[t] = "suspend"
                      /\ pc[t] \in CASE w = "sem"   -> SemLabel
                                     [] w = "event" -> EventLabel
                                     [] w = "pool"  -> PoolLabel
                                     [] w \in {"pushers", "poppers"} -> DataLabel
                                     [] w = "rx_cpt" -> RxLabel
                                     [] w = "tx_cpt" -> TxLabel
                      /\ \A x \in WaitList \ {w} : t \notin ToSet(k.wait[x])
    BY DEF WaitsWhereItSays
  <2>1. WaitsInv /\ Sound(k, pc, Calls) /\ WaitFacts(k)
    BY DEF ObjectsInv, WaitsInv, Sound, IpcInv
  <2>2. On(k, w, t)
    BY <2>1, ListedIsOn
  <2>3. k.stat[t] = "suspend" /\ pc[t] \in Calls.lists[w]
    BY <2>1, <2>2 DEF WaitFacts, Sound, ListFits
  <2>4. \A x \in WaitList \ {w} : t \notin ToSet(k.wait[x])
    BY <2>1, <2>2, ListedIsOn DEF WaitFacts
  <2>5. \/ w = "sem" /\ pc[t] \in SemLabel
        \/ w = "event" /\ pc[t] \in EventLabel
        \/ w = "pool" /\ pc[t] \in PoolLabel
        \/ w \in {"pushers", "poppers"} /\ pc[t] \in DataLabel
        \/ w = "rx_cpt" /\ pc[t] \in RxLabel
        \/ w = "tx_cpt" /\ pc[t] \in TxLabel
    BY <2>3 DEF Calls, PushLabel, Popping, DataLabel, RxLabel, TxLabel
  <2>6. pc[t] \in CASE w = "sem"   -> SemLabel
                    [] w = "event" -> EventLabel
                    [] w = "pool"  -> PoolLabel
                    [] w \in {"pushers", "poppers"} -> DataLabel
                    [] w = "rx_cpt" -> RxLabel
                    [] w = "tx_cpt" -> TxLabel
    BY <2>5
  <2> QED BY <2>3, <2>4, <2>6
<1> QED
  BY <1>1, ObjectsInvHolds, PTL

\* No thread is left on the list of a semaphore that has a token, or of an event
\* object whose bits it asked for: rt_sem_release, rt_event_send and the rest
\* leave nobody behind, with any number of threads and in any order.
THEOREM NoIdleWaitHolds == Spec => []NoIdleWait
<1>1. ObjectsInv => NoIdleWait
  <2> SUFFICES ASSUME ObjectsInv PROVE NoIdleWait
    OBVIOUS
  <2>1. WaitsInv /\ SemWaits /\ EventWaits /\ "event" \in WaitList
    BY CallsAre DEF ObjectsInv, WaitsInv
  <2>2. NoIdleToken
    BY <2>1 DEF SemWaits, NoIdleToken
  <2>3. NoMissedEvent
    <3> SUFFICES ASSUME NEW i \in 1..Len(k.wait["event"])
                 PROVE  ~Satisfies(set, eset[k.wait["event"][i]], einfo[k.wait["event"][i]])
      BY DEF NoMissedEvent
    <3>1. k.wait["event"] \in Seq(Thread)
      BY <2>1, ListedIsOn
    <3>2. k.wait["event"][i] \in Thread /\ On(k, "event", k.wait["event"][i])
      BY <3>1, ElementOfSeq DEF On, Contains
    <3> QED BY <2>1, <3>2 DEF EventWaits
  <2> QED BY <2>2, <2>3 DEF NoIdleWait
<1> QED
  BY <1>1, ObjectsInvHolds, PTL

\* Who is on the way has been woken and has not looked.
LEMMA AlertAwake ==
  ASSUME WaitsInv, NEW w \in WaitList, NEW ls, NEW n \in Int, Enough(k, pc, w, ls, n),
         k.wait[w] # <<>>
  PROVE  LET A == {t \in Thread : pc[t] \in ls /\ k.err[t] = "EOK" /\ t \notin ToSet(k.wait[w])}
         IN  Cardinality(A) \in Nat /\ Cardinality(A) >= n
<1> DEFINE A == {t \in Thread : pc[t] \in ls /\ k.err[t] = "EOK" /\ t \notin ToSet(k.wait[w])}
<1>1. A = Alert(k, pc, w, ls)
  BY ListedIsOn DEF Alert
<1>2. Cardinality(A) \in Nat /\ IsFiniteSet(A)
  <2>1. A \subseteq Thread
    OBVIOUS
  <2> HIDE DEF A
  <2> QED BY <2>1, ThreadAssumption, FS_Subset, FS_CardinalityType
<1> QED
  BY <1>1, <1>2 DEF Enough

\* While a thread waits for a block, one woken thread for each free block has yet
\* to look at the pool: rt_mp_free wakes a thread for every block, and the blocks
\* that others take first are no longer free.
THEOREM NoLostBlockHolds == Spec => []NoLostBlock
<1>1. ObjectsInv => NoLostBlock
  <2> SUFFICES ASSUME ObjectsInv, k.wait["pool"] # <<>> PROVE NoLostBlock
    BY DEF NoLostBlock
  <2>1. WaitsInv /\ "pool" \in WaitList /\ blocks.count \in Int
        /\ Enough(k, pc, "pool", PoolLabel, blocks.count)
    BY CallsAre DEF ObjectsInv, WaitsInv, PoolWaits, PoolInv
  <2> DEFINE n == blocks.count
             w == "pool"
  <2>2. WaitsInv /\ w \in WaitList /\ n \in Int /\ Enough(k, pc, w, PoolLabel, n) /\ k.wait[w] # <<>>
    BY <2>1
  <2>3. w = "pool" /\ n = blocks.count
    OBVIOUS
  <2> HIDE DEF n, w
  <2>4. LET A == {t \in Thread : pc[t] \in PoolLabel /\ k.err[t] = "EOK"
                                   /\ t \notin ToSet(k.wait[w])}
        IN  Cardinality(A) \in Nat /\ Cardinality(A) >= n
    BY <2>2, AlertAwake
  <2> QED BY <2>3, <2>4 DEF NoLostBlock
<1> QED
  BY <1>1, ObjectsInvHolds, PTL

\* While pops of a data queue wait there is an awake one for each item, and while
\* pushes wait and the items are down to the low water mark there is an awake
\* push that will take them above it: with handlers that push and pop, and a
\* reset in the window of any call.
THEOREM DataWaitersHolds == Spec => []DataWaiters
<1>1. ObjectsInv => DataWaiters
  <2> SUFFICES ASSUME ObjectsInv PROVE DataWaiters
    OBVIOUS
  <2> DEFINE n == ItemCount(dq)
             m == LowMark + 1 - ItemCount(dq)
             pops == Awake("poppers", {"popping", "pop"})
             pushes == Awake("pushers", {"pushing", "push"})
  <2>1. /\ WaitsInv /\ "pushers" \in WaitList /\ "poppers" \in WaitList /\ LowMark \in Int
        /\ n \in Int /\ m \in Int /\ n = ItemCount(dq) /\ m = LowMark + 1 - n
        /\ Enough(k, pc, "poppers", Popping, n)
        /\ Resetting \/ Enough(k, pc, "pushers", PushLabel, m)
    <3>1. ItemCount(dq) \in 0..ItemMax /\ ItemMax \in Nat /\ LowMark \in Int
      BY CountValue, DataQueueAssumption DEF ObjectsInv, DataInv, QueueInv
    <3> QED BY <3>1, CallsAre DEF ObjectsInv, WaitsInv, PopWaits, PushWaits
  <2> HIDE DEF n, m
  <2>2. ASSUME k.wait["poppers"] # <<>> PROVE Cardinality(pops) >= n
    <3>1. LET A == {t \in Thread : pc[t] \in Popping /\ k.err[t] = "EOK"
                                     /\ t \notin ToSet(k.wait["poppers"])}
          IN  Cardinality(A) \in Nat /\ Cardinality(A) >= n
      BY <2>1, <2>2, AlertAwake
    <3> QED BY <3>1 DEF Awake, Popping
  <2>3. ASSUME k.wait["pushers"] # <<>>, ~Resetting PROVE n + Cardinality(pushes) > LowMark
    <3>1. LET A == {t \in Thread : pc[t] \in PushLabel /\ k.err[t] = "EOK"
                                     /\ t \notin ToSet(k.wait["pushers"])}
          IN  Cardinality(A) \in Nat /\ Cardinality(A) >= m
      BY <2>1, <2>3, AlertAwake
    <3>2. Cardinality(pushes) \in Nat /\ Cardinality(pushes) >= m
      BY <3>1 DEF Awake, PushLabel
    <3> HIDE DEF pushes
    <3> QED BY <2>1, <3>2
  <2> QED BY <2>1, <2>2, <2>3 DEF DataWaiters
<1> QED
  BY <1>1, ObjectsInvHolds, PTL

-----------------------------------------------------------------------------
(* Tokens and bits *)

\* While those that wait find an error, the threads a token was promised are those
\* that were given one.
LEMMA PromisedAre ==
  ASSUME WaitsInv
  PROVE  /\ Promised = Owed /\ IsFiniteSet(Owed)
         /\ Cardinality(Owed) \in Nat /\ sem \in 0..ValueMax
<1>1. Unserved(k, "sem") /\ sem \in 0..ValueMax
  BY DEF WaitsInv, SemWaits
<1>2. \A t \in Thread : t \in Promised <=> t \in Owed
  BY <1>1 DEF Promised, Owed, Alert, Unserved
<1>3. Promised = Owed
  BY <1>2 DEF Promised, Owed, Alert
<1>4. IsFiniteSet(Owed) /\ Cardinality(Owed) \in Nat
  BY AlertFinite DEF Owed
<1> QED
  BY <1>1, <1>3, <1>4

\* Each thing a step may do with the tokens is one of the abstract counter.
LEMMA CounterSteps ==
  ASSUME WaitsInv, WaitsInv', CounterStep
  PROVE  [Counter!Next]_<<sem, Cardinality(Promised)>>
<1> DEFINE n == Cardinality(Owed)
<1>1. /\ Promised = Owed /\ IsFiniteSet(Owed) /\ n \in Nat /\ sem \in 0..ValueMax
      /\ ValueMax \in Nat
  BY PromisedAre, SemaphoreAssumption
<1>2. Promised' = Owed' /\ Cardinality(Promised)' = Cardinality(Owed')
  <2>1. Promised' = Owed'
    <3>1. \A t \in Thread : On(k', "sem", t) => k'.err[t] # "EOK"
      BY DEF WaitsInv, SemWaits, Unserved
    <3>2. \A t \in Thread : t \in Promised' <=> t \in Owed'
      BY <3>1 DEF Promised, Owed, Alert
    <3> QED BY <3>2 DEF Promised, Owed, Alert
  <2> QED BY <2>1
<1>3. CASE sem' = sem /\ Owed' = Owed
  BY <1>1, <1>2, <1>3
<1>4. CASE sem < ValueMax /\ sem' = sem + 1 /\ Owed' = Owed
  BY <1>1, <1>2, <1>4 DEF Counter!Next, Counter!Release
<1>5. ASSUME sem' = sem, NEW t \in Thread, t \notin Owed, Owed' = Owed \union {t}
      PROVE  Counter!Next
  <2>1. Cardinality(Owed \union {t}) = n + 1
    BY <1>1, <1>5, FS_AddElement
  <2> QED BY <1>1, <1>2, <1>5, <2>1 DEF Counter!Next, Counter!Release
<1>6. CASE sem > 0 /\ sem' = sem - 1 /\ Owed' = Owed
  BY <1>1, <1>2, <1>6 DEF Counter!Next, Counter!Take
<1>7. ASSUME sem' = sem, NEW t \in Thread, Owed' = Owed \ {t}
      PROVE  [Counter!Next]_<<sem, Cardinality(Promised)>>
  <2>1. CASE t \notin Owed
    <3>1. Owed' = Owed
      BY <1>7, <2>1
    <3> QED BY <1>1, <1>2, <1>7, <3>1
  <2>2. CASE t \in Owed
    <3>1. Cardinality(Owed \ {t}) = n - 1 /\ n # 0
      <4>1. n # 0
        BY <1>1, <2>2, FS_EmptySet
      <4> QED BY <1>1, <2>2, <4>1, FS_RemoveElement
    <3> QED BY <1>1, <1>2, <1>7, <3>1 DEF Counter!Next, Counter!Take
  <2> QED BY <2>1, <2>2
<1>8. CASE sem' \in 0..ValueMax /\ Owed' = Owed
  BY <1>1, <1>2, <1>8 DEF Counter!Next, Counter!Reset
<1> QED
  BY <1>3, <1>4, <1>5, <1>6, <1>7, <1>8 DEF CounterStep

\* A semaphore of ipc.c counts: a token that rt_sem_release hands to a waiting
\* thread is that thread's, whatever timeouts, resets, takes by others and calls
\* on other objects come before it runs, and it is not counted as well.
THEOREM TokensCountedHolds == Spec => TokensCounted
<1>1. Init => ObjectsInv /\ Counter!Init
  <2> SUFFICES ASSUME Init PROVE ObjectsInv /\ Counter!Init
    OBVIOUS
  <2>1. ObjectsInv
    BY InitWaits, InitPool, InitData DEF ObjectsInv
  <2>2. Promised = {} /\ sem \in 0..ValueMax
    BY DEF Init, SemInit, Promised, SemLabel
  <2> QED BY <2>1, <2>2, FS_EmptySet DEF Counter!Init
<1>2. ObjectsInv /\ [Next]_vars => ObjectsInv' /\ [Counter!Next]_<<sem, Cardinality(Promised)>>
  <2> SUFFICES ASSUME ObjectsInv, [Next]_vars
               PROVE  ObjectsInv' /\ [Counter!Next]_<<sem, Cardinality(Promised)>>
    OBVIOUS
  <2>1. WaitsInv /\ WaitsInv' /\ CounterStep
    BY NextWaits DEF ObjectsInv
  <2>2. ObjectsInv'
    BY <2>1, NextPool, NextData DEF ObjectsInv, DataGood
  <2> QED BY <2>1, <2>2, CounterSteps
<1>3. Counter!Spec <=> Counter!Init /\ [][Counter!Next]_<<sem, Cardinality(Promised)>>
  BY DEF Counter!Spec
<1> QED
  BY <1>1, <1>2, <1>3, PTL DEF Spec, TokensCounted

\* What clears a bit of an event object.
BitTaken ==
  \/ \E t \in Thread : ResetEvent(t)
  \/ \A b \in set \ set' : \E t \in Listener :
       /\ einfo'[t].clear /\ b \in eset'[t] /\ k'.err[t] = "EOK"
       /\ \/ At(t, "run")
          \/ t \in ToSet(k.wait["event"]) \ ToSet(k'.wait["event"])

\* The walk of a send gives the bits it clears to those it wakes.
LEMMA SentTakes ==
  ASSUME WaitsInv, WaitsInv', NEW s \in SUBSET Bit,
         WalkedByIsr(k', k, "event", Satisfied(set \union s)),
         eset' = Sent(s).eset, set' = Sent(s).set, einfo' = einfo
  PROVE  BitTaken
<1> DEFINE bits  == set \union s
           woken == Satisfied(bits)
<1>1. /\ EventWaits /\ IpcInv(k) /\ "event" \in WaitList
  BY CallsAre DEF WaitsInv, Sound
<1>2. /\ eset' = [x \in Listener |-> IF x \in woken THEN Received(x, bits) ELSE eset[x]]
      /\ set' = bits \ UNION {Received(t, bits) : t \in {u \in woken : einfo[u].clear}}
  BY DEF Sent
<1>3. \A x \in woken : x \in Thread /\ x \in ToSet(k.wait["event"]) /\ On(k, "event", x) /\ x \in Listener
  <2>1. \A x \in woken : x \in ToSet(k.wait["event"])
    BY DEF Satisfied
  <2>2. \A x \in ToSet(k.wait["event"]) : x \in Thread
    BY <1>1, ListedIsOn DEF On, Contains
  <2> QED BY <1>1, <2>1, <2>2, ListedIsOn DEF EventWaits
<1>4. \A x \in Thread : x \in woken /\ On(k, "event", x) => ~On(k', "event", x) /\ k'.err[x] = "EOK"
  BY <1>1, ChosenServed
<1>5. ASSUME NEW b \in set \ set'
      PROVE  \E t \in Listener :
               /\ einfo'[t].clear /\ b \in eset'[t] /\ k'.err[t] = "EOK"
               /\ t \in ToSet(k.wait["event"]) \ ToSet(k'.wait["event"])
  <2>1. PICK t \in woken : einfo[t].clear /\ b \in Received(t, bits)
    <3>1. b \in bits /\ b \notin set'
      BY <1>5
    <3>2. b \in UNION {Received(t, bits) : t \in {u \in woken : einfo[u].clear}}
      BY <1>2, <3>1
    <3> HIDE DEF bits, woken
    <3> QED BY <3>2
  <2>2. t \in Listener /\ einfo'[t].clear /\ b \in eset'[t]
    BY <1>2, <1>3, <2>1
  <2>3. ~On(k', "event", t) /\ k'.err[t] = "EOK" /\ t \in ToSet(k.wait["event"])
    BY <1>3, <1>4
  <2>4. t \notin ToSet(k'.wait["event"])
    <3>1. k'.wait["event"] \in Seq(Thread)
      BY <1>1 DEF WaitsInv, Sound, IpcInv, KernelInv, ListFacts, KernelState
    <3>2. DOMAIN k'.wait["event"] = 1..Len(k'.wait["event"])
      BY <3>1
    <3> QED BY <2>3, <3>1, <3>2 DEF ToSet, On, Contains
  <2> QED BY <2>2, <2>3, <2>4
<1> QED
  BY <1>5 DEF BitTaken

LEMMA EventTakes ==
  ASSUME WaitsInv, WaitsInv', EventNext
  PROVE  BitTaken
<1>1. ASSUME NEW t \in Listener, NEW asked \in SUBSET Bit, NEW option \in Option,
             Recv(t, asked, option)
      PROVE  BitTaken
  <2>1. CASE UNCHANGED set
    BY <2>1 DEF BitTaken
  <2>2. CASE /\ eset' = [eset EXCEPT ![t] = set \intersect asked]
             /\ set' = IF option.clear THEN set \ asked ELSE set
             /\ k' = [k EXCEPT !.err[t] = "EOK"]
    <3>1. /\ t \in DOMAIN eset /\ t \in DOMAIN einfo
          /\ k.err \in [Thread -> Error] /\ t \in Thread /\ k \in KernelState
      BY EventAssumption DEF WaitsInv, EventWaits, Sound, IpcInv, KernelInv, ListFacts, KernelState
    <3>2. eset'[t] = set \intersect asked /\ einfo'[t] = option /\ k'.err[t] = "EOK"
      BY <1>1, <2>2, <3>1 DEF Recv, KernelState
    <3>3. \A b \in set \ set' : option.clear /\ b \in asked
      BY <2>2
    <3> QED BY <1>1, <3>2, <3>3 DEF BitTaken, Recv
  <2> QED BY <1>1, <2>1, <2>2 DEF Recv
<1>2. ASSUME NEW t \in Listener, NEW c \in Asks[t], Recv(t, c.bits, c.option) PROVE BitTaken
  <2>1. c.bits \in SUBSET Bit /\ c.option \in Option
    BY EventAssumption
  <2> QED BY <1>1, <1>2, <2>1
<1>3. ASSUME NEW t \in Thread, RecvSchedule(t) \/ RecvReturn(t) \/ ResetEvent(t) PROVE BitTaken
  BY <1>3 DEF BitTaken, RecvSchedule, RecvReturn, eventVars
<1>4. ASSUME NEW t \in Thread, NEW s \in SUBSET Bit, Notify(t, s) PROVE BitTaken
  <2>1. WalkedByIsr(k', k, "event", Satisfied(set \union s))
    BY <1>4 DEF WalkedByIsr, Notify, Sent
  <2> QED BY <1>4, <2>1, SentTakes DEF Notify
<1>5. ASSUME NEW s \in SUBSET Bit, IsrNotify(s) PROVE BitTaken
  <2>1. WalkedByIsr(k', k, "event", Satisfied(set \union s))
    BY <1>5 DEF WalkedByIsr, IsrNotify, Sent
  <2> QED BY <1>5, <2>1, SentTakes DEF IsrNotify
<1> QED
  BY <1>2, <1>3, <1>4, <1>5 DEF EventNext

\* A bit that rt_event_send set stays until rt_event_recv with RT_EVENT_FLAG_CLEAR
\* has been given it, or until a reset: no timeout and no thread that takes bits
\* in between makes a send lose one.
THEOREM BitsKeptHolds == Spec => BitsKept
<1>1. Init => ObjectsInv
  BY InitWaits, InitPool, InitData DEF ObjectsInv
<1>2. ObjectsInv /\ [Next]_vars => ObjectsInv' /\ [BitTaken]_<<k, pc, eventVars>>
  <2> SUFFICES ASSUME ObjectsInv, [Next]_vars
               PROVE  ObjectsInv' /\ [BitTaken]_<<k, pc, eventVars>>
    OBVIOUS
  <2>1. WaitsInv /\ WaitsInv'
    BY NextWaits DEF ObjectsInv
  <2>2. ObjectsInv'
    BY <2>1, NextPool, NextData DEF ObjectsInv, DataGood
  <2>3. CASE EventNext
    BY <2>1, <2>2, <2>3, EventTakes
  <2>4. CASE UNCHANGED set
    BY <2>2, <2>4 DEF BitTaken
  <2>5. EventNext \/ UNCHANGED set
    BY DEF Next, vars, eventVars
  <2> QED BY <2>2, <2>3, <2>4, <2>5
<1>3. BitsKept <=> [][BitTaken]_<<k, pc, eventVars>>
  BY DEF BitsKept, BitTaken
<1> QED
  BY <1>1, <1>2, <1>3, PTL DEF Spec

-----------------------------------------------------------------------------
(* What the serial port promises its threads.  Each waits on a list of its own,
   and only a handler or its own timer takes it off.                           *)

Completing == {"await", "waiting", "waited"}

\* The shell that waits, or is about to, has nothing to read or a token to take.
ShellFlow ==
  "shell" \in inUse =>
    /\ \A x \in Thread : On(k, "sem", x) => x = Shell /\ DataLen(rx.ring) = 0
    /\ pc[Shell] = "nobyte" /\ DataLen(rx.ring) > 0 => sem > 0

\* The index is what the reader asked for until it is completed, and from then on
\* the bytes are there.  It has no timer, so that only the handler wakes it.
ReaderFlow ==
  /\ \A x \in Thread : On(k, "rx_cpt", x) => x = Reader /\ x \notin k.armed /\ ~rx.done
  /\ pc[Reader] \in Completing \union {"given"} => "reader" \in inUse
  /\ rx.index # 0 \/ rx.done => pc[Reader] \in Completing
  /\ pc[Reader] \in Completing =>
       IF rx.done THEN rx.index = 0 /\ DataLen(rx.ring) >= reading.asked
       ELSE rx.index = reading.asked /\ (pc[Reader] = "await" \/ On(k, "rx_cpt", Reader))
  /\ pc[Reader] = "given" => DataLen(rx.ring) >= reading.asked

\* A writer waits, or is about to, while its bytes are sent, unless it was completed.
WriterFlow ==
  /\ \A x \in Thread : On(k, "tx_cpt", x) =>
       x = Writer /\ "writer" \in inUse /\ ~tx.done /\ Sending
  /\ pc[Writer] = "txawait" => "writer" \in inUse /\ (tx.done \/ Sending)
  /\ DataLen(tx.ring) > 0 => Sending
  /\ tx.active => IF "writer" \in inUse THEN pc[Writer] \in TxLabel ELSE Sending

PortInv == ShellFlow /\ ReaderFlow /\ WriterFlow

\* What the ways of using the port exclude.
LEMMA WaysExclude ==
  ASSUME TxInv
  PROVE  /\ "shell" \in inUse => "reader" \notin inUse /\ "sem" \notin inUse
         /\ "queuer" \in inUse => "writer" \notin inUse
BY SetupsAssumption DEF TxInv

\* The labels of an object that is not the port.
LEMMA ElseLabels ==
  /\ \A l \in SemLabel \union EventLabel \union PoolLabel \union DataLabel :
       l \notin RxLabel /\ l \notin TxLabel /\ l # "nobyte"
  /\ \A l \in RxLabel : l \notin TxLabel
  /\ {"run", "resched"} \intersect (RxLabel \union TxLabel) = {}
BY DEF SemLabel, EventLabel, PoolLabel, DataLabel, ResetLabel, RxLabel, TxLabel

\* A thread that a step of the labels does not concern stays where it is.
LEMMA StaysAt ==
  ASSUME NEW own, NEW labels, Apart(own, labels), NEW ls,
         labels \intersect ls = {}, {"run", "resched"} \intersect ls = {}, NEW x \in Thread
  PROVE  pc'[x] \in ls \/ pc[x] \in ls => pc'[x] = pc[x]
BY DEF Apart

\* Who sends, while the interrupts stay on.
LEMMA SendingKept ==
  ASSUME line' = line, \A x \in Thread : pc[x] \in {"start", "transmit"} => pc'[x] = pc[x]
  PROVE  Sending => Sending'
BY DEF Sending

\* A step that has nothing to do with the shell, its semaphore and its bytes.
LEMMA ShellElsewhere ==
  ASSUME ShellFlow, NEW own, NEW labels, Apart(own, labels), "sem" \notin own,
         "nobyte" \notin labels, UNCHANGED <<inUse, sem, rx>>
  PROVE  ShellFlow'
<1>1. Fewer(k', k, "sem")
  BY CallsAre DEF Apart, Calm, AsMany
<1>2. pc'[Shell] = "nobyte" => pc[Shell] = "nobyte"
  BY SerialAssumption DEF Apart
<1>3. \A x \in Thread : On(k', "sem", x) => On(k, "sem", x)
  BY <1>1 DEF Fewer
<1>4. inUse' = inUse /\ sem' = sem /\ rx' = rx
  OBVIOUS
<1> QED
  BY <1>2, <1>3, <1>4 DEF ShellFlow

\* A step that has nothing to do with the reader; its bytes are somebody else's only
\* where nobody reads like this.
LEMMA ReaderElsewhere ==
  ASSUME ReaderFlow, NEW own, NEW labels, Apart(own, labels), "rx_cpt" \notin own,
         labels \intersect (Completing \union {"given"}) = {},
         inUse' = inUse, rx'.index = rx.index, rx'.done = rx.done, reading'.asked = reading.asked,
         "reader" \in inUse => rx'.ring = rx.ring
  PROVE  ReaderFlow'
<1>1. Fewer(k', k, "rx_cpt") /\ Stay(k', k, "rx_cpt")
  BY CallsAre DEF Apart, Calm, AsMany
<1>2. pc'[Reader] \in Completing \union {"given"} \/ pc[Reader] \in Completing \union {"given"}
        => pc'[Reader] = pc[Reader]
  <2>1. {"run", "resched"} \intersect (Completing \union {"given"}) = {}
    BY DEF Completing
  <2> QED BY <2>1, StaysAt, SerialAssumption
<1>3. /\ \A x \in Thread : On(k', "rx_cpt", x)
           => On(k, "rx_cpt", x) /\ (x \in k'.armed => x \in k.armed)
      /\ On(k, "rx_cpt", Reader) => On(k', "rx_cpt", Reader)
  BY <1>1, SerialAssumption DEF ReaderFlow, Fewer, Stay
<1>4. \A x \in Thread : On(k', "rx_cpt", x) => x = Reader /\ x \notin k'.armed /\ ~rx'.done
  BY <1>3 DEF ReaderFlow
<1>5. pc'[Reader] \in Completing \union {"given"} => "reader" \in inUse'
  BY <1>2 DEF ReaderFlow
<1>6. rx'.index # 0 \/ rx'.done => pc'[Reader] \in Completing
  BY <1>2 DEF ReaderFlow
<1>7. pc'[Reader] \in Completing =>
       IF rx'.done THEN rx'.index = 0 /\ DataLen(rx'.ring) >= reading'.asked
       ELSE rx'.index = reading'.asked /\ (pc'[Reader] = "await" \/ On(k', "rx_cpt", Reader))
  BY <1>2, <1>3, <1>5 DEF ReaderFlow
<1>8. pc'[Reader] = "given" => DataLen(rx'.ring) >= reading'.asked
  BY <1>2, <1>5 DEF ReaderFlow
<1> QED
  BY <1>4, <1>5, <1>6, <1>7, <1>8 DEF ReaderFlow

\* A step that has nothing to do with those that write.
LEMMA WriterElsewhere ==
  ASSUME WriterFlow, NEW own, NEW labels, Apart(own, labels), "tx_cpt" \notin own,
         labels \intersect TxLabel = {}, UNCHANGED <<inUse, tx, line>>
  PROVE  WriterFlow'
<1>1. Fewer(k', k, "tx_cpt")
  BY CallsAre DEF Apart, Calm, AsMany
<1>2. \A x \in Thread : pc'[x] \in TxLabel \/ pc[x] \in TxLabel => pc'[x] = pc[x]
  BY ElseLabels, StaysAt
<1>3. Sending => Sending'
  BY <1>2, SendingKept DEF TxLabel
<1>4. \A x \in Thread : On(k', "tx_cpt", x) => On(k, "tx_cpt", x)
  BY <1>1 DEF Fewer
<1>5. Writer \in Thread /\ "txawait" \in TxLabel
  BY SerialAssumption DEF TxLabel
<1>6. inUse' = inUse /\ tx' = tx
  OBVIOUS
<1> QED
  BY <1>2, <1>3, <1>4, <1>5, <1>6 DEF WriterFlow

\* A thread goes to a label.
LEMMA ComesTo ==
  ASSUME WaitsInv, NEW t \in Thread, NEW l, Goto(t, l)
  PROVE  pc'[t] = l /\ \A x \in Thread \ {t} : pc'[x] = pc[x]
BY DEF WaitsInv, Sound, Goto

\* When a handler wakes the only thread of a list, nobody is left on it.
LEMMA OnlyOneWoken ==
  ASSUME WaitsInv, NEW w \in WaitList, NEW u, HeadWoke(u, k, w, "EOK"), k' = rt_schedule(u),
         NEW t, \A x \in Thread : On(k, w, x) => x = t
  PROVE  \A x \in Thread : ~On(k', w, x)
<1>1. PICK h \in Thread : On(k, w, h) /\ Woke(u, k, h, "EOK")
  BY DEF HeadWoke
<1>2. \A x \in Thread : ~On(u, w, x)
  BY <1>1 DEF Woke
<1>3. Rescheduled(k', u)
  BY <1>1, Reschedules DEF Woke
<1> QED
  BY <1>2, <1>3 DEF Rescheduled, On

LEMMA CompletedLeaves ==
  ASSUME WaitsInv, NEW w \in {"rx_cpt", "tx_cpt"}, NEW done, ~done, Complete(done, w),
         NEW t, \A x \in Thread : On(k, w, x) => x = t
  PROVE  \A x \in Thread : ~On(k', w, x)
<1>1. w \in WaitList /\ Untold(k, w) /\ IpcInv(k)
  BY CallsAre DEF WaitsInv, CptWaits, Sound
<1>2. CASE k.wait[w] = <<>>
  <2>1. k' = k
    BY <1>2 DEF Complete
  <2> QED BY <1>2, <2>1 DEF On, Contains
<1>3. CASE k.wait[w] # <<>>
  <2>1. HeadWoke(rt_thread_resume(k, Head(k.wait[w])), k, w, "EOK")
    BY <1>1, <1>3, HeadResumed
  <2>2. k' = rt_schedule(rt_thread_resume(k, Head(k.wait[w])))
    BY <1>3 DEF Complete
  <2> QED BY <1>1, <2>1, <2>2, OnlyOneWoken
<1> QED
  BY <1>2, <1>3

\* The reads of the shell, its waits and the interrupts that serve it.
LEMMA ShellFlows ==
  ASSUME WaitsInv, RxInv, ShellFlow, "shell" \in inUse, inUse' = inUse, ShellNext
  PROVE  ShellFlow'
<1>1. /\ Shell \in Thread \ {Idle} /\ "sem" \in WaitList
      /\ \A x \in Thread : On(k, "sem", x) => x = Shell /\ DataLen(rx.ring) = 0
      /\ pc[Shell] = "nobyte" /\ DataLen(rx.ring) > 0 => sem > 0
      /\ DataLen(rx.ring) \in Nat /\ sem \in Nat
  BY SerialAssumption, CallsAre, LenValue, BufSizeNat, SemaphoreAssumption
     DEF ShellFlow, RxInv, WaitsInv, SemWaits
<1>2. ASSUME \A x \in Thread : On(k', "sem", x) => x = Shell /\ DataLen(rx'.ring) = 0,
             pc'[Shell] = "nobyte" /\ DataLen(rx'.ring) > 0 => sem' > 0
      PROVE  ShellFlow'
  BY <1>2 DEF ShellFlow
<1>3. CASE ShellRead
  <2>1. pc[Shell] = "run" /\ k' = k /\ sem' = sem
    BY <1>3 DEF ShellRead, At
  <2>2. CASE DataLen(rx.ring) > 0 /\ UNCHANGED pc
    BY <1>1, <1>2, <2>1, <2>2
  <2>3. CASE DataLen(rx.ring) = 0 /\ UNCHANGED rxVars
    <3>1. DataLen(rx'.ring) = 0
      BY <2>3 DEF rxVars
    <3> QED BY <1>1, <1>2, <2>1, <3>1
  <2> QED BY <1>3, <2>2, <2>3 DEF ShellRead
<1>4. CASE At(Shell, "nobyte") /\ TakeToken(Shell, FALSE) /\ UNCHANGED serialVars
  <2>1. k.cur = Shell /\ pc[Shell] = "nobyte" /\ DataLen(rx'.ring) = DataLen(rx.ring)
    BY <1>4 DEF At, serialVars
  <2>2. CASE Goto(Shell, "run") /\ UNCHANGED k
    <3>1. pc'[Shell] = "run"
      BY <1>1, <2>2, ComesTo
    <3> QED BY <1>1, <1>2, <2>1, <2>2, <3>1
  <2>3. CASE /\ sem = 0 /\ Goto(Shell, "taking")
             /\ k' = SuspendTimed([k EXCEPT !.err[Shell] = "EINTR"], "sem", SemFlag, Shell, FALSE)
    <3>1. DataLen(rx.ring) = 0 /\ pc'[Shell] = "taking"
      BY <1>1, <2>1, <2>3, ComesTo
    <3>2. Suspended(k', k, "sem", Shell)
      BY <2>3, SemaphoreAssumption DEF Suspended, Error
    <3>3. Shell = k.cur /\ Shell # Idle /\ pc[Shell] \notin Calls.out /\ pc[Shell] \notin Calls.locked
      BY <1>1, <2>1, CallsAre
    <3>4. Sound(k, pc, Calls)
      BY DEF WaitsInv
    <3>5. \A x \in Thread : On(k', "sem", x) => On(k, "sem", x) \/ x = Shell
      BY <1>1, <3>2, <3>3, <3>4, SuspendJoins
    <3> QED BY <1>1, <1>2, <2>1, <3>1, <3>5
  <2> QED BY <1>4, <2>2, <2>3 DEF TakeToken
<1>5. CASE TakeSchedule(Shell) /\ UNCHANGED serialVars
  <2>1. Apart({}, SemLabel)
    BY <1>1, <1>5, TakeScheduleWaits
  <2>2. UNCHANGED <<inUse, sem, rx>>
    BY <1>5 DEF TakeSchedule, serialVars
  <2> QED BY <2>1, <2>2, ElseLabels, ShellElsewhere
<1>6. CASE TakeReturn(Shell) /\ UNCHANGED serialVars
  <2>1. k' = k /\ pc'[Shell] = "run" /\ DataLen(rx'.ring) = DataLen(rx.ring)
    BY <1>1, <1>6, ComesTo DEF TakeReturn, serialVars
  <2> QED BY <1>1, <1>2, <2>1
<1>7. ASSUME NEW c \in Byte, IsrByteForShell(c) PROVE ShellFlow'
  <2>1. CASE k.wait["sem"] # <<>> /\ k' = rt_schedule(ResumeFirst(k, "sem")) /\ UNCHANGED pc
    <3>1. HeadWoke(ResumeFirst(k, "sem"), k, "sem", "EOK")
      BY <1>1, <2>1, HeadTold DEF ResumeFirst, WaitsInv, Sound, Error
    <3>2. \A x \in Thread : ~On(k', "sem", x)
      BY <1>1, <2>1, <3>1, OnlyOneWoken
    <3>3. PICK h \in Thread : On(k, "sem", h)
      BY <3>1 DEF HeadWoke
    <3>4. h = Shell /\ pc[Shell] \in SemLabel
      BY <1>1, <3>3, CallsAre DEF WaitsInv, Sound, ListFits
    <3>5. pc'[Shell] # "nobyte"
      BY <2>1, <3>4 DEF SemLabel
    <3> QED BY <1>2, <3>2, <3>5
  <2>2. CASE k.wait["sem"] = <<>> /\ sem' > 0 /\ UNCHANGED k
    BY <1>2, <2>2 DEF On, Contains
  <2>3. \/ k.wait["sem"] # <<>> /\ k' = rt_schedule(ResumeFirst(k, "sem")) /\ UNCHANGED pc
        \/ k.wait["sem"] = <<>> /\ sem' > 0 /\ UNCHANGED k
    BY <1>1, <1>7, SemaphoreAssumption DEF IsrByteForShell, IsrRelease
  <2> QED BY <2>1, <2>2, <2>3
<1> QED
  BY <1>3, <1>4, <1>5, <1>6, <1>7 DEF ShellNext, ShellTake

\* A thread that runs is on no list.
LEMMA RunnerWaitsNowhere ==
  ASSUME WaitsInv, k.cur \in Thread, pc[k.cur] \notin Calls.out, NEW w \in WaitList
  PROVE  ~On(k, w, k.cur) /\ k.cur \notin k.armed /\ k.stat[k.cur] = "running"
<1>1. Sound(k, pc, Calls)
  BY DEF WaitsInv
<1> QED
  BY <1>1, CallerRuns DEF WaitsSomewhere, On

\* A byte that arrives makes the ring no shorter.
LEMMA PutGrows ==
  ASSUME NEW r, RingOK(r), NEW c \in Byte
  PROVE  DataLen(r) \in Nat /\ DataLen(PutChar(r, c)) \in Nat /\ DataLen(PutChar(r, c)) >= DataLen(r)
<1>1. DataLen(r) \in Nat /\ DataLen(PutChar(r, c)) \in Nat
  BY LenValue, PutCharContents, BufSizeNat
<1>2. CASE DataLen(r) = BufSize
  <2>1. PutChar(r, c) = r
    BY <1>2, PutCharContents
  <2> QED BY <1>1, <2>1
<1>3. CASE DataLen(r) # BufSize
  <2>1. /\ Contents(r) \in Seq(Stored) /\ Len(Contents(r)) = DataLen(r) /\ c \in Stored
        /\ Len(Contents(PutChar(r, c))) = DataLen(PutChar(r, c))
    BY ContentsLen, PutCharContents DEF Stored
  <2>2. Contents(PutChar(r, c)) = Append(Contents(r), c)
    BY <1>3, PutCharContents
  <2>3. Len(Append(Contents(r), c)) = Len(Contents(r)) + 1
    BY <2>1, AppendProperties
  <2> QED BY <1>1, <2>1, <2>2, <2>3
<1> QED
  BY <1>2, <1>3

\* The reader goes on, with nothing asked for.
LEMMA ReaderGoesOn ==
  ASSUME WaitsInv, ReaderFlow, NEW from, At(Reader, from), from \notin Calls.out,
         NEW to, Goto(Reader, to), to \notin Completing \union {"given"}, UNCHANGED <<k, inUse>>,
         rx'.index = 0, ~rx'.done
  PROVE  ReaderFlow'
<1>1. Reader \in Thread /\ "rx_cpt" \in WaitList /\ k.cur = Reader /\ pc[k.cur] = from
  BY SerialAssumption, CallsAre DEF At
<1>2. ~On(k, "rx_cpt", Reader)
  BY <1>1, RunnerWaitsNowhere
<1>3. \A x \in Thread : ~On(k', "rx_cpt", x)
  BY <1>2 DEF ReaderFlow
<1>4. pc'[Reader] = to
  BY <1>1, ComesTo
<1> QED
  BY <1>3, <1>4 DEF ReaderFlow, Completing

\* The reader asks for bytes, and waits for the handler that completes it.
LEMMA AskFlows ==
  ASSUME WaitsInv, RxInv, ReaderFlow, "reader" \in inUse, inUse' = inUse, Ask \/ AwaitBytes
  PROVE  ReaderFlow'
<1>1. /\ Reader \in Thread \ {Idle} /\ "rx_cpt" \in WaitList
      /\ k.cur = Reader /\ pc[Reader] \in {"ask", "await"} /\ pc[Reader] \notin Calls.out
      /\ pc[Reader] \notin Calls.locked
  BY SerialAssumption, CallsAre DEF Ask, AwaitBytes, At
<1>2. ~On(k, "rx_cpt", Reader) /\ Reader \notin k.armed /\ k.stat[Reader] = "running"
  BY <1>1, RunnerWaitsNowhere
<1>3. \A x \in Thread : ~On(k, "rx_cpt", x)
  BY <1>2 DEF ReaderFlow
<1>4. CASE Ask
  <2>1. /\ pc[Reader] = "ask" /\ k' = k /\ reading' = reading
        /\ rx' = [rx EXCEPT !.index = reading.asked] /\ pc'[Reader] = "await"
    BY <1>1, <1>4, ComesTo DEF Ask, At
  <2>2. rx'.index = reading'.asked /\ rx'.done = rx.done /\ ~rx.done
    BY <2>1 DEF RxInv, ReaderFlow, Completing
  <2> QED BY <1>3, <2>1, <2>2 DEF ReaderFlow, Completing
<1>5. CASE AwaitBytes /\ rx.done
  <2>1. /\ pc[Reader] = "await" /\ k' = k /\ reading' = reading
        /\ rx' = [rx EXCEPT !.done = FALSE] /\ pc'[Reader] = "given"
    BY <1>1, <1>5, ComesTo DEF AwaitBytes, At
  <2>2. rx.index = 0 /\ DataLen(rx.ring) >= reading.asked
    BY <1>5, <2>1 DEF ReaderFlow, Completing
  <2>3. rx'.index = 0 /\ rx'.done = FALSE /\ DataLen(rx'.ring) >= reading'.asked
    BY <2>1, <2>2 DEF RxInv
  <2> QED BY <1>3, <2>1, <2>3 DEF ReaderFlow, Completing
<1>6. CASE AwaitBytes /\ ~rx.done
  <2>1. /\ pc[Reader] = "await" /\ reading' = reading /\ rx' = rx
        /\ Suspend(Reader, "rx_cpt") /\ pc'[Reader] = "waiting"
    BY <1>1, <1>6, ComesTo DEF AwaitBytes, At
  <2>2. Waits(k', k, "rx_cpt", Reader, "EOK", FALSE)
    <3> DEFINE flag == "FIFO"
               e == "EOK"
               finite == FALSE
    <3>1. flag \in {"FIFO", "PRIO"} /\ finite \in BOOLEAN /\ e \in Error
      BY DEF Error
    <3>2. k' = SuspendTimed([k EXCEPT !.err[Reader] = e], "rx_cpt", flag, Reader, finite)
      BY <2>1 DEF Suspend
    <3>3. IpcInv(k) /\ k.lock = 0
      BY <1>1, CallerRuns DEF WaitsInv, Sound
    <3> HIDE DEF flag, e, finite
    <3>4. Waits(k', k, "rx_cpt", Reader, e, finite)
      BY <1>1, <1>2, <3>1, <3>2, <3>3, SuspendWaits
    <3> QED BY <3>4 DEF e, finite
  <2>3. /\ \A x \in Thread : On(k', "rx_cpt", x) <=> x = Reader
        /\ k'.armed = k.armed
    BY <1>1, <1>3, <2>2 DEF Waits
  <2>4. rx.index = reading.asked
    BY <1>6, <2>1 DEF ReaderFlow, Completing
  <2>5. \A x \in Thread : On(k', "rx_cpt", x) => x = Reader /\ x \notin k'.armed /\ ~rx'.done
    BY <1>2, <1>6, <2>1, <2>3
  <2>6. On(k', "rx_cpt", Reader)
    BY <1>1, <2>3
  <2> QED BY <1>6, <2>1, <2>4, <2>5, <2>6 DEF ReaderFlow, Completing
<1> QED
  BY <1>4, <1>5, <1>6

\* It is given the processor again in its wait: the handler has completed it.
LEMMA AwaitedFlows ==
  ASSUME WaitsInv, RxInv, ReaderFlow, "reader" \in inUse, inUse' = inUse, AwaitedBytes
  PROVE  ReaderFlow'
<1>1. Reader \in Thread /\ "rx_cpt" \in WaitList
  BY SerialAssumption, CallsAre
<1>2. CASE ScheduleThen(Reader, "waiting", "waited") /\ UNCHANGED rxVars
  <2>1. /\ pc[Reader] = "waiting" /\ pc'[Reader] = "waited" /\ rx' = rx /\ reading' = reading
        /\ k' = rt_schedule(k)
    BY <1>1, <1>2, ComesTo DEF ScheduleThen, At, rxVars
  <2>2. Rescheduled(k', k)
    BY <2>1, Reschedules DEF WaitsInv, Sound
  <2>3. k'.armed = k.armed /\ \A x \in Thread : On(k', "rx_cpt", x) <=> On(k, "rx_cpt", x)
    BY <2>2 DEF Rescheduled, On
  <2> QED BY <1>1, <2>1, <2>3 DEF ReaderFlow, Completing
<1>3. CASE At(Reader, "waited") /\ rx' = [rx EXCEPT !.done = FALSE] /\ Goto(Reader, "given")
           /\ UNCHANGED <<k, reading>>
  <2>1. k.cur = Reader /\ pc[Reader] = "waited" /\ "waited" \notin Calls.out /\ pc'[Reader] = "given"
    BY <1>1, <1>3, ComesTo, CallsAre DEF At
  <2>2. ~On(k, "rx_cpt", Reader)
    BY <1>1, <2>1, RunnerWaitsNowhere
  <2>3. rx.done /\ rx.index = 0 /\ DataLen(rx.ring) >= reading.asked
        /\ \A x \in Thread : ~On(k, "rx_cpt", x)
    BY <2>1, <2>2 DEF ReaderFlow, Completing
  <2>4. rx'.index = 0 /\ rx'.done = FALSE /\ DataLen(rx'.ring) >= reading'.asked
    BY <1>3, <2>3 DEF RxInv
  <2> QED BY <1>3, <2>1, <2>3, <2>4 DEF ReaderFlow, Completing
<1> QED
  BY <1>2, <1>3 DEF AwaitedBytes

\* A byte arrives for the reader.
LEMMA ByteFlows ==
  ASSUME WaitsInv, RxInv, ReaderFlow, "reader" \in inUse, inUse' = inUse,
         NEW c \in Byte, IsrByteForReader(c)
  PROVE  ReaderFlow'
<1> DEFINE ring == PutChar(rx.ring, c)
           enough == rx.index # 0 /\ DataLen(ring) >= rx.index
<1>1. /\ pc' = pc /\ reading' = reading /\ rx'.ring = ring
      /\ rx'.index = (IF enough THEN 0 ELSE rx.index) /\ (rx'.done <=> rx.done \/ enough)
      /\ IF enough THEN Complete(rx.done, "rx_cpt") ELSE UNCHANGED k
  BY DEF IsrByteForReader
<1>2. /\ DataLen(rx.ring) \in Nat /\ DataLen(ring) \in Nat /\ DataLen(ring) >= DataLen(rx.ring)
      /\ reading.asked \in Nat
  BY PutGrows DEF RxInv
<1>3. CASE enough
  <2>1. ~rx.done /\ pc[Reader] \in Completing /\ rx.index = reading.asked
    BY <1>3 DEF ReaderFlow
  <2>2. \A x \in Thread : On(k, "rx_cpt", x) => x = Reader
    BY DEF ReaderFlow
  <2>3. Complete(rx.done, "rx_cpt")
    BY <1>1, <1>3
  <2>4. \A x \in Thread : ~On(k', "rx_cpt", x)
    BY <2>1, <2>2, <2>3, CompletedLeaves
  <2>5. rx'.done /\ rx'.index = 0 /\ DataLen(rx'.ring) >= reading'.asked
    BY <1>1, <1>3, <2>1
  <2> HIDE DEF ring, enough
  <2> QED BY <1>1, <2>1, <2>4, <2>5 DEF ReaderFlow, Completing
<1>4. CASE ~enough
  <2>1. k' = k /\ rx'.index = rx.index /\ (rx'.done <=> rx.done) /\ rx'.ring = ring
    BY <1>1, <1>4
  <2> HIDE DEF ring, enough
  <2>2. DataLen(rx.ring) >= reading.asked => DataLen(rx'.ring) >= reading'.asked
    BY <1>1, <1>2
  <2> QED BY <1>1, <2>1, <2>2 DEF ReaderFlow
<1> QED
  BY <1>3, <1>4

\* The steps of the reader and of the interrupts that serve it.
LEMMA ReaderFlows ==
  ASSUME WaitsInv, RxInv, ReaderFlow, "reader" \in inUse, inUse' = inUse, ReaderNext
  PROVE  ReaderFlow'
<1>1. ASSUME NEW from \in {"run", "index", "mirror", "length", "fetch", "given"}, At(Reader, from),
             NEW to \in {"run", "index", "mirror", "length", "ask", "fetch"}, Goto(Reader, to),
             UNCHANGED k, rx'.index = rx.index, rx'.done = rx.done
      PROVE  ReaderFlow'
  <2>1. from \notin Calls.out /\ to \notin Completing \union {"given"} /\ pc[Reader] \notin Completing
    BY <1>1, CallsAre DEF Completing, At
  <2>2. rx'.index = 0 /\ ~rx'.done
    BY <1>1, <2>1 DEF ReaderFlow
  <2> QED BY <1>1, <2>1, <2>2, ReaderGoesOn
<1>2. ASSUME NEW n \in 1..BufSize, ReadCall(n) PROVE ReaderFlow'
  BY <1>1, <1>2 DEF ReadCall
<1>3. CASE LookAtIndex
  <2> DEFINE to == IF SameIndex(rx.ring) THEN "mirror" ELSE "length"
  <2>1. to \in {"mirror", "length"} /\ At(Reader, "index") /\ Goto(Reader, to) /\ UNCHANGED k /\ rx' = rx
    BY <1>3 DEF LookAtIndex, rxVars
  <2> HIDE DEF to
  <2> QED BY <1>1, <2>1
<1>4. CASE LookAtLength
  <2> PICK len \in 0..BufSize :
       /\ At(Reader, "mirror") \/ At(Reader, "length")
       /\ Goto(Reader, IF len < reading.asked THEN "ask" ELSE "fetch")
    BY <1>4 DEF LookAtLength
  <2> DEFINE to == IF len < reading.asked THEN "ask" ELSE "fetch"
  <2>1. to \in {"ask", "fetch"} /\ Goto(Reader, to) /\ UNCHANGED k /\ rx' = rx
    BY <1>4 DEF LookAtLength, rxVars
  <2> HIDE DEF to
  <2> QED BY <1>1, <2>1
<1>5. CASE FetchBytes
  <2> DEFINE len == DataLen(rx.ring)
             n == IF len < reading.asked THEN len ELSE reading.asked
  <2>1. UNCHANGED rxVars \/ GetBytes(n)
    BY <1>5 DEF FetchBytes
  <2> HIDE DEF n
  <2>2. rx'.index = rx.index /\ rx'.done = rx.done
    BY <2>1 DEF GetBytes, RxInv, rxVars
  <2>3. (At(Reader, "fetch") \/ At(Reader, "given")) /\ Goto(Reader, "run") /\ UNCHANGED k
    BY <1>5 DEF FetchBytes
  <2> QED BY <1>1, <2>2, <2>3
<1> QED
  BY <1>2, <1>3, <1>4, <1>5, AskFlows, AwaitedFlows, ByteFlows DEF ReaderNext

\* The steps of threads that queue what they write, and of the interrupts: the port
\* is active while somebody sends.
LEMMA QueuerFlows ==
  ASSUME WaitsInv, TxInv, WriterFlow, "queuer" \in inUse, inUse' = inUse, QueuerNext
  PROVE  WriterFlow'
<1>1. "writer" \notin inUse /\ Writer \in Thread
  BY WaysExclude, SerialAssumption
<1>2. /\ \A x \in Thread : ~On(k, "tx_cpt", x)
      /\ pc[Writer] # "txawait"
      /\ DataLen(tx.ring) > 0 => Sending
      /\ tx.active => Sending
  BY <1>1 DEF WriterFlow
<1>3. ASSUME UNCHANGED k, pc'[Writer] # "txawait",
             Sending' \/ (~(DataLen(tx'.ring) > 0) /\ ~tx'.active)
      PROVE  WriterFlow'
  BY <1>1, <1>2, <1>3 DEF WriterFlow
<1>4. ASSUME NEW t \in Queuer, NEW l \in {"run", "start"}, Goto(t, l)
      PROVE  pc'[Writer] # "txawait" /\ pc'[t] = l /\ \A x \in Thread \ {t} : pc'[x] = pc[x]
  BY <1>1, <1>2, <1>4, ComesTo, SerialAssumption
<1>5. ASSUME NEW t \in Queuer, NEW s \in Text, QueueBytes(t, s) PROVE WriterFlow'
  <2>1. t \in Thread /\ pc[t] = "run" /\ k' = k /\ line' = line
    BY <1>5, SerialAssumption DEF QueueBytes, At
  <2>2. CASE tx.active
    <3>1. Goto(t, "run")
      BY <1>5, <2>2 DEF QueueBytes
    <3>2. Sending'
      BY <1>2, <1>4, <2>1, <2>2, <3>1, SendingKept
    <3> QED BY <1>3, <1>4, <2>1, <3>1, <3>2
  <2>3. CASE ~tx.active
    <3>1. Goto(t, "start")
      BY <1>5, <2>3 DEF QueueBytes
    <3>2. Sending'
      BY <1>4, <2>1, <3>1 DEF Sending
    <3> QED BY <1>3, <1>4, <2>1, <3>1, <3>2
  <2> QED BY <2>2, <2>3
<1>6. ASSUME NEW t \in Queuer, StartSending(t) PROVE WriterFlow'
  <2>1. Goto(t, "run") /\ k' = k /\ line' = [line EXCEPT !.txe = TRUE]
    BY <1>6 DEF StartSending
  <2>2. Sending'
    BY <2>1 DEF Sending, TxInv
  <2> QED BY <1>3, <1>4, <2>1, <2>2
<1>7. CASE IsrTxe
  <2>1. k' = k /\ pc' = pc /\ (line'.txe \/ line'.tc)
    BY <1>7 DEF IsrTxe, TxInv
  <2> QED BY <1>2, <1>3, <2>1 DEF Sending
<1>8. CASE IsrSent(FALSE)
  <2>1. k' = k /\ pc' = pc
    BY <1>8 DEF IsrSent
  <2>2. CASE DataLen(tx.ring) > 0
    <3>1. line' = [line EXCEPT !.tc = FALSE, !.txe = TRUE]
      BY <1>8, <2>2 DEF IsrSent
    <3>2. line'.txe
      BY <3>1 DEF TxInv
    <3> QED BY <1>2, <1>3, <2>1, <3>2 DEF Sending
  <2>3. CASE DataLen(tx.ring) = 0 /\ tx' = [tx EXCEPT !.active = FALSE]
    <3>1. ~tx'.active /\ DataLen(tx'.ring) = 0
      BY <2>3 DEF TxInv
    <3> QED BY <1>2, <1>3, <2>1, <3>1
  <2> QED BY <1>8, <2>2, <2>3 DEF IsrSent
<1> QED
  BY <1>5, <1>6, <1>7, <1>8 DEF QueuerNext

\* The writer goes on with its call.
LEMMA WriterGoesOn ==
  ASSUME WaitsInv, WriterFlow, "writer" \in inUse, UNCHANGED <<k, inUse>>,
         NEW from, At(Writer, from), from \notin Calls.out, NEW to, Goto(Writer, to),
         to = "txawait" \/ DataLen(tx'.ring) > 0 => Sending', tx'.active => to \in TxLabel
  PROVE  WriterFlow'
<1>1. Writer \in Thread /\ "tx_cpt" \in WaitList /\ k.cur = Writer /\ pc[k.cur] = from
  BY SerialAssumption, CallsAre DEF At
<1>2. \A x \in Thread : ~On(k', "tx_cpt", x)
  BY <1>1, RunnerWaitsNowhere DEF WriterFlow
<1>3. pc'[Writer] = to
  BY <1>1, ComesTo
<1> QED
  BY <1>2, <1>3 DEF WriterFlow

\* It waits, while its bytes are sent, for the handler that completes it.
LEMMA SentFlows ==
  ASSUME WaitsInv, TxInv, WriterFlow, "writer" \in inUse, inUse' = inUse, AwaitSent \/ AwaitedSent
  PROVE  WriterFlow'
<1>1. Writer \in Thread \ {Idle} /\ "tx_cpt" \in WaitList /\ "more" \in TxLabel
  BY SerialAssumption, CallsAre DEF TxLabel
<1>2. ASSUME NEW from \in {"txawait", "txwaited"}, At(Writer, from), Goto(Writer, "more"),
             UNCHANGED <<k, line>>, tx'.ring = tx.ring
      PROVE  WriterFlow'
  <2>1. from \notin Calls.out
    BY CallsAre
  <2>2. pc[Writer] = from /\ \A x \in Thread \ {Writer} : pc'[x] = pc[x]
    BY <1>1, <1>2, ComesTo DEF At
  <2>3. DataLen(tx'.ring) > 0 => Sending'
    BY <1>2, <2>2, SendingKept DEF WriterFlow
  <2> QED BY <1>1, <1>2, <2>1, <2>3, WriterGoesOn
<1>3. CASE AwaitSent /\ tx.done
  <2>1. /\ At(Writer, "txawait") /\ Goto(Writer, "more") /\ UNCHANGED <<k, line>>
        /\ tx' = [tx EXCEPT !.done = FALSE]
    BY <1>3 DEF AwaitSent
  <2>2. tx'.ring = tx.ring
    BY <2>1 DEF TxInv
  <2> QED BY <1>2, <2>1, <2>2
<1>4. CASE AwaitSent /\ ~tx.done
  <2>1. /\ k.cur = Writer /\ pc[Writer] = "txawait" /\ Suspend(Writer, "tx_cpt") /\ tx' = tx
        /\ line' = line /\ Goto(Writer, "txwaiting")
    BY <1>4 DEF AwaitSent, At
  <2>2. pc'[Writer] = "txwaiting" /\ \A x \in Thread \ {Writer} : pc'[x] = pc[x]
    BY <1>1, <2>1, ComesTo
  <2>3. Sending /\ Sending'
    BY <1>4, <2>1, <2>2, SendingKept DEF WriterFlow
  <2>4. Suspended(k', k, "tx_cpt", Writer)
    BY <2>1 DEF Suspended, Suspend, Error
  <2>5. /\ Sound(k, pc, Calls) /\ Writer = k.cur /\ Writer # Idle
        /\ pc[Writer] \notin Calls.out /\ pc[Writer] \notin Calls.locked
    BY <1>1, <2>1, CallsAre DEF WaitsInv
  <2>6. \A x \in Thread : On(k', "tx_cpt", x) => On(k, "tx_cpt", x) \/ x = Writer
    BY <1>1, <2>4, <2>5, SuspendJoins
  <2>7. \A x \in Thread : On(k', "tx_cpt", x) => x = Writer
    BY <2>6 DEF WriterFlow
  <2> QED BY <1>4, <2>1, <2>2, <2>3, <2>7 DEF WriterFlow, TxLabel
<1>5. CASE ScheduleThen(Writer, "txwaiting", "txwaited") /\ UNCHANGED txVars
  <2>1. /\ k' = rt_schedule(k) /\ tx' = tx /\ line' = line /\ pc[Writer] = "txwaiting"
        /\ pc'[Writer] = "txwaited" /\ \A x \in Thread \ {Writer} : pc'[x] = pc[x]
    BY <1>1, <1>5, ComesTo DEF ScheduleThen, At, txVars
  <2>2. Rescheduled(k', k)
    BY <2>1, Reschedules DEF WaitsInv, Sound
  <2>3. \A x \in Thread : On(k', "tx_cpt", x) <=> On(k, "tx_cpt", x)
    BY <2>2 DEF Rescheduled, On
  <2>4. Sending => Sending'
    BY <2>1, SendingKept
  <2> QED BY <2>1, <2>3, <2>4 DEF WriterFlow, TxLabel
<1>6. CASE At(Writer, "txwaited") /\ tx' = [tx EXCEPT !.done = FALSE] /\ Goto(Writer, "more")
           /\ UNCHANGED <<k, line, unsent>>
  <2>1. tx'.ring = tx.ring
    BY <1>6 DEF TxInv
  <2> QED BY <1>2, <1>6, <2>1
<1> QED
  BY <1>3, <1>4, <1>5, <1>6 DEF AwaitedSent

\* The steps of the thread that waits until all is sent, and of the interrupts.
LEMMA WriterFlows ==
  ASSUME WaitsInv, TxInv, WriterFlow, "writer" \in inUse, inUse' = inUse, WriterNext
  PROVE  WriterFlow'
<1>1. /\ Writer \in Thread /\ "tx_cpt" \in WaitList
      /\ {"run", "more", "transmit"} \intersect Calls.out = {}
  BY SerialAssumption, CallsAre
<1>2. ASSUME NEW s \in Text, WriteCall(s) PROVE WriterFlow'
  <2>1. /\ At(Writer, "run") /\ Goto(Writer, "more") /\ UNCHANGED <<k, line>>
        /\ tx' = [tx EXCEPT !.active = TRUE]
    BY <1>2 DEF WriteCall
  <2>2. tx'.ring = tx.ring /\ pc[Writer] = "run" /\ \A x \in Thread \ {Writer} : pc'[x] = pc[x]
    BY <1>1, <2>1, ComesTo DEF TxInv, At
  <2>3. DataLen(tx'.ring) > 0 => Sending'
    BY <2>1, <2>2, SendingKept DEF WriterFlow
  <2> QED BY <1>1, <2>1, <2>3, WriterGoesOn DEF TxLabel
<1>3. CASE FillRing
  <2>1. At(Writer, "more") /\ Goto(Writer, "transmit") /\ UNCHANGED <<k, line>>
    BY <1>3 DEF FillRing
  <2>2. Sending'
    BY <1>1, <2>1, ComesTo DEF Sending
  <2> QED BY <1>1, <2>1, <2>2, WriterGoesOn DEF TxLabel
<1>4. CASE Transmit
  <2>1. At(Writer, "transmit") /\ Goto(Writer, "txawait") /\ k' = k /\ line' = [line EXCEPT !.txe = TRUE]
    BY <1>4 DEF Transmit
  <2>2. Sending'
    BY <2>1 DEF Sending, TxInv
  <2> QED BY <1>1, <2>1, <2>2, WriterGoesOn DEF TxLabel
<1>5. CASE WriteReturn
  <2>1. /\ At(Writer, "more") /\ Goto(Writer, "run") /\ UNCHANGED <<k, line>>
        /\ tx' = [tx EXCEPT !.active = FALSE]
    BY <1>5 DEF WriteReturn
  <2>2. /\ tx'.ring = tx.ring /\ ~tx'.active
        /\ pc[Writer] = "more" /\ \A x \in Thread \ {Writer} : pc'[x] = pc[x]
    BY <1>1, <2>1, ComesTo DEF TxInv, At
  <2>3. DataLen(tx'.ring) > 0 => Sending'
    BY <2>1, <2>2, SendingKept DEF WriterFlow
  <2> QED BY <1>1, <2>1, <2>2, <2>3, WriterGoesOn
<1>6. CASE IsrTxe
  <2>1. /\ k' = k /\ pc' = pc /\ (line'.txe \/ line'.tc) /\ tx'.done = tx.done
        /\ tx'.active = tx.active
    BY <1>6 DEF IsrTxe, TxInv
  <2>2. Sending'
    BY <2>1 DEF Sending
  <2> QED BY <2>1, <2>2 DEF WriterFlow
<1>7. CASE IsrSent(TRUE) /\ DataLen(tx.ring) > 0
  <2>1. k' = k /\ pc' = pc /\ tx' = tx /\ line' = [line EXCEPT !.tc = FALSE, !.txe = TRUE]
    BY <1>7 DEF IsrSent
  <2>2. Sending'
    BY <2>1 DEF Sending, TxInv
  <2> QED BY <2>1, <2>2 DEF WriterFlow
<1>8. CASE /\ DataLen(tx.ring) = 0 /\ UNCHANGED pc
           /\ Complete(tx.done, "tx_cpt") /\ tx' = [tx EXCEPT !.done = TRUE]
  <2>1. tx'.ring = tx.ring /\ tx'.done /\ tx'.active = tx.active /\ pc' = pc
    BY <1>8 DEF TxInv
  <2>2. \A x \in Thread : ~On(k', "tx_cpt", x)
    <3>1. CASE tx.done
      <4>1. k' = k
        BY <1>8, <3>1 DEF Complete
      <4> QED BY <3>1, <4>1 DEF WriterFlow
    <3>2. CASE ~tx.done
      <4>1. \A x \in Thread : On(k, "tx_cpt", x) => x = Writer
        BY DEF WriterFlow
      <4> QED BY <1>8, <3>2, <4>1, CompletedLeaves
    <3> QED BY <3>1, <3>2
  <2>3. ~(DataLen(tx'.ring) > 0)
    BY <1>8, <2>1
  <2> QED BY <2>1, <2>2, <2>3 DEF WriterFlow
<1>9. IsrSent(TRUE) => WriterFlow'
  BY <1>7, <1>8 DEF IsrSent
<1> QED
  BY <1>2, <1>3, <1>4, <1>5, <1>6, <1>9, SentFlows DEF WriterNext

\* A step with the lists of own leaves what the port promises as it was, when
\* nobody uses the port in it.
LEMMA PortElsewhere ==
  ASSUME TxInv, PortInv, NEW own, NEW labels, Apart(own, labels),
         own \intersect {"rx_cpt", "tx_cpt"} = {}, "sem" \in own => "sem" \in inUse,
         \A l \in labels : l \notin RxLabel /\ l \notin TxLabel /\ l # "nobyte",
         UNCHANGED <<inUse, serialVars>>, "shell" \in inUse => sem' = sem
  PROVE  PortInv'
<1>1. /\ inUse' = inUse /\ rx' = rx /\ reading' = reading /\ tx' = tx /\ line' = line
  BY DEF serialVars
<1>2. ShellFlow'
  <2>1. CASE "shell" \notin inUse
    BY <1>1, <2>1 DEF ShellFlow
  <2>2. CASE "shell" \in inUse
    <3>1. "sem" \notin own /\ "nobyte" \notin labels /\ UNCHANGED <<inUse, sem, rx>>
      BY <1>1, <2>2, WaysExclude
    <3> QED BY <3>1, ShellElsewhere DEF PortInv
  <2> QED BY <2>1, <2>2
<1>3. ReaderFlow'
  <2>1. "rx_cpt" \notin own /\ labels \intersect (Completing \union {"given"}) = {}
    BY DEF Completing, RxLabel
  <2> QED BY <1>1, <2>1, ReaderElsewhere DEF PortInv
<1>4. WriterFlow'
  <2>1. "tx_cpt" \notin own /\ labels \intersect TxLabel = {} /\ UNCHANGED <<inUse, tx, line>>
    BY <1>1
  <2> QED BY <2>1, WriterElsewhere DEF PortInv
<1> QED
  BY <1>2, <1>3, <1>4 DEF PortInv

\* Each way of using the port keeps what it promises to the threads of the others.
LEMMA PortStepFlows ==
  ASSUME WaitsInv, RxInv, TxInv, PortInv, inUse' = inUse, SerialNext
  PROVE  PortInv'
<1>1. ShellFlow /\ ReaderFlow /\ WriterFlow
  BY DEF PortInv
<1>2. CASE "shell" \in inUse /\ ShellNext
  <2>1. Apart({"sem"}, SemLabel \union {"nobyte"})
    BY <1>2, ShellWaits DEF ShellStepGood, PortStep
  <2>2. /\ tx' = tx /\ line' = line /\ "reader" \notin inUse
        /\ rx'.index = rx.index /\ rx'.done = rx.done /\ reading'.asked = reading.asked
    BY <1>2, WaysExclude DEF ShellNext, ShellRead, ShellTake, IsrByteForShell, GetBytes,
       serialVars, txVars, rxVars, RxInv
  <2>3. /\ (SemLabel \union {"nobyte"}) \intersect TxLabel = {}
        /\ (SemLabel \union {"nobyte"}) \intersect (Completing \union {"given"}) = {}
    BY DEF SemLabel, TxLabel, Completing
  <2>4. ReaderFlow'
    BY <1>1, <2>1, <2>2, <2>3, ReaderElsewhere
  <2>5. WriterFlow'
    BY <1>1, <2>1, <2>2, <2>3, WriterElsewhere
  <2> QED BY <1>1, <1>2, <2>4, <2>5, ShellFlows DEF PortInv
<1>3. CASE "reader" \in inUse /\ ReaderNext
  <2>1. Apart({"rx_cpt"}, RxLabel)
    BY <1>3, ReaderWaits DEF ReaderStepGood, PortStep
  <2>2. tx' = tx /\ line' = line /\ "shell" \notin inUse
    BY <1>3, WaysExclude DEF ReaderNext, txVars
  <2>3. ShellFlow'
    BY <2>2 DEF ShellFlow
  <2>4. RxLabel \intersect TxLabel = {}
    BY ElseLabels
  <2>5. WriterFlow'
    BY <1>1, <2>1, <2>2, <2>4, WriterElsewhere
  <2> QED BY <1>1, <1>3, <2>3, <2>5, ReaderFlows DEF PortInv
<1>4. CASE \/ "queuer" \in inUse /\ QueuerNext
           \/ "writer" \in inUse /\ WriterNext
  <2>1. Apart({"tx_cpt"}, TxLabel)
    BY <1>4, QueuerWaits, WriterWaits DEF SenderStepGood, PortStep
  <2>2. rx' = rx /\ reading' = reading /\ sem' = sem
    BY <1>4 DEF QueuerNext, WriterNext, rxVars
  <2>3. "nobyte" \notin TxLabel /\ TxLabel \intersect (Completing \union {"given"}) = {}
    BY DEF TxLabel, Completing
  <2>4. ShellFlow'
    BY <1>1, <2>1, <2>2, <2>3, ShellElsewhere
  <2>5. ReaderFlow'
    BY <1>1, <2>1, <2>2, <2>3, ReaderElsewhere
  <2> QED BY <1>1, <1>4, <2>4, <2>5, QueuerFlows, WriterFlows DEF PortInv
<1> QED
  BY <1>2, <1>3, <1>4 DEF SerialNext

LEMMA NextPort == ObjectsInv /\ RxInv /\ TxInv /\ PortInv /\ [Next]_vars => PortInv'
<1> SUFFICES ASSUME ObjectsInv, RxInv, TxInv, PortInv, [Next]_vars PROVE PortInv'
  OBVIOUS
<1>1. inUse' = inUse /\ WaitsInv /\ PoolInv /\ DataInv
  BY DEF Next, vars, ObjectsInv
<1>2. CASE "sem" \in inUse /\ SemNext
           /\ UNCHANGED <<inUse, eventVars, poolVars, dataVars, serialVars>>
  <2>1. Apart({"sem"}, SemLabel) /\ "shell" \notin inUse
    BY <1>1, <1>2, SemStep, WaysExclude
  <2> QED BY <1>2, <2>1, ElseLabels, PortElsewhere
<1>3. CASE EventNext /\ UNCHANGED <<inUse, sem, poolVars, dataVars, serialVars>>
  <2>1. Apart({"event"}, EventLabel)
    BY <1>1, <1>3, EventStep
  <2> QED BY <1>3, <2>1, ElseLabels, PortElsewhere
<1>4. CASE PoolNext /\ UNCHANGED <<inUse, sem, eventVars, dataVars, serialVars>>
  <2>1. Apart({"pool"}, PoolLabel)
    BY <1>1, <1>4, PoolStep
  <2> QED BY <1>4, <2>1, ElseLabels, PortElsewhere
<1>5. CASE DataNext /\ UNCHANGED <<inUse, sem, eventVars, poolVars, serialVars>>
  <2>1. Apart({"pushers", "poppers"}, DataLabel)
    BY <1>1, <1>5, DataStepWaits DEF DataStepGood
  <2> QED BY <1>5, <2>1, ElseLabels, PortElsewhere
<1>6. CASE SerialNext /\ UNCHANGED <<inUse, eventVars, poolVars, dataVars>>
  BY <1>1, <1>6, PortStepFlows
<1>7. CASE Common /\ UNCHANGED <<inUse, sem, eventVars, poolVars, dataVars, serialVars>>
  <2>1. Apart({}, {})
    BY <1>1, <1>7, CommonWaits
  <2> QED BY <1>7, <2>1, PortElsewhere
<1>8. CASE UNCHANGED vars
  <2>1. Apart({}, {})
    <3>1. UNCHANGED <<k, pc, sem>>
      BY <1>8 DEF vars
    <3> QED BY <1>1, <3>1, PortStays DEF PortStep
  <2>2. UNCHANGED <<inUse, serialVars>> /\ sem' = sem
    BY <1>8 DEF vars
  <2> QED BY <2>1, <2>2, PortElsewhere
<1> QED
  BY <1>2, <1>3, <1>4, <1>5, <1>6, <1>7, <1>8 DEF Next

\* At the start nobody waits, and nothing is on its way.
LEMMA InitPort == Init => PortInv
<1> SUFFICES ASSUME Init PROVE PortInv
  OBVIOUS
<1>1. k = Started(Main, InitPrio) /\ pc = [t \in Thread |-> "run"]
  BY DEF Init, StartedKernel
<1>2. \A w \in {"sem", "rx_cpt", "tx_cpt"} : \A t \in Thread : ~On(k, w, t)
  BY <1>1, CallsAre DEF Started, On, Contains
<1>3. pc[Shell] = "run" /\ pc[Reader] = "run" /\ pc[Writer] = "run"
  BY <1>1, SerialAssumption
<1>4. /\ rx = [ring |-> EmptyRing, index |-> 0, done |-> FALSE]
      /\ tx = [ring |-> EmptyRing, active |-> FALSE, done |-> FALSE]
  BY DEF Init, SerialInit
<1>5. ~(DataLen(tx.ring) > 0) /\ ~tx.active /\ ~rx.done /\ rx.index = 0
  BY <1>4, InitRing
<1> QED
  BY <1>2, <1>3, <1>5 DEF PortInv, ShellFlow, ReaderFlow, WriterFlow, Completing

\* Nobody waits for what has come, or for a handler that will not come: neither the
\* shell for a byte that is in the ring, nor a reader for bytes that are there,
\* nor a writer for the end of what nobody sends; and a port is left active only
\* while somebody sends or writes.  So for a buffer of any size, texts of any
\* length, and with the other objects, timeouts and handlers in between.
THEOREM BytesFlowHolds == Spec => []BytesFlow
<1> DEFINE Inv == ObjectsInv /\ RxInv /\ TxInv /\ PortInv
<1>1. Init => Inv
  BY InitWaits, InitPool, InitData, InitRx, InitTx, InitPort DEF ObjectsInv
<1>2. Inv /\ [Next]_vars => Inv'
  BY NextWaits, NextPool, NextData, NextRx, NextTx, NextPort
     DEF ObjectsInv, DataGood, RxGood, TxGood
<1>3. Inv => BytesFlow
  <2> SUFFICES ASSUME ObjectsInv, RxInv, TxInv, PortInv PROVE BytesFlow
    OBVIOUS
  <2>1. WaitsInv /\ ShellFlow /\ ReaderFlow /\ WriterFlow
    BY DEF ObjectsInv, PortInv
  <2>2. /\ Shell \in Thread /\ Reader \in Thread /\ Writer \in Thread
        /\ {"sem", "rx_cpt", "tx_cpt"} \subseteq WaitList
    BY SerialAssumption, CallsAre
  <2>3. \A w \in {"sem", "rx_cpt", "tx_cpt"} : \A t : t \in ToSet(k.wait[w]) <=> On(k, w, t)
    BY <2>1, <2>2, ListedIsOn
  <2>4. "shell" \in inUse /\ Shell \in ToSet(k.wait["sem"]) => DataLen(rx.ring) = 0
    BY <2>1, <2>2, <2>3 DEF ShellFlow
  <2>5. Reader \in ToSet(k.wait["rx_cpt"]) => rx.index = reading.asked
    <3> SUFFICES ASSUME On(k, "rx_cpt", Reader) PROVE rx.index = reading.asked
      BY <2>3
    <3>1. ~rx.done
      BY <2>1, <2>2 DEF ReaderFlow
    <3>2. pc[Reader] \in {"waiting", "waited"}
      BY <2>1, <2>2, CallsAre DEF WaitsInv, Sound, ListFits
    <3> QED BY <2>1, <3>1, <3>2 DEF ReaderFlow, Completing
  <2>6. Writer \in ToSet(k.wait["tx_cpt"]) => Sending
    BY <2>1, <2>2, <2>3 DEF WriterFlow
  <2>7. /\ pc[Reader] = "given" => DataLen(rx.ring) >= reading.asked
        /\ DataLen(tx.ring) > 0 => Sending
        /\ tx.active => Sending \/ pc[Writer] \in TxLabel
    BY <2>1 DEF ReaderFlow, WriterFlow
  <2> QED BY <2>4, <2>5, <2>6, <2>7 DEF BytesFlow
<1> HIDE DEF Inv
<1> QED
  BY <1>1, <1>2, <1>3, PTL DEF Spec
=============================================================================
