------------------------ MODULE MessageQueue_proofs ------------------------
(***************************************************************************)
(* Proofs about message queues: for any threads, any messages and any pool *)
(* of cells, every cell is in one place, the queue of ipc.c implements     *)
(* BoundedQueue although messages are copied with interrupts enabled, and  *)
(* no wake-up is lost.                                                     *)
(***************************************************************************)
EXTENDS MessageQueue, Kernel_proofs

-----------------------------------------------------------------------------
(* Cells linked by next. *)

\* From c on, next leads along s to its end.
Chained(n, c, s) ==
  /\ c = IF Len(s) = 0 THEN Null ELSE s[1]
  /\ \A i \in 1..Len(s) : n[s[i]] = IF i = Len(s) THEN Null ELSE s[i + 1]

\* A cell is no null pointer, and a chain is as long as there are cells at most.
LEMMA CellFacts ==
  /\ Null \notin Cell /\ Null \notin Value
  /\ Cardinality(Cell) \in Nat /\ Cardinality(Cell) >= 1 /\ IsFiniteSet(Cell)
<1>1. Null \notin Value \union Cell
  BY MessageQueueAssumption
<1>2. IsFiniteSet(Cell) /\ Cell # {}
  BY MessageQueueAssumption
<1>3. Cardinality(Cell) \in Nat /\ Cardinality(Cell) # 0
  BY <1>2, FS_CardinalityType, FS_EmptySet
<1> QED
  BY <1>1, <1>2, <1>3

\* A list without repetitions is as long as there are cells at most, and
\* shorter when a cell is not on it.
LEMMA ListBounded ==
  ASSUME NEW s \in Seq(Cell), NoRepeat(s)
  PROVE  /\ Len(s) <= Cardinality(Cell)
         /\ \A c \in Cell : ~Contains(s, c) => Len(s) < Cardinality(Cell)
<1> DEFINE n == Len(s)
<1>1. n \in Nat /\ s \in [1..n -> Cell] /\ IsFiniteSet(Cell)
  BY LenProperties, CellFacts
<1>2. IsFiniteSet(1..n) /\ Cardinality(1..n) = n
  <2>1. 1 \in Int /\ n \in Int /\ (1 > n => n = 0)
    BY <1>1
  <2>2. /\ IsFiniteSet(1..n)
        /\ Cardinality(1..n) = IF 1 > n THEN 0 ELSE n - 1 + 1
    BY <2>1, FS_Interval
  <2> QED BY <1>1, <2>1, <2>2
<1>3. \A a, b \in 1..n : s[a] = s[b] => a = b
  BY DEF NoRepeat
<1> HIDE DEF n
<1>4. Cardinality(1..n) <= Cardinality(Cell)
  <2>1. s \in Injection(1..n, Cell)
    BY <1>1, <1>3 DEF Injection, IsInjective
  <2> QED BY <1>1, <2>1, FS_Injection
<1>5. ASSUME NEW c \in Cell, ~Contains(s, c) PROVE n < Cardinality(Cell)
  <2>1. \A i \in 1..n : s[i] # c
    BY <1>5 DEF Contains, n
  <2>2. s \in Injection(1..n, Cell \ {c})
    BY <1>1, <1>3, <2>1 DEF Injection, IsInjective
  <2>3. IsFiniteSet(Cell \ {c}) /\ Cardinality(Cell \ {c}) = Cardinality(Cell) - 1
    BY <1>1, <1>5, FS_RemoveElement
  <2>4. Cardinality(1..n) <= Cardinality(Cell \ {c})
    BY <2>2, <2>3, FS_Injection
  <2> QED BY <1>1, <1>2, <2>3, <2>4, CellFacts
<1> QED
  BY <1>2, <1>4, <1>5 DEF n

\* One place along next.
Along(n, c, p, i) == IF i = 1 THEN c ELSE IF p[i-1] = Null THEN Null ELSE n[p[i-1]]

\* Whoever walks along next meets the cells of the list, and then Null.
LEMMA WalkMeets ==
  ASSUME NEW n, NEW c, NEW s \in Seq(Cell), Chained(n, c, s), NEW m \in Nat,
         NEW p, p = [i \in 1..m |-> Along(n, c, p, i)]
  PROVE  \A i \in 1..m : p[i] = IF i <= Len(s) THEN s[i] ELSE Null
<1> DEFINE l == Len(s)
           Met(i) == p[i] = IF i <= l THEN s[i] ELSE Null
           Bad == {i \in 1..m : ~Met(i)}
<1>1. l \in Nat /\ \A i \in 1..l : s[i] \in Cell
  BY LenProperties, ElementOfSeq
<1>2. c = (IF l = 0 THEN Null ELSE s[1])
      /\ \A i \in 1..l : n[s[i]] = IF i = l THEN Null ELSE s[i + 1]
  BY DEF Chained
<1> HIDE DEF l
<1>3. \A i \in 1..m : p[i] = Along(n, c, p, i)
  <2> DEFINE f == [i \in 1..m |-> Along(n, c, p, i)]
  <2>1. \A i \in 1..m : f[i] = Along(n, c, p, i)
    OBVIOUS
  <2>2. p = f
    OBVIOUS
  <2> HIDE DEF f
  <2> QED BY <2>1, <2>2
<1>4. ASSUME NEW i \in 1..m, i = 1 \/ Met(i - 1) PROVE Met(i)
  <2>1. CASE i = 1
    <3>1. p[i] = c
      BY <1>3, <2>1 DEF Along
    <3> QED BY <1>1, <1>2, <2>1, <3>1
  <2>2. CASE i # 1 /\ i - 1 <= l
    <3>1. i - 1 \in 1..l /\ p[i - 1] = s[i - 1]
      BY <1>1, <1>4, <2>2
    <3>2. s[i - 1] # Null
      BY <1>1, <3>1, CellFacts
    <3>3. p[i] = n[s[i - 1]]
      BY <1>3, <2>2, <3>1, <3>2 DEF Along
    <3>4. n[s[i - 1]] = IF i - 1 = l THEN Null ELSE s[(i - 1) + 1]
      BY <1>2, <3>1
    <3> QED BY <1>1, <2>2, <3>3, <3>4
  <2>3. CASE i # 1 /\ ~(i - 1 <= l)
    <3>1. p[i - 1] = Null
      BY <1>4, <2>3
    <3>2. p[i] = Null
      BY <1>3, <2>3, <3>1 DEF Along
    <3> QED BY <1>1, <2>3, <3>2
  <2> QED BY <2>1, <2>2, <2>3
<1>5. Bad = {}
  <2> SUFFICES ASSUME Bad # {} PROVE FALSE
    OBVIOUS
  <2> DEFINE b == Min(Bad)
  <2>1. Bad \in SUBSET Nat
    OBVIOUS
  <2>2. b \in Bad /\ \A j \in Bad : b <= j
    <3> HIDE DEF Bad
    <3> QED BY <2>1, MinProperties
  <2> HIDE DEF b
  <2>3. b \in 1..m /\ ~Met(b)
    BY <2>2
  <2> HIDE DEF Met
  <2>4. b # 1 /\ ~Met(b - 1)
    BY <1>4, <2>3
  <2>5. b - 1 \in 1..m /\ b - 1 \in Bad
    BY <2>3, <2>4
  <2> HIDE DEF Bad
  <2> QED BY <2>2, <2>3, <2>5
<1> QED
  BY <1>5 DEF l

\* There is such a walk, for every list.
LEMMA WalkAlong ==
  ASSUME NEW n, NEW c, NEW s \in Seq(Cell), Chained(n, c, s), NEW m \in Nat
  PROVE  \E p : p = [i \in 1..m |-> Along(n, c, p, i)]
<1> DEFINE l == Len(s)
           p == [i \in 1..m |-> IF i <= l THEN s[i] ELSE Null]
<1>1. l \in Nat /\ \A i \in 1..l : s[i] \in Cell
  BY LenProperties, ElementOfSeq
<1>2. c = (IF l = 0 THEN Null ELSE s[1])
      /\ \A i \in 1..l : n[s[i]] = IF i = l THEN Null ELSE s[i + 1]
  BY DEF Chained
<1> HIDE DEF l
<1>3. \A i \in 1..m : p[i] = IF i <= l THEN s[i] ELSE Null
  OBVIOUS
<1>4. p = [i \in 1..m |-> p[i]]
  OBVIOUS
<1> HIDE DEF p
<1>5. ASSUME NEW i \in 1..m PROVE p[i] = Along(n, c, p, i)
  <2>1. CASE i = 1
    <3>1. p[i] = IF 1 <= l THEN s[1] ELSE Null
      BY <1>3, <2>1
    <3> QED BY <1>1, <1>2, <2>1, <3>1 DEF Along
  <2>2. CASE i # 1 /\ i - 1 <= l
    <3>1. i - 1 \in 1..l /\ i - 1 \in 1..m
      BY <1>1, <2>2
    <3>2. p[i - 1] = s[i - 1] /\ s[i - 1] # Null
      BY <1>1, <1>3, <3>1, CellFacts
    <3>3. n[s[i - 1]] = IF i - 1 = l THEN Null ELSE s[(i - 1) + 1]
      BY <1>2, <3>1
    <3>4. p[i] = IF i <= l THEN s[i] ELSE Null
      BY <1>3
    <3>5. p[i] = n[s[i - 1]]
      BY <1>1, <2>2, <3>3, <3>4
    <3> QED BY <2>2, <3>2, <3>5 DEF Along
  <2>3. CASE i # 1 /\ ~(i - 1 <= l)
    <3>1. p[i - 1] = Null /\ p[i] = Null
      BY <1>1, <1>3, <2>3
    <3> QED BY <2>3, <3>1 DEF Along
  <2> QED BY <2>1, <2>2, <2>3
<1>6. [i \in 1..m |-> p[i]] = [i \in 1..m |-> Along(n, c, p, i)]
  BY <1>5
<1> QED
  BY <1>4, <1>6

\* Chain finds the list that is linked from a cell on.
LEMMA ChainIs ==
  ASSUME NEW q, NEW c, NEW s \in Seq(Cell), NoRepeat(s), Chained(q.next, c, s)
  PROVE  Chain(q, c) = s
<1> DEFINE l == Len(s)
           m == Cardinality(Cell) + 1
           at == CHOOSE p : p = [i \in 1..m |-> Along(q.next, c, p, i)]
<1>1. l \in Nat /\ l <= m /\ m \in Nat /\ s \in [1..l -> Cell]
  BY LenProperties, ListBounded, CellFacts
<1>2. Chain(q, c) = [i \in 1..Cardinality({j \in DOMAIN at : at[j] # Null}) |-> at[i]]
  BY DEF Chain, Along
<1> HIDE DEF m
<1>3. at = [i \in 1..m |-> Along(q.next, c, at, i)]
  <2>1. \E p : p = [i \in 1..m |-> Along(q.next, c, p, i)]
    BY <1>1, WalkAlong
  <2> QED BY <2>1
<1>4. DOMAIN at = 1..m
  BY <1>3
<1> HIDE DEF at
<1>5. \A i \in 1..m : at[i] = IF i <= l THEN s[i] ELSE Null
  BY <1>1, <1>3, WalkMeets
<1> HIDE DEF l
<1>6. {j \in DOMAIN at : at[j] # Null} = 1..l
  <2>1. ASSUME NEW j \in 1..m PROVE at[j] # Null <=> j <= l
    <3>1. at[j] = IF j <= l THEN s[j] ELSE Null
      BY <1>5
    <3>2. j <= l => s[j] # Null
      BY <1>1, CellFacts
    <3> QED BY <3>1, <3>2
  <2> QED BY <1>1, <1>4, <2>1
<1>7. Cardinality(1..l) = l
  <2>1. 1 \in Int /\ l \in Int /\ (1 > l => l = 0)
    BY <1>1
  <2>2. Cardinality(1..l) = IF 1 > l THEN 0 ELSE l - 1 + 1
    BY <2>1, FS_Interval
  <2> QED BY <1>1, <2>1, <2>2
<1>8. \A i \in 1..l : at[i] = s[i]
  BY <1>1, <1>5
<1>9. [i \in 1..l |-> at[i]] = s
  <2>1. s = [i \in 1..l |-> s[i]]
    BY <1>1
  <2> QED BY <1>8, <2>1
<1> QED
  BY <1>2, <1>6, <1>7, <1>9

-----------------------------------------------------------------------------
(* Lists of cells, when cells are linked and unlinked. *)

\* What happens to other cells does not matter.
LEMMA ChainKept ==
  ASSUME NEW n, NEW m, NEW c, NEW s \in Seq(Cell), Chained(n, c, s),
         \A x : Contains(s, x) => m[x] = n[x]
  PROVE  Chained(m, c, s)
<1>1. \A i \in 1..Len(s) : m[s[i]] = n[s[i]]
  BY DEF Contains
<1> QED
  BY <1>1 DEF Chained

\* Without its first cell.
LEMMA ChainTail ==
  ASSUME NEW n, NEW c, NEW s \in Seq(Cell), s # <<>>, Chained(n, c, s)
  PROVE  c = Head(s) /\ c \in Cell /\ Contains(s, c) /\ Chained(n, n[c], Tail(s))
<1> DEFINE l == Len(s)
           r == Tail(s)
<1>1. /\ l \in Nat \ {0} /\ Head(s) = s[1] /\ Len(r) = l - 1
      /\ \A i \in 1..Len(r) : r[i] = s[i + 1]
      /\ \A i \in 1..l : s[i] \in Cell
  BY EmptySeq, HeadTailProperties, ElementOfSeq
<1>2. c = (IF l = 0 THEN Null ELSE s[1])
      /\ \A i \in 1..l : n[s[i]] = IF i = l THEN Null ELSE s[i + 1]
  BY DEF Chained
<1>3. Contains(s, s[1])
  <2>1. 1 \in 1..l
    BY <1>1
  <2> QED BY <2>1 DEF Contains
<1> HIDE DEF l, r
<1>4. c = s[1] /\ s[1] \in Cell
  BY <1>1, <1>2
<1>5. n[c] = IF Len(r) = 0 THEN Null ELSE r[1]
  BY <1>1, <1>2, <1>4
<1>6. ASSUME NEW i \in 1..Len(r)
      PROVE  n[r[i]] = IF i = Len(r) THEN Null ELSE r[i + 1]
  <2>1. i + 1 \in 1..l /\ r[i] = s[i + 1]
    BY <1>1
  <2>2. n[s[i + 1]] = IF i + 1 = l THEN Null ELSE s[(i + 1) + 1]
    BY <1>2, <2>1
  <2>3. i # Len(r) => r[i + 1] = s[(i + 1) + 1]
    BY <1>1
  <2> QED BY <1>1, <2>1, <2>2, <2>3
<1>7. Chained(n, n[c], r)
  BY <1>5, <1>6 DEF Chained
<1> QED
  BY <1>1, <1>3, <1>4, <1>7 DEF r

\* With a cell in front.
LEMMA ChainCons ==
  ASSUME NEW n, NEW m, NEW c, NEW s \in Seq(Cell), Chained(n, c, s),
         NEW x \in Cell, m[x] = c, \A y : Contains(s, y) => m[y] = n[y]
  PROVE  Chained(m, x, Cons(x, s)) /\ Len(Cons(x, s)) = Len(s) + 1
<1> DEFINE l == Len(s)
           r == Cons(x, s)
<1>1. /\ l \in Nat /\ r = <<x>> \o s /\ <<x>> \in Seq(Cell) /\ Len(<<x>>) = 1
      /\ <<x>>[1] = x
  BY LenProperties DEF Cons
<1>2. /\ Len(<<x>> \o s) = Len(<<x>>) + Len(s)
      /\ \A i \in 1..(Len(<<x>>) + Len(s)) :
           (<<x>> \o s)[i] = IF i <= Len(<<x>>) THEN <<x>>[i] ELSE s[i - Len(<<x>>)]
  BY <1>1, ConcatProperties
<1> DEFINE h == <<x>>
           k0 == h \o s
<1>3. /\ Len(k0) = 1 + l /\ h[1] = x /\ r = k0
      /\ \A i \in 1..(1 + l) : k0[i] = IF i <= 1 THEN h[i] ELSE s[i - 1]
  BY <1>1, <1>2
<1>4. Chained(m, c, s)
  BY ChainKept
<1>5. c = (IF l = 0 THEN Null ELSE s[1])
      /\ \A i \in 1..l : m[s[i]] = IF i = l THEN Null ELSE s[i + 1]
  BY <1>4 DEF Chained
<1> HIDE DEF l, r, h, k0
<1>6. Len(r) = l + 1 /\ r[1] = x /\ \A i \in 1..l : r[i + 1] = s[i]
  <2>1. r[1] = x
    BY <1>1, <1>3
  <2>2. ASSUME NEW i \in 1..l PROVE r[i + 1] = s[i]
    <3>1. i + 1 \in 1..(1 + l) /\ ~(i + 1 <= 1) /\ (i + 1) - 1 = i
      BY <1>1
    <3> QED BY <1>3, <3>1
  <2> QED BY <1>1, <1>3, <2>1, <2>2
<1>7. ASSUME NEW i \in 1..Len(r)
      PROVE  m[r[i]] = IF i = Len(r) THEN Null ELSE r[i + 1]
  <2>1. CASE i = 1
    <3>1. m[r[i]] = c
      BY <1>6, <2>1
    <3>2. l = 0 => c = Null /\ i = Len(r)
      BY <1>5, <1>6, <2>1
    <3>3. l # 0 => c = r[1 + 1] /\ i # Len(r)
      <4>1. l # 0 => 1 \in 1..l
        BY <1>1
      <4> QED BY <1>1, <1>5, <1>6, <2>1, <4>1
    <3> QED BY <2>1, <3>1, <3>2, <3>3
  <2>2. CASE i # 1
    <3>1. i - 1 \in 1..l /\ (i - 1) + 1 = i
      BY <1>1, <1>6, <2>2
    <3>2. r[i] = s[i - 1]
      BY <1>6, <3>1
    <3>3. m[s[i - 1]] = IF i - 1 = l THEN Null ELSE s[(i - 1) + 1]
      BY <1>5, <3>1
    <3>4. i # Len(r) => i \in 1..l /\ r[i + 1] = s[i]
      BY <1>1, <1>6, <3>1
    <3> QED BY <1>1, <1>6, <3>1, <3>2, <3>3, <3>4
  <2> QED BY <2>1, <2>2
<1>8. Chained(m, x, r)
  <2>1. Len(r) # 0
    BY <1>1, <1>6
  <2> QED BY <1>6, <1>7, <2>1 DEF Chained
<1> QED
  BY <1>6, <1>8 DEF r, l

\* With a cell at the end.
LEMMA ChainAppend ==
  ASSUME NEW n, NEW m, NEW c, NEW s \in Seq(Cell), NoRepeat(s), Chained(n, c, s),
         NEW x \in Cell, m[x] = Null, s # <<>> => m[s[Len(s)]] = x,
         \A y : Contains(s, y) /\ y # s[Len(s)] => m[y] = n[y]
  PROVE  /\ Chained(m, IF s = <<>> THEN x ELSE c, Append(s, x))
         /\ Len(Append(s, x)) = Len(s) + 1
<1> DEFINE l == Len(s)
           r == Append(s, x)
<1>1. /\ l \in Nat /\ (l = 0 <=> s = <<>>) /\ Len(r) = l + 1 /\ r[l + 1] = x
      /\ \A i \in 1..l : r[i] = s[i]
  BY LenProperties, EmptySeq, AppendProperties
<1>2. c = (IF l = 0 THEN Null ELSE s[1])
      /\ \A i \in 1..l : n[s[i]] = IF i = l THEN Null ELSE s[i + 1]
  BY DEF Chained
<1>3. ASSUME NEW i \in 1..l, i # l PROVE m[s[i]] = s[i + 1]
  <2>1. Contains(s, s[i]) /\ l \in 1..l /\ s[i] # s[l]
    BY <1>1, <1>3 DEF NoRepeat, Contains
  <2> QED BY <1>2, <1>3, <2>1
<1>4. l # 0 => m[s[l]] = x
  BY <1>1
<1> HIDE DEF l, r
<1>5. ASSUME NEW i \in 1..Len(r)
      PROVE  m[r[i]] = IF i = Len(r) THEN Null ELSE r[i + 1]
  <2>1. CASE i = l + 1
    BY <1>1, <2>1
  <2>2. CASE i = l
    <3>1. l \in 1..l /\ i # Len(r)
      BY <1>1, <2>2
    <3> QED BY <1>1, <1>4, <2>2, <3>1
  <2>3. CASE i # l + 1 /\ i # l
    <3>1. i \in 1..l /\ i + 1 \in 1..l /\ i # Len(r)
      BY <1>1, <2>3
    <3> QED BY <1>1, <1>3, <2>3, <3>1
  <2> QED BY <2>1, <2>2, <2>3
<1>6. (IF s = <<>> THEN x ELSE c) = IF Len(r) = 0 THEN Null ELSE r[1]
  <2>1. l = 0 => r[1] = x
    BY <1>1
  <2>2. l # 0 => r[1] = s[1]
    BY <1>1
  <2> QED BY <1>1, <1>2, <2>1, <2>2
<1>7. Chained(m, IF s = <<>> THEN x ELSE c, r)
  BY <1>5, <1>6 DEF Chained
<1> QED
  BY <1>1, <1>7 DEF r, l

-----------------------------------------------------------------------------
(* The queue and the free list, with interrupts disabled. *)

MqState ==
  [ head  : Cell \union {Null},
    tail  : Cell \union {Null},
    free  : Cell \union {Null},
    next  : [Cell -> Cell \union {Null}],
    data  : [Cell -> Value \union {Null}],
    entry : Nat ]

\* The cells s are queued, and the cells f free.
Layout(q, s, f) ==
  /\ q \in MqState
  /\ s \in Seq(Cell) /\ NoRepeat(s) /\ Chained(q.next, q.head, s)
  /\ f \in Seq(Cell) /\ NoRepeat(f) /\ Chained(q.next, q.free, f)
  /\ \A c \in Cell : ~(Contains(s, c) /\ Contains(f, c))
  /\ q.tail = IF s = <<>> THEN Null ELSE s[Len(s)]
  /\ q.entry = Len(s)

\* The two lists are what Queued and FreeCells find.
LEMMA LayoutChains ==
  ASSUME NEW q, NEW s, NEW f, Layout(q, s, f)
  PROVE  Chain(q, q.head) = s /\ Chain(q, q.free) = f
BY ChainIs DEF Layout

\* Which list is empty.
LEMMA LayoutEmpty ==
  ASSUME NEW q, NEW s, NEW f, Layout(q, s, f)
  PROVE  /\ (s = <<>> <=> q.entry = 0) /\ (s = <<>> <=> q.head = Null)
         /\ (f = <<>> <=> q.free = Null)
<1>1. s \in Seq(Cell) /\ f \in Seq(Cell) /\ q.entry = Len(s)
  BY DEF Layout
<1>2. (s = <<>> <=> Len(s) = 0) /\ (f = <<>> <=> Len(f) = 0)
  BY <1>1, EmptySeq
<1>3. /\ q.head = IF Len(s) = 0 THEN Null ELSE s[1]
      /\ q.free = IF Len(f) = 0 THEN Null ELSE f[1]
  BY DEF Layout, Chained
<1>4. /\ Len(s) # 0 => s[1] \in Cell
      /\ Len(f) # 0 => f[1] \in Cell
  <2>1. Len(s) \in Nat /\ Len(f) \in Nat
    BY <1>1, LenProperties
  <2>2. /\ Len(s) # 0 => 1 \in 1..Len(s)
        /\ Len(f) # 0 => 1 \in 1..Len(f)
    BY <2>1
  <2> QED BY <1>1, <2>2, ElementOfSeq
<1> QED
  BY <1>1, <1>2, <1>3, <1>4, CellFacts

\* Taking a free cell.
LEMMA TakenLayout ==
  ASSUME NEW q, NEW s, NEW f, Layout(q, s, f), q.free # Null
  PROVE  /\ Layout(Taken(q), s, Tail(f))
         /\ q.free \in Cell /\ Contains(f, q.free)
         /\ \A x : Contains(Tail(f), x) <=> Contains(f, x) /\ x # q.free
         /\ Len(Tail(f)) = Len(f) - 1
         /\ Taken(q).data = q.data /\ Taken(q).entry = q.entry
<1>1. /\ q \in MqState /\ f \in Seq(Cell) /\ NoRepeat(f) /\ Chained(q.next, q.free, f)
      /\ f # <<>>
  BY LayoutEmpty DEF Layout
<1>2. /\ q.free = Head(f) /\ q.free \in Cell /\ Contains(f, q.free)
      /\ Chained(q.next, q.next[q.free], Tail(f))
  BY <1>1, ChainTail
<1>3. /\ Tail(f) \in Seq(Cell) /\ NoRepeat(Tail(f)) /\ Len(Tail(f)) = Len(f) - 1
      /\ \A x : Contains(Tail(f), x) <=> Contains(f, x) /\ x # q.free
  BY <1>1, <1>2, TailList
<1> DEFINE r == Taken(q)
<1>4. /\ r \in MqState /\ r.free = q.next[q.free] /\ r.head = q.head /\ r.tail = q.tail
      /\ r.next = q.next /\ r.data = q.data /\ r.entry = q.entry
  BY <1>1, <1>2 DEF Taken, MqState
<1> HIDE DEF r
<1>5. Layout(r, s, Tail(f))
  BY <1>2, <1>3, <1>4 DEF Layout
<1> QED
  BY <1>2, <1>3, <1>4, <1>5 DEF r

\* Linking a cell behind the others.
LEMMA LinkedLayout ==
  ASSUME NEW q, NEW s, NEW f, Layout(q, s, f), NEW c \in Cell, NEW v \in Value,
         ~Contains(s, c), ~Contains(f, c)
  PROVE  /\ Layout(Linked(q, c, v), Append(s, c), f)
         /\ Len(s) < Cardinality(Cell)
         /\ Linked(q, c, v).data = [q.data EXCEPT ![c] = v]
<1>1. /\ q \in MqState /\ s \in Seq(Cell) /\ NoRepeat(s) /\ Chained(q.next, q.head, s)
      /\ f \in Seq(Cell) /\ NoRepeat(f) /\ Chained(q.next, q.free, f)
      /\ \A x \in Cell : ~(Contains(s, x) /\ Contains(f, x))
      /\ q.tail = (IF s = <<>> THEN Null ELSE s[Len(s)])
      /\ q.entry = Len(s)
  BY DEF Layout
<1> DEFINE r == Linked(q, c, v)
           a == q.tail
           n == IF a = Null THEN [q.next EXCEPT ![c] = Null]
                ELSE [q.next EXCEPT ![c] = Null, ![a] = c]
<1>2. /\ r \in MqState /\ r.next = n /\ r.free = q.free /\ r.tail = c
      /\ r.head = (IF q.head = Null THEN c ELSE q.head)
      /\ r.data = [q.data EXCEPT ![c] = v] /\ r.entry = q.entry + 1
  <2> DEFINE d == [q.data EXCEPT ![c] = v]
             h == IF q.head = Null THEN c ELSE q.head
             e == q.entry + 1
  <2>1. r = [q EXCEPT !.next = n, !.data = d, !.tail = c, !.entry = e, !.head = h]
    BY DEF Linked
  <2>2. /\ q.next \in [Cell -> Cell \union {Null}] /\ q.tail \in Cell \union {Null}
        /\ q.data \in [Cell -> Value \union {Null}] /\ q.head \in Cell \union {Null}
        /\ q.entry \in Nat
    BY <1>1 DEF MqState
  <2>3. n \in [Cell -> Cell \union {Null}]
    BY <2>2
  <2>4. d \in [Cell -> Value \union {Null}]
    BY <2>2
  <2>5. h \in Cell \union {Null} /\ e \in Nat
    BY <2>2
  <2> HIDE DEF r, n, d, h, e
  <2>6. /\ r \in MqState /\ r.next = n /\ r.free = q.free /\ r.tail = c
        /\ r.head = h /\ r.data = d /\ r.entry = e
    BY <1>1, <2>1, <2>3, <2>4, <2>5 DEF MqState
  <2> QED BY <2>6 DEF d, h, e
<1>3. (s = <<>> <=> q.head = Null) /\ Len(s) < Cardinality(Cell)
  BY <1>1, LayoutEmpty, ListBounded
<1>4. /\ a \in Cell \union {Null}
      /\ s = <<>> => a = Null
      /\ s # <<>> => a # Null /\ Contains(s, a) /\ a # c
  <2>1. ASSUME s # <<>> PROVE Len(s) \in 1..Len(s)
    BY <1>1, <2>1, EmptySeq
  <2>2. ASSUME s # <<>> PROVE s[Len(s)] \in Cell /\ Contains(s, s[Len(s)])
    BY <1>1, <2>1, <2>2, ElementOfSeq DEF Contains
  <2> QED BY <1>1, <2>2, CellFacts
<1>5. q.next \in [Cell -> Cell \union {Null}]
  BY <1>1 DEF MqState
<1>6. /\ n[c] = Null
      /\ s # <<>> => n[a] = c
      /\ \A x \in Cell : x # c /\ (s # <<>> => x # a) => n[x] = q.next[x]
  BY <1>4, <1>5
<1> HIDE DEF n, r
<1>7. \A x : Contains(s, x) \/ Contains(f, x) => x \in Cell
  BY <1>1, ElementOfSeq DEF Contains
<1>8. Chained(n, IF s = <<>> THEN c ELSE q.head, Append(s, c)) /\ Len(Append(s, c)) = Len(s) + 1
  <2>1. s # <<>> => n[s[Len(s)]] = c
    BY <1>1, <1>6
  <2>2. \A y : Contains(s, y) /\ y # s[Len(s)] => n[y] = q.next[y]
    BY <1>1, <1>6, <1>7
  <2> QED BY <1>1, <1>6, <2>1, <2>2, ChainAppend
<1>9. Chained(n, q.free, f)
  <2>1. \A x : Contains(f, x) => n[x] = q.next[x]
    BY <1>1, <1>4, <1>6, <1>7
  <2> QED BY <1>1, <2>1, ChainKept
<1>10. /\ Append(s, c) \in Seq(Cell) /\ NoRepeat(Append(s, c)) /\ Append(s, c) # <<>>
       /\ \A x : Contains(Append(s, c), x) <=> Contains(s, x) \/ x = c
       /\ Append(s, c)[Len(s) + 1] = c
  BY <1>1, AppendList, AppendProperties
<1>11. Layout(r, Append(s, c), f)
  <2>1. Chained(r.next, r.head, Append(s, c)) /\ Chained(r.next, r.free, f)
    BY <1>2, <1>3, <1>8, <1>9
  <2>2. \A x \in Cell : ~(Contains(Append(s, c), x) /\ Contains(f, x))
    BY <1>1, <1>10
  <2>3. r.tail = Append(s, c)[Len(Append(s, c))] /\ r.entry = Len(Append(s, c))
    BY <1>1, <1>2, <1>8, <1>10
  <2> QED BY <1>1, <1>2, <1>10, <2>1, <2>2, <2>3 DEF Layout
<1> QED
  BY <1>2, <1>3, <1>11 DEF r

\* Linking a cell in front of the others.
LEMMA LinkedFirstLayout ==
  ASSUME NEW q, NEW s, NEW f, Layout(q, s, f), NEW c \in Cell, NEW v \in Value,
         ~Contains(s, c), ~Contains(f, c)
  PROVE  /\ Layout(LinkedFirst(q, c, v), Cons(c, s), f)
         /\ Len(s) < Cardinality(Cell)
         /\ LinkedFirst(q, c, v).data = [q.data EXCEPT ![c] = v]
<1>1. /\ q \in MqState /\ s \in Seq(Cell) /\ NoRepeat(s) /\ Chained(q.next, q.head, s)
      /\ f \in Seq(Cell) /\ NoRepeat(f) /\ Chained(q.next, q.free, f)
      /\ \A x \in Cell : ~(Contains(s, x) /\ Contains(f, x))
      /\ q.tail = (IF s = <<>> THEN Null ELSE s[Len(s)])
      /\ q.entry = Len(s)
  BY DEF Layout
<1> DEFINE r == LinkedFirst(q, c, v)
           n == [q.next EXCEPT ![c] = q.head]
<1>2. /\ r \in MqState /\ r.next = n /\ r.free = q.free /\ r.head = c
      /\ r.tail = (IF q.tail = Null THEN c ELSE q.tail)
      /\ r.data = [q.data EXCEPT ![c] = v] /\ r.entry = q.entry + 1
  <2> DEFINE d == [q.data EXCEPT ![c] = v]
             a == IF q.tail = Null THEN c ELSE q.tail
             e == q.entry + 1
  <2>1. r = [q EXCEPT !.next = n, !.data = d, !.head = c, !.entry = e, !.tail = a]
    BY DEF LinkedFirst
  <2>2. /\ q.next \in [Cell -> Cell \union {Null}] /\ q.tail \in Cell \union {Null}
        /\ q.data \in [Cell -> Value \union {Null}] /\ q.head \in Cell \union {Null}
        /\ q.entry \in Nat
    BY <1>1 DEF MqState
  <2>3. n \in [Cell -> Cell \union {Null}]
    BY <2>2
  <2>4. d \in [Cell -> Value \union {Null}]
    BY <2>2
  <2>5. a \in Cell \union {Null} /\ e \in Nat
    BY <2>2
  <2> HIDE DEF r, n, d, a, e
  <2>6. /\ r \in MqState /\ r.next = n /\ r.free = q.free /\ r.head = c
        /\ r.tail = a /\ r.data = d /\ r.entry = e
    BY <1>1, <2>1, <2>3, <2>4, <2>5 DEF MqState
  <2> QED BY <2>6 DEF d, a, e
<1>3. Len(s) < Cardinality(Cell)
  BY <1>1, ListBounded
<1>4. /\ n[c] = q.head
      /\ \A x : (Contains(s, x) \/ Contains(f, x)) => n[x] = q.next[x]
  <2>1. \A x : Contains(s, x) \/ Contains(f, x) => x \in Cell
    BY <1>1, ElementOfSeq DEF Contains
  <2>2. q.next \in [Cell -> Cell \union {Null}]
    BY <1>1 DEF MqState
  <2> QED BY <2>1, <2>2
<1> HIDE DEF n, r
<1>5. Chained(n, c, Cons(c, s)) /\ Len(Cons(c, s)) = Len(s) + 1
  BY <1>1, <1>4, ChainCons
<1>6. Chained(n, q.free, f)
  BY <1>1, <1>4, ChainKept
<1>7. /\ Cons(c, s) \in Seq(Cell) /\ NoRepeat(Cons(c, s))
      /\ \A x : Contains(Cons(c, s), x) <=> Contains(s, x) \/ x = c
  BY <1>1, ConsList
<1>8. r.tail = Cons(c, s)[Len(Cons(c, s))] /\ Cons(c, s) # <<>>
  <2> DEFINE l == Len(s)
             h == <<c>>
             w == h \o s
  <2>1. l \in Nat /\ (s = <<>> <=> l = 0) /\ (s # <<>> => s[l] \in Cell)
    <3>1. l \in Nat /\ (s = <<>> <=> l = 0)
      BY <1>1, LenProperties, EmptySeq
    <3>2. s # <<>> => l \in 1..l
      BY <3>1
    <3> QED BY <1>1, <3>1, <3>2, ElementOfSeq
  <2>2. h \in Seq(Cell) /\ Len(h) = 1 /\ h[1] = c
    OBVIOUS
  <2>3. /\ Len(w) = 1 + l
        /\ \A i \in 1..(1 + l) : w[i] = IF i <= 1 THEN h[i] ELSE s[i - 1]
    <3> HIDE DEF h
    <3> QED BY <1>1, <2>1, <2>2, ConcatProperties
  <2>4. Cons(c, s) = w
    BY DEF Cons
  <2> HIDE DEF l, h, w
  <2>5. w[1 + l] = IF l = 0 THEN c ELSE s[l]
    BY <2>1, <2>2, <2>3
  <2>6. w # <<>>
    BY <2>1, <2>3
  <2>7. q.tail = IF s = <<>> THEN Null ELSE s[l]
    BY <1>1 DEF l
  <2>8. r.tail = w[1 + l]
    BY <1>2, <2>1, <2>5, <2>7, CellFacts
  <2> QED BY <2>3, <2>4, <2>6, <2>8
<1>9. Layout(r, Cons(c, s), f)
  <2>1. Chained(r.next, r.head, Cons(c, s)) /\ Chained(r.next, r.free, f)
    BY <1>2, <1>5, <1>6
  <2>2. \A x \in Cell : ~(Contains(Cons(c, s), x) /\ Contains(f, x))
    BY <1>1, <1>7
  <2>3. r.entry = Len(Cons(c, s))
    BY <1>1, <1>2, <1>5
  <2> QED BY <1>1, <1>2, <1>7, <1>8, <2>1, <2>2, <2>3 DEF Layout
<1> QED
  BY <1>2, <1>3, <1>9 DEF r

\* Taking the first message.
LEMMA UnlinkedLayout ==
  ASSUME NEW q, NEW s, NEW f, Layout(q, s, f), q.entry # 0
  PROVE  /\ Layout(Unlinked(q), Tail(s), f)
         /\ s # <<>> /\ q.head = Head(s) /\ q.head \in Cell /\ Contains(s, q.head)
         /\ \A x : Contains(Tail(s), x) <=> Contains(s, x) /\ x # q.head
         /\ Unlinked(q).data = q.data /\ Unlinked(q).entry = q.entry - 1
<1>1. /\ q \in MqState /\ s \in Seq(Cell) /\ NoRepeat(s) /\ Chained(q.next, q.head, s)
      /\ f \in Seq(Cell) /\ NoRepeat(f) /\ Chained(q.next, q.free, f)
      /\ \A x \in Cell : ~(Contains(s, x) /\ Contains(f, x))
      /\ q.tail = (IF s = <<>> THEN Null ELSE s[Len(s)])
      /\ q.entry = Len(s)
  BY DEF Layout
<1>2. s # <<>>
  BY LayoutEmpty
<1>3. /\ q.head = Head(s) /\ q.head \in Cell /\ Contains(s, q.head)
      /\ Chained(q.next, q.next[q.head], Tail(s))
  BY <1>1, <1>2, ChainTail
<1>4. /\ Tail(s) \in Seq(Cell) /\ NoRepeat(Tail(s)) /\ Len(Tail(s)) = Len(s) - 1
      /\ \A x : Contains(Tail(s), x) <=> Contains(s, x) /\ x # q.head
  BY <1>1, <1>2, <1>3, TailList
<1> DEFINE r == Unlinked(q)
           l == Len(s)
<1>5. l \in Nat \ {0} /\ q.head = s[1] /\ s[l] \in Cell
  BY <1>1, <1>2, <1>3, EmptySeq, ElementOfSeq
<1>6. /\ r \in MqState /\ r.free = q.free /\ r.head = q.next[q.head]
      /\ r.tail = (IF q.tail = q.head THEN Null ELSE q.tail)
      /\ r.next = q.next /\ r.data = q.data /\ r.entry = q.entry - 1
  <2> DEFINE h == q.next[q.head]
             a == IF q.tail = q.head THEN Null ELSE q.tail
             e == q.entry - 1
  <2>1. r = [q EXCEPT !.head = h, !.entry = e, !.tail = a]
    BY DEF Unlinked
  <2>2. h \in Cell \union {Null} /\ a \in Cell \union {Null} /\ e \in Nat
    BY <1>1, <1>3, <1>5 DEF MqState
  <2> HIDE DEF r, h, a, e
  <2>3. /\ r \in MqState /\ r.free = q.free /\ r.head = h /\ r.tail = a
        /\ r.next = q.next /\ r.data = q.data /\ r.entry = e
    BY <1>1, <2>1, <2>2 DEF MqState
  <2> QED BY <2>3 DEF h, a, e
<1>7. r.tail = IF Tail(s) = <<>> THEN Null ELSE Tail(s)[Len(Tail(s))]
  <2>1. Tail(s) = <<>> <=> l = 1
    BY <1>4, <1>5, EmptySeq
  <2>2. s[l] = s[1] <=> l = 1
    <3>1. 1 \in 1..l /\ l \in 1..l
      BY <1>5
    <3> QED BY <1>1, <3>1 DEF NoRepeat
  <2>3. l # 1 => Tail(s)[l - 1] = s[(l - 1) + 1]
    <3>1. \A i \in 1..Len(Tail(s)) : Tail(s)[i] = s[i + 1]
      BY <1>1, <1>2, HeadTailProperties
    <3>2. l # 1 => l - 1 \in 1..Len(Tail(s))
      BY <1>4, <1>5
    <3> QED BY <3>1, <3>2
  <2>4. q.tail = s[l]
    BY <1>1, <1>2
  <2>5. (l - 1) + 1 = l
    BY <1>5
  <2> QED BY <1>4, <1>5, <1>6, <2>1, <2>2, <2>3, <2>4, <2>5
<1> HIDE DEF r, l
<1>8. Layout(r, Tail(s), f)
  <2>1. r.entry = Len(Tail(s))
    BY <1>1, <1>4, <1>6
  <2>2. \A x \in Cell : ~(Contains(Tail(s), x) /\ Contains(f, x))
    BY <1>1, <1>4
  <2> QED BY <1>1, <1>3, <1>4, <1>6, <1>7, <2>1, <2>2 DEF Layout
<1> QED
  BY <1>2, <1>3, <1>4, <1>6, <1>8 DEF r

\* A cell is put in front of the free list.
LEMMA FreedCell ==
  ASSUME NEW q \in MqState, NEW f \in Seq(Cell), NoRepeat(f),
         Chained(q.next, q.free, f), NEW c \in Cell, ~Contains(f, c)
  PROVE  /\ Freed(q, c) \in MqState
         /\ Cons(c, f) \in Seq(Cell) /\ NoRepeat(Cons(c, f))
         /\ \A x : Contains(Cons(c, f), x) <=> Contains(f, x) \/ x = c
         /\ Chained(Freed(q, c).next, Freed(q, c).free, Cons(c, f))
         /\ Len(Cons(c, f)) = Len(f) + 1
         /\ Freed(q, c).data = q.data /\ Freed(q, c).entry = q.entry
         /\ Freed(q, c).head = q.head /\ Freed(q, c).tail = q.tail
         /\ \A x \in Cell : x # c => Freed(q, c).next[x] = q.next[x]
<1> DEFINE r == Freed(q, c)
           n == [q.next EXCEPT ![c] = q.free]
<1>1. q.next \in [Cell -> Cell \union {Null}] /\ q.free \in Cell \union {Null}
  BY DEF MqState
<1>2. n \in [Cell -> Cell \union {Null}] /\ n[c] = q.free
      /\ \A x \in Cell : x # c => n[x] = q.next[x]
  BY <1>1
<1>3. r = [q EXCEPT !.next = n, !.free = c]
  BY DEF Freed
<1> HIDE DEF n, r
<1>4. /\ r \in MqState /\ r.next = n /\ r.free = c /\ r.data = q.data
      /\ r.entry = q.entry /\ r.head = q.head /\ r.tail = q.tail
  BY <1>2, <1>3 DEF MqState
<1>5. \A x : Contains(f, x) => x \in Cell /\ x # c
  BY ElementOfSeq DEF Contains
<1>6. Chained(n, c, Cons(c, f)) /\ Len(Cons(c, f)) = Len(f) + 1
  BY <1>2, <1>5, ChainCons
<1>7. /\ Cons(c, f) \in Seq(Cell) /\ NoRepeat(Cons(c, f))
      /\ \A x : Contains(Cons(c, f), x) <=> Contains(f, x) \/ x = c
  BY ConsList
<1> QED
  BY <1>2, <1>4, <1>6, <1>7 DEF r

\* Freeing a cell that is on neither list.
LEMMA FreedLayout ==
  ASSUME NEW q, NEW s, NEW f, Layout(q, s, f), NEW c \in Cell,
         ~Contains(s, c), ~Contains(f, c)
  PROVE  /\ Layout(Freed(q, c), s, Cons(c, f))
         /\ \A x : Contains(Cons(c, f), x) <=> Contains(f, x) \/ x = c
         /\ Len(Cons(c, f)) = Len(f) + 1
         /\ Freed(q, c).data = q.data /\ Freed(q, c).entry = q.entry
<1>1. /\ q \in MqState /\ s \in Seq(Cell) /\ NoRepeat(s) /\ Chained(q.next, q.head, s)
      /\ f \in Seq(Cell) /\ NoRepeat(f) /\ Chained(q.next, q.free, f)
      /\ \A x \in Cell : ~(Contains(s, x) /\ Contains(f, x))
      /\ q.tail = (IF s = <<>> THEN Null ELSE s[Len(s)])
      /\ q.entry = Len(s)
  BY DEF Layout
<1> DEFINE r == Freed(q, c)
           g == Cons(c, f)
<1>2. /\ r \in MqState /\ g \in Seq(Cell) /\ NoRepeat(g)
      /\ \A x : Contains(g, x) <=> Contains(f, x) \/ x = c
      /\ Chained(r.next, r.free, g) /\ Len(g) = Len(f) + 1
      /\ r.data = q.data /\ r.entry = q.entry /\ r.head = q.head /\ r.tail = q.tail
      /\ \A x \in Cell : x # c => r.next[x] = q.next[x]
  BY <1>1, FreedCell
<1>3. \A x : Contains(s, x) => x \in Cell /\ x # c
  BY <1>1, ElementOfSeq DEF Contains
<1> HIDE DEF r, g
<1>4. Chained(r.next, r.head, s)
  BY <1>1, <1>2, <1>3, ChainKept
<1>5. Layout(r, s, g)
  BY <1>1, <1>2, <1>3, <1>4 DEF Layout
<1> QED
  BY <1>2, <1>5 DEF r, g

\* The turns of the loop in Emptied.
LEMMA FreeTurnsExist ==
  ASSUME NEW q, NEW s, NEW n \in Nat
  PROVE  \E g : g = [i \in 0..n |-> IF i = 0 THEN q ELSE Freed(g[i - 1], s[i])]
<1> DEFINE IsTurns(g, m) ==
             g = [i \in 0..m |-> IF i = 0 THEN q ELSE Freed(g[i - 1], s[i])]
           Missing == {m \in Nat : ~ \E g : IsTurns(g, m)}
<1> SUFFICES ASSUME Missing # {} PROVE FALSE
  OBVIOUS
<1> DEFINE m == Min(Missing)
<1>1. m \in Nat /\ m \in Missing /\ \A j \in Missing : m <= j
  BY MinProperties
<1> HIDE DEF m
<1>2. m # 0
  <2>1. IsTurns([i \in 0..0 |-> q], 0)
    OBVIOUS
  <2> QED BY <1>1, <2>1
<1>3. m - 1 \in Nat /\ m - 1 \notin Missing
  <2> HIDE DEF Missing
  <2> QED BY <1>1, <1>2
<1>4. PICK g : IsTurns(g, m - 1)
  BY <1>3
<1> DEFINE h == [i \in 0..m |-> IF i = m THEN Freed(g[m - 1], s[m]) ELSE g[i]]
<1>5. \A i \in 0..(m-1) : h[i] = g[i]
  BY <1>1
<1>6. \A i \in 0..m : h[i] = IF i = 0 THEN q ELSE Freed(h[i - 1], s[i])
  <2> TAKE i \in 0..m
  <2>1. CASE i = m
    <3>1. h[i] = Freed(g[m - 1], s[m]) /\ h[m - 1] = g[m - 1]
      BY <1>1, <1>2, <2>1
    <3> QED BY <1>2, <2>1, <3>1
  <2>2. CASE i # m /\ i # 0
    <3>1. i \in 0..(m-1) /\ i - 1 \in 0..(m-1)
      BY <1>1, <2>2
    <3>2. g[i] = Freed(g[i - 1], s[i])
      BY <1>4, <2>2, <3>1
    <3> HIDE DEF h
    <3> QED BY <1>5, <2>2, <3>1, <3>2
  <2>3. CASE i # m /\ i = 0
    <3>1. i \in 0..(m-1) /\ g[i] = q
      BY <1>1, <1>4, <2>3
    <3> HIDE DEF h
    <3> QED BY <1>5, <2>3, <3>1
  <2> QED BY <2>1, <2>2, <2>3
<1>7. IsTurns(h, m)
  <2>1. h = [i \in 0..m |-> h[i]]
    OBVIOUS
  <2> HIDE DEF h
  <2> QED BY <1>6, <2>1
<1> QED
  BY <1>1, <1>7

\* The queue is forgotten.
Unqueued(r, u) == r = [u EXCEPT !.head = Null, !.tail = Null, !.entry = 0]

\* Emptied is the last of its turns, with the queue empty.
LEMMA EmptiedIsLast ==
  ASSUME NEW q, NEW s, Chain(q, q.head) = s, Len(s) \in Nat
  PROVE  \E g : /\ Unqueued(Emptied(q), g[Len(s)])
                /\ g[0] = q
                /\ \A i \in 1..Len(s) : g[i] = Freed(g[i - 1], s[i])
<1> DEFINE n == Len(s)
           After == CHOOSE g : g = [i \in 0..n |-> IF i = 0 THEN q
                                                   ELSE Freed(g[i - 1], s[i])]
<1>1. Unqueued(Emptied(q), After[n])
  BY DEF Emptied, Unqueued
<1>2. After = [i \in 0..n |-> IF i = 0 THEN q ELSE Freed(After[i - 1], s[i])]
  BY FreeTurnsExist
<1>3. n \in Nat
  OBVIOUS
<1> HIDE DEF After, n
<1>4. After[0] = q /\ \A i \in 1..n : After[i] = Freed(After[i - 1], s[i])
  BY <1>2, <1>3
<1> QED
  BY <1>1, <1>4 DEF n

\* When i of the cells s are freed: r is the message queue, f was free before.
FreedSome(r, q, s, f, i) ==
  /\ r \in MqState /\ r.data = q.data
  /\ \E g \in Seq(Cell) : /\ NoRepeat(g) /\ Chained(r.next, r.free, g)
                          /\ \A x : Contains(g, x) <=> \/ Contains(f, x)
                                                       \/ \E j \in 1..i : s[j] = x

\* The next turn of the loop.
LEMMA FreeTurn ==
  ASSUME NEW r, NEW q, NEW s \in Seq(Cell), NEW f, NoRepeat(s), NEW i \in 1..Len(s),
         FreedSome(r, q, s, f, i - 1), ~Contains(f, s[i])
  PROVE  FreedSome(Freed(r, s[i]), q, s, f, i)
<1> DEFINE c == s[i]
           u == Freed(r, c)
<1>1. c \in Cell /\ Len(s) \in Nat
  BY ElementOfSeq, LenProperties
<1>2. PICK g \in Seq(Cell) :
        /\ NoRepeat(g) /\ Chained(r.next, r.free, g)
        /\ \A x : Contains(g, x) <=> Contains(f, x) \/ \E j \in 1..(i-1) : s[j] = x
  BY DEF FreedSome
<1>3. ~Contains(g, c)
  <2>1. \A j \in 1..(i-1) : s[j] # c
    BY <1>1 DEF NoRepeat
  <2> QED BY <1>2, <2>1
<1>4. r \in MqState /\ r.data = q.data
  BY DEF FreedSome
<1>5. /\ u \in MqState /\ u.data = r.data
      /\ Cons(c, g) \in Seq(Cell) /\ NoRepeat(Cons(c, g))
      /\ \A x : Contains(Cons(c, g), x) <=> Contains(g, x) \/ x = c
      /\ Chained(u.next, u.free, Cons(c, g))
  BY <1>1, <1>2, <1>3, <1>4, FreedCell
<1> HIDE DEF u
<1>6. ASSUME NEW x
      PROVE  Contains(Cons(c, g), x) <=> Contains(f, x) \/ \E j \in 1..i : s[j] = x
  <2>1. (\E j \in 1..i : s[j] = x) <=> (\E j \in 1..(i-1) : s[j] = x) \/ c = x
    BY <1>1
  <2> HIDE DEF c
  <2> QED BY <1>2, <1>5, <2>1
<1>7. FreedSome(u, q, s, f, i)
  BY <1>4, <1>5, <1>6 DEF FreedSome
<1> QED
  BY <1>7 DEF u

\* A reset frees what was queued and forgets nothing.
LEMMA EmptiedLayout ==
  ASSUME NEW q, NEW s, NEW f, Layout(q, s, f)
  PROVE  \E g : /\ Layout(Emptied(q), <<>>, g)
                /\ \A x : Contains(g, x) <=> Contains(f, x) \/ Contains(s, x)
                /\ Emptied(q).data = q.data
<1>1. /\ q \in MqState /\ s \in Seq(Cell) /\ NoRepeat(s)
      /\ f \in Seq(Cell) /\ NoRepeat(f) /\ Chained(q.next, q.free, f)
      /\ \A x \in Cell : ~(Contains(s, x) /\ Contains(f, x))
      /\ Chain(q, q.head) = s
  BY LayoutChains DEF Layout
<1> DEFINE n == Len(s)
<1>2. n \in Nat
  BY <1>1, LenProperties
<1>3. PICK a : /\ Unqueued(Emptied(q), a[n]) /\ a[0] = q
               /\ \A i \in 1..n : a[i] = Freed(a[i - 1], s[i])
  BY <1>1, <1>2, EmptiedIsLast
<1> DEFINE Good(i) == FreedSome(a[i], q, s, f, i)
           Bad == {i \in 0..n : ~Good(i)}
<1>4. Good(0)
  <2>1. FreedSome(q, q, s, f, 0)
    BY <1>1 DEF FreedSome
  <2> QED BY <1>3, <2>1
<1>5. ASSUME NEW i \in 1..n, Good(i - 1) PROVE Good(i)
  <2>1. s[i] \in Cell /\ Contains(s, s[i])
    BY <1>1, ElementOfSeq DEF Contains
  <2>2. ~Contains(f, s[i])
    BY <1>1, <2>1
  <2>3. FreedSome(Freed(a[i - 1], s[i]), q, s, f, i)
    BY <1>1, <1>5, <2>2, FreeTurn
  <2> QED BY <1>3, <2>3
<1> HIDE DEF Good, n
<1>6. Bad = {}
  <2> SUFFICES ASSUME Bad # {} PROVE FALSE
    OBVIOUS
  <2> DEFINE b == Min(Bad)
  <2>1. Bad \in SUBSET Nat
    BY <1>2
  <2>2. b \in Bad /\ \A j \in Bad : b <= j
    <3> HIDE DEF Bad
    <3> QED BY <2>1, MinProperties
  <2> HIDE DEF b
  <2>3. b \in 0..n /\ ~Good(b)
    BY <2>2
  <2>4. b # 0
    BY <1>4, <2>3
  <2>5. b \in 1..n /\ b - 1 \in 0..n /\ b - 1 \notin Bad
    <3> HIDE DEF Bad
    <3> QED BY <1>2, <2>2, <2>3, <2>4
  <2>6. Good(b - 1)
    BY <2>5
  <2> QED BY <1>5, <2>3, <2>5, <2>6
<1>7. Good(n)
  BY <1>2, <1>6
<1> DEFINE u == a[n]
           r == Emptied(q)
<1>8. u \in MqState /\ u.data = q.data
  BY <1>7 DEF Good, FreedSome
<1>9. PICK g \in Seq(Cell) :
        /\ NoRepeat(g) /\ Chained(u.next, u.free, g)
        /\ \A x : Contains(g, x) <=> Contains(f, x) \/ \E j \in 1..n : s[j] = x
  BY <1>7 DEF Good, FreedSome
<1>10. \A x : Contains(g, x) <=> Contains(f, x) \/ Contains(s, x)
  BY <1>9 DEF Contains, n
<1>11. r = [u EXCEPT !.head = Null, !.tail = Null, !.entry = 0]
  BY <1>3 DEF Unqueued
<1> HIDE DEF u, r
<1>12. /\ r \in MqState /\ r.head = Null /\ r.tail = Null /\ r.entry = 0
       /\ r.next = u.next /\ r.free = u.free /\ r.data = u.data
  BY <1>8, <1>11 DEF MqState
<1>13. /\ <<>> \in Seq(Cell) /\ Len(<<>>) = 0 /\ NoRepeat(<<>>)
       /\ \A x : ~Contains(<<>>, x) /\ Chained(r.next, Null, <<>>)
  BY DEF NoRepeat, Contains, Chained
<1>14. Layout(r, <<>>, g)
  BY <1>9, <1>12, <1>13 DEF Layout
<1> QED
  BY <1>8, <1>10, <1>12, <1>14 DEF r

\* At the start every cell is free.
LEMMA InitLayout ==
  ASSUME Init
  PROVE  \E f : Layout(mq, <<>>, f) /\ \A c \in Cell : Contains(f, c)
<1> DEFINE pool == SetToSeq(Cell)
           l == Len(pool)
           At0(c) == CHOOSE i \in 1..l : pool[i] = c
           n == [c \in Cell |-> IF At0(c) = 1 THEN Null ELSE pool[At0(c) - 1]]
           d == [c \in Cell |-> Null]
           f == [i \in 1..l |-> pool[l + 1 - i]]
<1>1. mq = [ head |-> Null, tail |-> Null, free |-> Last(pool), next |-> n,
             data |-> d, entry |-> 0 ]
  BY DEF Init
<1>2. pool \in Seq(Cell) /\ NoRepeat(pool) /\ \A x : Contains(pool, x) <=> x \in Cell
  BY ListOfSet, CellFacts
<1>3. /\ l \in Nat /\ l # 0 /\ \A i \in 1..l : pool[i] \in Cell
      /\ \A i, j \in 1..l : pool[i] = pool[j] => i = j
      /\ \A c \in Cell : \E i \in 1..l : pool[i] = c
  <2>1. l \in Nat /\ \A i \in 1..l : pool[i] \in Cell
    BY <1>2, LenProperties, ElementOfSeq
  <2>2. /\ \A i, j \in 1..l : pool[i] = pool[j] => i = j
        /\ \A c \in Cell : \E i \in 1..l : pool[i] = c
    BY <1>2 DEF NoRepeat, Contains
  <2>3. \E c : c \in Cell
    BY MessageQueueAssumption
  <2>4. \E i \in 1..l : TRUE
    BY <2>2, <2>3
  <2> QED BY <2>1, <2>2, <2>4
<1>4. Last(pool) = pool[l]
  BY DEF Last
<1> HIDE DEF pool, l
<1>5. \A i \in 1..l : At0(pool[i]) = i
  BY <1>3
<1>6. \A c \in Cell : At0(c) \in 1..l /\ pool[At0(c)] = c
  BY <1>3
<1> HIDE DEF At0
<1>7. n \in [Cell -> Cell \union {Null}]
  <2>1. ASSUME NEW c \in Cell, At0(c) # 1 PROVE pool[At0(c) - 1] \in Cell
    BY <1>3, <1>6, <2>1
  <2> QED BY <2>1
<1>8. \A i \in 1..l : n[pool[i]] = IF i = 1 THEN Null ELSE pool[i - 1]
  BY <1>3, <1>5
<1> HIDE DEF n
<1>9. d \in [Cell -> Value \union {Null}]
  OBVIOUS
<1> HIDE DEF d
<1>10. \A i \in 1..l : l + 1 - i \in 1..l /\ l + 1 - (l + 1 - i) = i
  BY <1>3
<1>11. f \in Seq(Cell) /\ Len(f) = l /\ \A i \in 1..l : f[i] = pool[l + 1 - i]
  <2>1. f \in [1..l -> Cell]
    BY <1>3, <1>10
  <2> QED BY <1>3, <2>1
<1> HIDE DEF f
<1>12. NoRepeat(f)
  <2> SUFFICES ASSUME NEW i \in 1..l, NEW j \in 1..l, f[i] = f[j] PROVE i = j
    BY <1>11 DEF NoRepeat
  <2> DEFINE a == l + 1 - i
             b == l + 1 - j
  <2>1. a \in 1..l /\ b \in 1..l /\ pool[a] = pool[b]
    BY <1>10, <1>11
  <2>2. a = b
    <3> HIDE DEF a, b
    <3> QED BY <1>3, <2>1
  <2> QED BY <1>3, <2>2
<1>13. \A c \in Cell : Contains(f, c)
  <2> SUFFICES ASSUME NEW c \in Cell PROVE \E i \in 1..l : f[i] = c
    BY <1>11 DEF Contains
  <2>1. PICK j \in 1..l : pool[j] = c
    BY <1>3
  <2>2. l + 1 - j \in 1..l /\ f[l + 1 - j] = pool[l + 1 - (l + 1 - j)]
    BY <1>10, <1>11
  <2>3. f[l + 1 - j] = c
    BY <1>10, <2>1, <2>2
  <2> QED BY <2>2, <2>3
<1>14. Chained(n, pool[l], f)
  <2>1. f[1] = pool[l]
    <3>1. 1 \in 1..l /\ l + 1 - 1 = l
      BY <1>3
    <3> QED BY <1>11, <3>1
  <2>2. ASSUME NEW i \in 1..l PROVE n[f[i]] = IF i = l THEN Null ELSE f[i + 1]
    <3>1. /\ l + 1 - i = 1 => n[f[i]] = Null
          /\ l + 1 - i # 1 => n[f[i]] = pool[l + 1 - i - 1]
      <4> DEFINE a == l + 1 - i
      <4>1. a \in 1..l /\ f[i] = pool[a]
        BY <1>10, <1>11
      <4>2. /\ a = 1 => n[pool[a]] = Null
            /\ a # 1 => n[pool[a]] = pool[a - 1]
        <5> HIDE DEF a
        <5> QED BY <1>8, <4>1
      <4> QED BY <1>3, <4>1, <4>2
    <3>2. i # l => i + 1 \in 1..l /\ l + 1 - (i + 1) = l + 1 - i - 1
      BY <1>3
    <3>3. i # l => f[i + 1] = pool[l + 1 - i - 1]
      BY <1>11, <3>2
    <3>4. l + 1 - i = 1 <=> i = l
      BY <1>3
    <3> QED BY <3>1, <3>3, <3>4
  <2> QED BY <1>3, <1>11, <2>1, <2>2 DEF Chained
<1>15. pool[l] \in Cell
  BY <1>3
<1>16. /\ mq \in MqState /\ mq.head = Null /\ mq.tail = Null /\ mq.entry = 0
       /\ mq.next = n /\ mq.free = pool[l]
  BY <1>1, <1>4, <1>7, <1>9, <1>15 DEF MqState
<1>17. /\ <<>> \in Seq(Cell) /\ Len(<<>>) = 0 /\ NoRepeat(<<>>)
       /\ \A x : ~Contains(<<>>, x) /\ Chained(n, Null, <<>>)
  BY DEF NoRepeat, Contains, Chained
<1>18. Layout(mq, <<>>, f)
  BY <1>11, <1>12, <1>14, <1>16, <1>17 DEF Layout
<1> QED
  BY <1>13, <1>18

-----------------------------------------------------------------------------
(* Cells that are filled or read, on no list. *)

Busy == {"fill", "urgent", "read"}

Listed(s, f, c) == Contains(s, c) \/ Contains(f, c)

\* A cell is on a list or with one thread; the threads that have one are those
\* that fill or read it.
Held(ms, at, s, f) ==
  /\ ms \in [Thread -> Cell \union {Null}]
  /\ \A t \in Thread : ms[t] # Null <=> at[t] \in Busy
  /\ \A t, u \in Thread : ms[t] # Null /\ ms[t] = ms[u] => t = u
  /\ \A t \in Thread : ms[t] # Null => ~Listed(s, f, ms[t])
  /\ \A c \in Cell : Listed(s, f, c) \/ \E t \in Thread : ms[t] = c

\* Nobody takes or gives a cell, and the lists hold the same cells as before.
LEMMA HeldKept ==
  ASSUME NEW ms, NEW at, NEW to, NEW s, NEW f, NEW s2, NEW f2, Held(ms, at, s, f),
         \A t \in Thread : to[t] \in Busy <=> at[t] \in Busy,
         \A x \in Cell : Listed(s2, f2, x) <=> Listed(s, f, x)
  PROVE  Held(ms, to, s2, f2)
BY DEF Held

\* A thread takes a cell off a list.
LEMMA HeldTaken ==
  ASSUME NEW ms, NEW at, NEW to, NEW s, NEW f, NEW s2, NEW f2, Held(ms, at, s, f),
         NEW t \in Thread, at[t] \notin Busy, to[t] \in Busy,
         \A u \in Thread : u # t => to[u] = at[u],
         NEW c \in Cell, Listed(s, f, c),
         \A x \in Cell : Listed(s2, f2, x) <=> Listed(s, f, x) /\ x # c
  PROVE  Held([ms EXCEPT ![t] = c], to, s2, f2)
<1> DEFINE ns == [ms EXCEPT ![t] = c]
<1>1. ms \in [Thread -> Cell \union {Null}] /\ ms[t] = Null
  BY DEF Held
<1>2. /\ ns \in [Thread -> Cell \union {Null}] /\ ns[t] = c
      /\ \A u \in Thread : u # t => ns[u] = ms[u]
  BY <1>1
<1>3. c # Null
  BY CellFacts
<1> HIDE DEF ns
<1>4. \A u \in Thread : ns[u] # Null <=> to[u] \in Busy
  BY <1>2, <1>3 DEF Held
<1>5. \A u \in Thread : ms[u] # c
  BY <1>3 DEF Held
<1>6. \A u, v \in Thread : ns[u] # Null /\ ns[u] = ns[v] => u = v
  BY <1>2, <1>5 DEF Held
<1>7. \A u \in Thread : ns[u] # Null => ~Listed(s2, f2, ns[u])
  BY <1>1, <1>2 DEF Held
<1>8. \A x \in Cell : Listed(s2, f2, x) \/ \E u \in Thread : ns[u] = x
  <2> SUFFICES ASSUME NEW x \in Cell, ~Listed(s2, f2, x)
               PROVE  \E u \in Thread : ns[u] = x
    OBVIOUS
  <2>1. CASE x = c
    BY <1>2, <2>1
  <2>2. CASE x # c
    <3>1. PICK u \in Thread : ms[u] = x
      BY <2>2 DEF Held
    <3>2. u # t
      BY <1>1, <3>1, CellFacts
    <3> QED BY <1>2, <3>1, <3>2
  <2> QED BY <2>1, <2>2
<1>9. Held(ns, to, s2, f2)
  BY <1>2, <1>4, <1>6, <1>7, <1>8 DEF Held
<1> QED
  BY <1>9 DEF ns

\* A thread gives its cell to a list.
LEMMA HeldGiven ==
  ASSUME NEW ms, NEW at, NEW to, NEW s, NEW f, NEW s2, NEW f2, Held(ms, at, s, f),
         NEW t \in Thread, at[t] \in Busy, to[t] \notin Busy,
         \A u \in Thread : u # t => to[u] = at[u],
         \A x \in Cell : Listed(s2, f2, x) <=> Listed(s, f, x) \/ x = ms[t]
  PROVE  Held([ms EXCEPT ![t] = Null], to, s2, f2)
<1> DEFINE ns == [ms EXCEPT ![t] = Null]
<1>1. ms \in [Thread -> Cell \union {Null}] /\ ms[t] # Null
  BY DEF Held
<1>2. /\ ns \in [Thread -> Cell \union {Null}] /\ ns[t] = Null
      /\ \A u \in Thread : u # t => ns[u] = ms[u]
  BY <1>1
<1> HIDE DEF ns
<1>3. \A u \in Thread : ns[u] # Null <=> to[u] \in Busy
  BY <1>2 DEF Held
<1>4. \A u, v \in Thread : ns[u] # Null /\ ns[u] = ns[v] => u = v
  BY <1>2 DEF Held
<1>5. \A u \in Thread : ns[u] # Null => ~Listed(s2, f2, ns[u])
  <2> SUFFICES ASSUME NEW u \in Thread, ns[u] # Null PROVE ~Listed(s2, f2, ns[u])
    OBVIOUS
  <2>1. u # t /\ ns[u] = ms[u] /\ ms[u] \in Cell
    BY <1>1, <1>2
  <2>2. ms[u] # ms[t] /\ ~Listed(s, f, ms[u])
    BY <1>1, <2>1 DEF Held
  <2> QED BY <2>1, <2>2
<1>6. \A x \in Cell : Listed(s2, f2, x) \/ \E u \in Thread : ns[u] = x
  <2> SUFFICES ASSUME NEW x \in Cell, ~Listed(s2, f2, x)
               PROVE  \E u \in Thread : ns[u] = x
    OBVIOUS
  <2>1. PICK u \in Thread : ms[u] = x
    BY DEF Held
  <2>2. u # t
    BY <2>1
  <2> QED BY <1>2, <2>1, <2>2
<1>7. Held(ns, to, s2, f2)
  BY <1>2, <1>3, <1>4, <1>5, <1>6 DEF Held
<1> QED
  BY <1>7 DEF ns

-----------------------------------------------------------------------------
(* The messages in the cells. *)

MessagesOf(d, s) == [i \in 1..Len(s) |-> d[s[i]]]

DataState == [Cell -> Value \union {Null}]

LEMMA MessagesType ==
  ASSUME NEW d \in DataState, NEW s \in Seq(Cell)
  PROVE  MessagesOf(d, s) \in Seq(Value \union {Null}) /\ Len(MessagesOf(d, s)) = Len(s)
<1>1. Len(s) \in Nat /\ \A i \in 1..Len(s) : d[s[i]] \in Value \union {Null}
  BY LenProperties, ElementOfSeq DEF DataState
<1>2. MessagesOf(d, s) \in [1..Len(s) -> Value \union {Null}]
  BY <1>1 DEF MessagesOf
<1> QED
  BY <1>1, <1>2

\* Other cells may be filled meanwhile.
LEMMA MessagesKept ==
  ASSUME NEW d \in DataState, NEW e \in DataState, NEW s \in Seq(Cell),
         \A x \in Cell : Contains(s, x) => e[x] = d[x]
  PROVE  MessagesOf(e, s) = MessagesOf(d, s)
<1>1. \A i \in 1..Len(s) : e[s[i]] = d[s[i]]
  BY ElementOfSeq DEF Contains
<1> QED
  BY <1>1 DEF MessagesOf

LEMMA MessagesAppend ==
  ASSUME NEW d \in DataState, NEW s \in Seq(Cell), NEW c \in Cell
  PROVE  MessagesOf(d, Append(s, c)) = Append(MessagesOf(d, s), d[c])
<1> DEFINE M == Value \union {Null}
           r == Append(s, c)
           a == MessagesOf(d, s)
           b == MessagesOf(d, r)
           w == Append(a, d[c])
           l == Len(s)
<1>1. /\ l \in Nat /\ r \in Seq(Cell) /\ Len(r) = l + 1 /\ r[l + 1] = c
      /\ \A i \in 1..l : r[i] = s[i]
  BY LenProperties, AppendProperties
<1>2. a \in Seq(M) /\ Len(a) = l /\ \A i \in 1..l : a[i] = d[s[i]]
  BY MessagesType DEF MessagesOf
<1>3. b \in Seq(M) /\ Len(b) = l + 1 /\ \A i \in 1..(l + 1) : b[i] = d[r[i]]
  BY <1>1, MessagesType DEF MessagesOf
<1>4. d[c] \in M
  BY DEF DataState
<1>5. /\ w \in Seq(M) /\ Len(w) = l + 1 /\ w[l + 1] = d[c]
      /\ \A i \in 1..l : w[i] = a[i]
  <2> HIDE DEF M, a
  <2> QED BY <1>2, <1>4, AppendProperties
<1> HIDE DEF M, r, a, b, w, l
<1>6. ASSUME NEW i \in 1..(l + 1) PROVE b[i] = w[i]
  <2>1. i = l + 1 \/ i \in 1..l
    BY <1>1
  <2> QED BY <1>1, <1>2, <1>3, <1>5, <2>1
<1>7. b = w
  BY <1>3, <1>5, <1>6, SeqEqual
<1> QED
  BY <1>7 DEF b, w, r, a

LEMMA MessagesCons ==
  ASSUME NEW d \in DataState, NEW s \in Seq(Cell), NEW c \in Cell
  PROVE  MessagesOf(d, Cons(c, s)) = <<d[c]>> \o MessagesOf(d, s)
<1> DEFINE M == Value \union {Null}
           h == <<c>>
           r == h \o s
           a == MessagesOf(d, s)
           b == MessagesOf(d, r)
           e == <<d[c]>>
           w == e \o a
           l == Len(s)
<1>1. l \in Nat /\ h \in Seq(Cell) /\ Len(h) = 1 /\ h[1] = c
  BY LenProperties
<1>2. /\ r \in Seq(Cell) /\ Len(r) = 1 + l
      /\ \A i \in 1..(1 + l) : r[i] = IF i <= 1 THEN h[i] ELSE s[i - 1]
  <2> HIDE DEF h, l
  <2>1. /\ r \in Seq(Cell) /\ Len(r) = Len(h) + Len(s)
        /\ \A i \in 1..(Len(h) + Len(s)) :
             r[i] = IF i <= Len(h) THEN h[i] ELSE s[i - Len(h)]
    BY <1>1, ConcatProperties
  <2> HIDE DEF r
  <2> QED BY <1>1, <2>1 DEF l
<1>3. a \in Seq(M) /\ Len(a) = l /\ \A i \in 1..l : a[i] = d[s[i]]
  BY MessagesType DEF MessagesOf
<1> HIDE DEF h
<1>4. b \in Seq(M) /\ Len(b) = 1 + l /\ \A i \in 1..(1 + l) : b[i] = d[r[i]]
  <2> HIDE DEF r
  <2> QED BY <1>2, MessagesType DEF MessagesOf
<1>5. d[c] \in M
  BY DEF DataState
<1>6. e \in Seq(M) /\ Len(e) = 1 /\ e[1] = d[c]
  BY <1>5
<1>7. /\ w \in Seq(M) /\ Len(w) = 1 + l
      /\ \A i \in 1..(1 + l) : w[i] = IF i <= 1 THEN e[i] ELSE a[i - 1]
  <2> HIDE DEF M, a, e, l
  <2>1. /\ w \in Seq(M) /\ Len(w) = Len(e) + Len(a)
        /\ \A i \in 1..(Len(e) + Len(a)) :
             w[i] = IF i <= Len(e) THEN e[i] ELSE a[i - Len(e)]
    BY <1>3, <1>6, ConcatProperties
  <2> HIDE DEF w
  <2> QED BY <1>1, <1>3, <1>6, <2>1
<1> HIDE DEF M, r, a, b, e, w, l
<1>8. ASSUME NEW i \in 1..(1 + l) PROVE b[i] = w[i]
  <2>1. CASE i = 1
    <3>1. r[i] = c /\ w[i] = d[c]
      BY <1>1, <1>2, <1>6, <1>7, <2>1
    <3> QED BY <1>4, <3>1
  <2>2. CASE i # 1
    <3>1. i - 1 \in 1..l /\ ~(i <= 1)
      BY <1>1, <2>2
    <3>2. r[i] = s[i - 1] /\ w[i] = a[i - 1]
      BY <1>2, <1>7, <3>1
    <3> QED BY <1>3, <1>4, <3>1, <3>2
  <2> QED BY <2>1, <2>2
<1>9. b = w
  BY <1>4, <1>7, <1>8, SeqEqual
<1>10. Cons(c, s) = r
  BY DEF Cons, r, h
<1> QED
  BY <1>9, <1>10 DEF b, w, e, a

LEMMA MessagesTail ==
  ASSUME NEW d \in DataState, NEW s \in Seq(Cell), s # <<>>
  PROVE  /\ MessagesOf(d, s) # <<>>
         /\ Head(MessagesOf(d, s)) = d[Head(s)]
         /\ MessagesOf(d, Tail(s)) = Tail(MessagesOf(d, s))
<1> DEFINE M == Value \union {Null}
           r == Tail(s)
           a == MessagesOf(d, s)
           b == MessagesOf(d, r)
           w == Tail(a)
           l == Len(s)
<1>1. /\ l \in Nat \ {0} /\ r \in Seq(Cell) /\ Len(r) = l - 1 /\ Head(s) = s[1]
      /\ \A i \in 1..(l - 1) : r[i] = s[i + 1]
  BY EmptySeq, HeadTailProperties
<1>2. a \in Seq(M) /\ Len(a) = l /\ \A i \in 1..l : a[i] = d[s[i]]
  BY MessagesType DEF MessagesOf
<1>3. b \in Seq(M) /\ Len(b) = l - 1 /\ \A i \in 1..(l - 1) : b[i] = d[r[i]]
  <2> HIDE DEF r
  <2> QED BY <1>1, MessagesType DEF MessagesOf
<1> HIDE DEF M, a, r, b
<1>4. a # <<>> /\ Head(a) = a[1]
  BY <1>1, <1>2, EmptySeq
<1>5. w \in Seq(M) /\ Len(w) = l - 1 /\ \A i \in 1..(l - 1) : w[i] = a[i + 1]
  <2> HIDE DEF l
  <2> QED BY <1>1, <1>2, <1>4, HeadTailProperties
<1> HIDE DEF w, l
<1>6. ASSUME NEW i \in 1..(l - 1) PROVE b[i] = w[i]
  <2>1. i + 1 \in 1..l
    BY <1>1
  <2> QED BY <1>1, <1>2, <1>3, <1>5, <2>1
<1>7. b = w
  BY <1>3, <1>5, <1>6, SeqEqual
<1>8. a[1] = d[s[1]]
  <2>1. 1 \in 1..l
    BY <1>1
  <2> QED BY <1>2, <2>1
<1> QED
  BY <1>1, <1>4, <1>7, <1>8 DEF a, b, r, w

-----------------------------------------------------------------------------
(* What the calls keep. *)

Mail == Value \union {Null}

\* A thread that waits to send, or fills a cell, has a message to send; one
\* that waits for a message, or reads one, may receive.
CallInv ==
  /\ pc \in [Thread -> Label]
  /\ buffer \in [Thread -> Mail]
  /\ got \in [Receiver -> Mail]
  /\ \A t \in Thread :
       /\ pc[t] \in {"sending", "send", "fill", "urgent"} => buffer[t] \in Value
       /\ pc[t] \in {"receiving", "receive", "read"} => t \in Receiver

CellInv == Layout(mq, Queued, FreeCells) /\ Held(msg, pc, Queued, FreeCells)

PoolInv == CallInv /\ CellInv

QueueStep == Queue!Next \/ UNCHANGED <<Messages, Given>>

StepGood == PoolInv' /\ QueueStep

\* The lists of the next state are those its layout names.
LEMMA CellStep ==
  ASSUME NEW s, NEW f, Layout(mq', s, f), Held(msg', pc', s, f)
  PROVE  CellInv' /\ Queued' = s /\ FreeCells' = f /\ Messages' = MessagesOf(mq'.data, s)
<1>1. Chain(mq', mq'.head) = s /\ Chain(mq', mq'.free) = f
  BY LayoutChains
<1>2. Queued' = Chain(mq', mq'.head) /\ FreeCells' = Chain(mq', mq'.free)
  BY DEF Queued, FreeCells
<1>3. Queued' = s /\ FreeCells' = f
  BY <1>1, <1>2
<1>4. CellInv' <=> Layout(mq', Queued', FreeCells') /\ Held(msg', pc', Queued', FreeCells')
  BY DEF CellInv
<1>5. Messages' = MessagesOf(mq'.data, Queued')
  BY DEF Messages, MessagesOf
<1> QED
  BY <1>3, <1>4, <1>5

\* What the invariant says of the cells.
LEMMA CellWords ==
  ASSUME PoolInv
  PROVE  /\ mq \in MqState /\ mq.data \in DataState
         /\ Queued \in Seq(Cell) /\ FreeCells \in Seq(Cell)
         /\ Layout(mq, Queued, FreeCells) /\ Held(msg, pc, Queued, FreeCells)
         /\ Messages = MessagesOf(mq.data, Queued)
         /\ Len(Messages) = Len(Queued)
         /\ mq.entry = Len(Queued)
         /\ msg \in [Thread -> Cell \union {Null}]
         /\ \A t \in Thread : pc[t] \in Busy => msg[t] \in Cell
<1>1. Layout(mq, Queued, FreeCells) /\ Held(msg, pc, Queued, FreeCells)
  BY DEF PoolInv, CellInv
<1>2. /\ mq \in MqState /\ Queued \in Seq(Cell) /\ FreeCells \in Seq(Cell)
      /\ mq.entry = Len(Queued)
  BY <1>1 DEF Layout
<1>3. mq.data \in DataState
  BY <1>2 DEF MqState, DataState
<1>4. msg \in [Thread -> Cell \union {Null}] /\ \A t \in Thread : pc[t] \in Busy => msg[t] \in Cell
  BY <1>1 DEF Held
<1>5. Messages = MessagesOf(mq.data, Queued)
  BY DEF Messages, MessagesOf
<1>6. Len(Messages) = Len(Queued)
  BY <1>2, <1>3, <1>5, MessagesType
<1> QED
  BY <1>1, <1>2, <1>3, <1>4, <1>5, <1>6

\* A thread goes on at a label that fits its message.
LEMMA CallMoves ==
  ASSUME CallInv, NEW t \in Thread, NEW l \in Label, Goto(t, l),
         buffer' \in [Thread -> Mail], \A u \in Thread \ {t} : buffer'[u] = buffer[u],
         got' \in [Receiver -> Mail],
         l \in {"sending", "send", "fill", "urgent"} => buffer'[t] \in Value,
         l \in {"receiving", "receive", "read"} => t \in Receiver
  PROVE  CallInv'
<1>1. pc \in [Thread -> Label]
  BY DEF CallInv
<1>2. pc' = [pc EXCEPT ![t] = l]
  BY DEF Goto
<1>3. pc' \in [Thread -> Label]
  BY <1>1, <1>2
<1>4. ASSUME NEW u \in Thread
      PROVE  /\ pc'[u] \in {"sending", "send", "fill", "urgent"} => buffer'[u] \in Value
             /\ pc'[u] \in {"receiving", "receive", "read"} => u \in Receiver
  <2>1. CASE u = t
    BY <1>1, <1>2, <2>1
  <2>2. CASE u # t
    <3>1. pc'[u] = pc[u] /\ buffer'[u] = buffer[u]
      BY <1>1, <1>2, <2>2
    <3> QED BY <3>1 DEF CallInv
  <2> QED BY <2>1, <2>2
<1> QED
  BY <1>3, <1>4 DEF CallInv, Mail, Label

\* The same when the message is dropped or kept, and the call ends.
LEMMA CallEnds ==
  ASSUME CallInv, NEW t \in Thread, NEW l \in {"run", "resched"}, Goto(t, l),
         buffer' = [buffer EXCEPT ![t] = Null] \/ buffer' = buffer,
         got' \in [Receiver -> Mail]
  PROVE  CallInv'
<1>1. buffer \in [Thread -> Mail] /\ Null \in Mail
  BY DEF CallInv, Mail
<1>2. buffer' \in [Thread -> Mail] /\ \A u \in Thread \ {t} : buffer'[u] = buffer[u]
  BY <1>1
<1>3. /\ l \in Label /\ l \notin {"sending", "send", "fill", "urgent"}
      /\ l \notin {"receiving", "receive", "read"}
  BY DEF Label
<1> QED
  BY <1>2, <1>3, CallMoves

\* Interrupts and steps that leave the calls alone.
LEMMA CallKept ==
  ASSUME CallInv, UNCHANGED <<pc, buffer, got>>
  PROVE  CallInv'
BY DEF CallInv, Mail, Label

\* What a receiver has, of the next state.
Has(at, d, ms, g, r) == IF at[r] = "read" THEN d[ms[r]] ELSE g[r]

LEMMA GivenNext ==
  /\ Given = [r \in Receiver |-> Has(pc, mq.data, msg, got, r)]
  /\ Given' = [r \in Receiver |-> Has(pc', mq'.data, msg', got', r)]
BY DEF Given, Has

LEMMA ReceiverThreads ==
  /\ Sender \union Receiver \union Resetter \subseteq Thread \ {Idle}
  /\ Receiver \subseteq Thread /\ Idle \notin Sender \union Receiver \union Resetter
  /\ \A t \in Sender : Sends[t] \subseteq Value
  /\ IsrSends \subseteq Value
<1>1. Sender \union Receiver \union Resetter \subseteq Thread \ {Idle}
  BY MessageQueueAssumption
<1>2. Sends \in [Sender -> SUBSET Value] /\ IsrSends \subseteq Value
  BY MessageQueueAssumption
<1> QED
  BY <1>1, <1>2

\* Nothing is given to a receiver while nobody begins or ends reading.
LEMMA GivenQuiet ==
  ASSUME PoolInv, got' = got,
         \A u \in Thread : pc'[u] = "read" <=> pc[u] = "read",
         \A u \in Thread : pc[u] = "read" => mq'.data[msg'[u]] = mq.data[msg[u]]
  PROVE  Given' = Given
<1>1. \A r \in Receiver : Has(pc', mq'.data, msg', got', r) = Has(pc, mq.data, msg, got, r)
  BY ReceiverThreads DEF Has
<1> QED
  BY <1>1, GivenNext

\* What waking a thread does to the caller.
LEMMA WakeGoes ==
  ASSUME NEW t, NEW w, WakeOne(t, w)
  PROVE  \E l \in {"run", "resched"} : Goto(t, l)
BY DEF WakeOne

-----------------------------------------------------------------------------
(* The steps *)

\* Steps that touch no cell and move a thread between labels without one.
LEMMA QuietCall ==
  ASSUME PoolInv, CallInv', NEW t \in Thread, NEW l \in Label, Goto(t, l),
         pc[t] \notin Busy, l \notin Busy, UNCHANGED <<mq, msg, got>>
  PROVE  StepGood
<1>1. /\ Layout(mq, Queued, FreeCells) /\ Held(msg, pc, Queued, FreeCells)
      /\ Messages = MessagesOf(mq.data, Queued)
  BY CellWords
<1>2. pc \in [Thread -> Label] /\ pc' = [pc EXCEPT ![t] = l]
  BY DEF PoolInv, CallInv, Goto
<1>3. \A u \in Thread : /\ pc'[u] \in Busy <=> pc[u] \in Busy
                        /\ pc'[u] = "read" <=> pc[u] = "read"
  BY <1>2 DEF Busy
<1>4. Held(msg, pc', Queued, FreeCells)
  BY <1>1, <1>3, HeldKept
<1>5. CellInv' /\ Messages' = MessagesOf(mq.data, Queued)
  BY <1>1, <1>4, CellStep
<1>6. Given' = Given
  BY <1>3, GivenQuiet
<1> QED
  BY <1>1, <1>5, <1>6 DEF StepGood, PoolInv, QueueStep

\* The same for interrupts.
LEMMA QuietStep ==
  ASSUME PoolInv, UNCHANGED <<pc, buffer, mq, msg, got>>
  PROVE  StepGood
<1>1. /\ Layout(mq, Queued, FreeCells) /\ Held(msg, pc, Queued, FreeCells)
      /\ Messages = MessagesOf(mq.data, Queued)
  BY CellWords
<1>2. CallInv'
  BY CallKept DEF PoolInv
<1>3. CellInv' /\ Messages' = MessagesOf(mq.data, Queued)
  BY <1>1, CellStep
<1>4. Given' = Given
  BY GivenQuiet
<1> QED
  BY <1>1, <1>2, <1>3, <1>4 DEF StepGood, PoolInv, QueueStep

\* A sender takes a free cell: nothing is sent yet.
LEMMA TakeCellStep ==
  ASSUME PoolInv, NEW t \in Thread, pc[t] \notin Busy, NEW v \in Value,
         NEW l \in {"fill", "urgent"}, TakeCell(t, v, l)
  PROVE  StepGood
<1> DEFINE s == Queued
           f == FreeCells
           c == mq.free
<1>1. /\ c # Null /\ mq' = Taken(mq) /\ msg' = [msg EXCEPT ![t] = c]
      /\ buffer' = [buffer EXCEPT ![t] = v] /\ Goto(t, l) /\ got' = got
  BY DEF TakeCell
<1>2. /\ Layout(mq, s, f) /\ Held(msg, pc, s, f) /\ Messages = MessagesOf(mq.data, s)
      /\ msg \in [Thread -> Cell \union {Null}]
  BY CellWords
<1>3. /\ Layout(mq', s, Tail(f)) /\ c \in Cell /\ Contains(f, c)
      /\ \A x : Contains(Tail(f), x) <=> Contains(f, x) /\ x # c
      /\ mq'.data = mq.data
  BY <1>1, <1>2, TakenLayout
<1>4. /\ pc \in [Thread -> Label] /\ pc' = [pc EXCEPT ![t] = l]
      /\ buffer \in [Thread -> Mail] /\ got \in [Receiver -> Mail]
  BY <1>1 DEF PoolInv, CallInv, Goto
<1>5. /\ pc'[t] = l /\ l \in Busy /\ l # "read" /\ pc[t] # "read"
      /\ \A u \in Thread : u # t => pc'[u] = pc[u]
  BY <1>4 DEF Busy
<1>6. \A x \in Cell : Listed(s, Tail(f), x) <=> Listed(s, f, x) /\ x # c
  <2>1. ~Contains(s, c)
    BY <1>2, <1>3 DEF Layout
  <2> QED BY <1>3, <2>1 DEF Listed
<1>7. Held(msg', pc', s, Tail(f))
  <2>1. Listed(s, f, c)
    BY <1>3 DEF Listed
  <2> HIDE DEF s, f, c
  <2>2. Held([msg EXCEPT ![t] = c], pc', s, Tail(f))
    BY <1>2, <1>3, <1>5, <1>6, <2>1, HeldTaken
  <2> QED BY <1>1, <2>2
<1>8. CellInv' /\ Messages' = MessagesOf(mq'.data, s)
  BY <1>3, <1>7, CellStep
<1>9. CallInv'
  <2>1. /\ buffer' \in [Thread -> Mail] /\ buffer'[t] = v
        /\ \A u \in Thread \ {t} : buffer'[u] = buffer[u]
    BY <1>1, <1>4 DEF Mail
  <2>2. l \in Label /\ l \notin {"receiving", "receive", "read"}
    BY DEF Label
  <2> QED BY <1>1, <1>4, <2>1, <2>2, CallMoves DEF PoolInv
<1>10. Given' = Given
  <2>1. \A u \in Thread : pc'[u] = "read" <=> pc[u] = "read"
    BY <1>5
  <2>2. \A u \in Thread : pc[u] = "read" => msg'[u] = msg[u]
    BY <1>1, <1>2, <1>5
  <2> QED BY <1>1, <1>3, <2>1, <2>2, GivenQuiet
<1> QED
  BY <1>2, <1>3, <1>8, <1>9, <1>10 DEF StepGood, PoolInv, QueueStep

\* A thread that has filled its cell links it somewhere in the queue.
LEMMA CellLinked ==
  ASSUME PoolInv, NEW t \in Thread, pc[t] \in {"fill", "urgent"},
         NEW l \in {"run", "resched"}, Goto(t, l),
         msg' = [msg EXCEPT ![t] = Null], buffer' = [buffer EXCEPT ![t] = Null],
         got' = got, NEW s, Layout(mq', s, FreeCells),
         \A x : Contains(s, x) <=> Contains(Queued, x) \/ x = msg[t],
         mq'.data = [mq.data EXCEPT ![msg[t]] = buffer[t]]
  PROVE  /\ PoolInv' /\ Given' = Given /\ Messages' = MessagesOf(mq'.data, s)
         /\ mq'.data \in DataState /\ mq'.data[msg[t]] = buffer[t]
         /\ MessagesOf(mq'.data, Queued) = Messages
<1> DEFINE c == msg[t]
<1>1. /\ pc \in [Thread -> Label] /\ pc' = [pc EXCEPT ![t] = l]
      /\ got' \in [Receiver -> Mail] /\ buffer[t] \in Value
  BY DEF PoolInv, CallInv, Goto
<1>2. /\ pc[t] \in Busy /\ pc[t] # "read" /\ pc'[t] \notin Busy /\ pc'[t] # "read"
      /\ \A u \in Thread : u # t => pc'[u] = pc[u]
  BY <1>1 DEF Busy
<1>3. /\ Held(msg, pc, Queued, FreeCells) /\ Messages = MessagesOf(mq.data, Queued)
      /\ Queued \in Seq(Cell) /\ mq.data \in DataState
      /\ msg \in [Thread -> Cell \union {Null}] /\ c \in Cell
  BY <1>2, CellWords
<1>4. ~Contains(Queued, c) /\ \A u \in Thread : u # t => msg[u] # c
  BY <1>2, <1>3 DEF Held, Listed
<1>5. /\ mq'.data \in DataState /\ mq'.data[c] = buffer[t]
      /\ \A x \in Cell : x # c => mq'.data[x] = mq.data[x]
  BY <1>1, <1>3 DEF DataState
<1>6. Held(msg', pc', s, FreeCells)
  <2>1. \A x \in Cell : Listed(s, FreeCells, x) <=> Listed(Queued, FreeCells, x) \/ x = msg[t]
    BY DEF Listed
  <2>2. Held([msg EXCEPT ![t] = Null], pc', s, FreeCells)
    BY <1>2, <1>3, <2>1, HeldGiven
  <2> QED BY <2>2
<1>7. CellInv' /\ Messages' = MessagesOf(mq'.data, s)
  BY <1>6, CellStep
<1>8. CallInv'
  BY <1>1, CallEnds DEF PoolInv
<1>9. Given' = Given
  <2>1. \A u \in Thread : pc'[u] = "read" <=> pc[u] = "read"
    BY <1>2
  <2>2. ASSUME NEW u \in Thread, pc[u] = "read" PROVE mq'.data[msg'[u]] = mq.data[msg[u]]
    <3>1. u # t /\ msg'[u] = msg[u] /\ msg[u] \in Cell /\ msg[u] # c
      BY <1>2, <1>3, <1>4, <2>2, CellWords DEF Busy
    <3> QED BY <1>5, <3>1
  <2> QED BY <2>1, <2>2, GivenQuiet
<1>10. MessagesOf(mq'.data, Queued) = Messages
  <2>1. \A x \in Cell : Contains(Queued, x) => mq'.data[x] = mq.data[x]
    BY <1>4, <1>5
  <2> QED BY <1>3, <1>5, <2>1, MessagesKept
<1> QED
  BY <1>5, <1>7, <1>8, <1>9, <1>10 DEF PoolInv

\* A filled cell is linked: the message is sent.
LEMMA LinkStep ==
  ASSUME PoolInv, NEW t \in Thread, Link(t)
  PROVE  StepGood
<1> DEFINE s == Queued
           f == FreeCells
           c == msg[t]
           v == buffer[t]
<1>1. /\ msg' = [msg EXCEPT ![t] = Null] /\ buffer' = [buffer EXCEPT ![t] = Null]
      /\ got' = got /\ WakeOne(t, "receivers")
      /\ \/ pc[t] = "fill" /\ mq' = Linked(mq, c, v)
         \/ pc[t] = "urgent" /\ mq' = LinkedFirst(mq, c, v)
  BY DEF Link, At
<1>2. PICK l \in {"run", "resched"} : Goto(t, l)
  BY <1>1, WakeGoes
<1>3. pc[t] \in Busy /\ pc[t] \in {"fill", "urgent"} /\ v \in Value
  BY <1>1 DEF PoolInv, CallInv, Busy
<1>4. /\ Layout(mq, s, f) /\ Held(msg, pc, s, f) /\ Messages = MessagesOf(mq.data, s)
      /\ s \in Seq(Cell) /\ Len(Messages) = Len(s) /\ c \in Cell
  BY <1>3, CellWords
<1>5. ~Contains(s, c) /\ ~Contains(f, c)
  BY <1>3, <1>4, CellFacts DEF Held, Listed
<1>6. CASE pc[t] = "fill" /\ mq' = Linked(mq, c, v)
  <2>1. /\ Layout(mq', Append(s, c), f) /\ mq'.data = [mq.data EXCEPT ![c] = v]
        /\ Len(s) < Cardinality(Cell)
    BY <1>3, <1>4, <1>5, <1>6, LinkedLayout
  <2>2. \A x : Contains(Append(s, c), x) <=> Contains(s, x) \/ x = c
    BY <1>4, AppendList
  <2>3. /\ PoolInv' /\ Given' = Given /\ Messages' = MessagesOf(mq'.data, Append(s, c))
        /\ mq'.data \in DataState /\ mq'.data[c] = v
        /\ MessagesOf(mq'.data, s) = Messages
    BY <1>1, <1>2, <1>3, <2>1, <2>2, CellLinked
  <2>4. Messages' = Append(Messages, v)
    BY <1>4, <2>3, MessagesAppend
  <2>5. Queue!Send(v)
    BY <1>4, <2>1, <2>3, <2>4 DEF Queue!Send
  <2> QED BY <1>3, <2>3, <2>5 DEF StepGood, QueueStep, Queue!Next
<1>7. CASE pc[t] = "urgent" /\ mq' = LinkedFirst(mq, c, v)
  <2>1. /\ Layout(mq', Cons(c, s), f) /\ mq'.data = [mq.data EXCEPT ![c] = v]
        /\ Len(s) < Cardinality(Cell)
    BY <1>3, <1>4, <1>5, <1>7, LinkedFirstLayout
  <2>2. \A x : Contains(Cons(c, s), x) <=> Contains(s, x) \/ x = c
    BY <1>4, ConsList
  <2>3. /\ PoolInv' /\ Given' = Given /\ Messages' = MessagesOf(mq'.data, Cons(c, s))
        /\ mq'.data \in DataState /\ mq'.data[c] = v
        /\ MessagesOf(mq'.data, s) = Messages
    BY <1>1, <1>2, <1>3, <2>1, <2>2, CellLinked
  <2>4. Messages' = <<v>> \o Messages
    BY <1>4, <2>3, MessagesCons
  <2>5. Queue!Urgent(v)
    BY <1>4, <2>1, <2>3, <2>4 DEF Queue!Urgent
  <2> QED BY <1>3, <2>3, <2>5 DEF StepGood, QueueStep, Queue!Next
<1> QED
  BY <1>1, <1>6, <1>7

\* The interrupt handler takes, fills and links a cell at once.
LEMMA IsrSendStep ==
  ASSUME PoolInv, NEW v \in IsrSends, IsrSend(v)
  PROVE  StepGood
<1> DEFINE s == Queued
           f == FreeCells
           c == mq.free
           q == Taken(mq)
<1>1. c # Null /\ mq' = Linked(q, c, v) /\ UNCHANGED <<pc, buffer, msg, got>> /\ v \in Value
  BY ReceiverThreads DEF IsrSend
<1>2. /\ Layout(mq, s, f) /\ Held(msg, pc, s, f) /\ Messages = MessagesOf(mq.data, s)
      /\ s \in Seq(Cell) /\ mq.data \in DataState /\ Len(Messages) = Len(s)
  BY CellWords
<1>3. /\ Layout(q, s, Tail(f)) /\ c \in Cell /\ Contains(f, c)
      /\ \A x : Contains(Tail(f), x) <=> Contains(f, x) /\ x # c
      /\ q.data = mq.data
  BY <1>1, <1>2, TakenLayout
<1>4. ~Contains(s, c) /\ ~Contains(Tail(f), c)
  BY <1>2, <1>3 DEF Layout
<1>5. /\ Layout(mq', Append(s, c), Tail(f)) /\ Len(s) < Cardinality(Cell)
      /\ mq'.data = [mq.data EXCEPT ![c] = v]
  <2> HIDE DEF q
  <2> QED BY <1>1, <1>3, <1>4, LinkedLayout
<1>6. \A x : Contains(Append(s, c), x) <=> Contains(s, x) \/ x = c
  BY <1>2, <1>3, AppendList
<1>7. /\ mq'.data \in DataState /\ mq'.data[c] = v
      /\ \A x \in Cell : x # c => mq'.data[x] = mq.data[x]
  BY <1>1, <1>2, <1>3, <1>5 DEF DataState
<1>8. Held(msg', pc', Append(s, c), Tail(f))
  <2>1. \A x \in Cell : Listed(Append(s, c), Tail(f), x) <=> Listed(s, f, x)
    BY <1>3, <1>6 DEF Listed
  <2>2. Held(msg, pc, Append(s, c), Tail(f))
    BY <1>2, <2>1, HeldKept
  <2> QED BY <1>1, <2>2
<1>9. CellInv' /\ Messages' = MessagesOf(mq'.data, Append(s, c))
  BY <1>5, <1>8, CellStep
<1>10. CallInv'
  BY <1>1, CallKept DEF PoolInv
<1>11. Given' = Given
  <2>1. ASSUME NEW u \in Thread, pc[u] = "read" PROVE mq'.data[msg'[u]] = mq.data[msg[u]]
    <3>1. msg[u] \in Cell /\ msg[u] # c
      <4>1. msg[u] \in Cell
        BY <2>1, CellWords DEF Busy
      <4>2. ~Listed(s, f, msg[u])
        BY <1>2, <4>1, CellFacts DEF Held
      <4> QED BY <1>3, <4>1, <4>2 DEF Listed
    <3> QED BY <1>1, <1>7, <3>1
  <2> QED BY <1>1, <2>1, GivenQuiet
<1>12. Messages' = Append(Messages, v)
  <2>1. MessagesOf(mq'.data, s) = MessagesOf(mq.data, s)
    <3>1. \A x \in Cell : Contains(s, x) => mq'.data[x] = mq.data[x]
      BY <1>4, <1>7
    <3> QED BY <1>2, <1>7, <3>1, MessagesKept
  <2> QED BY <1>2, <1>3, <1>7, <1>9, <2>1, MessagesAppend
<1>13. Queue!Send(v)
  BY <1>2, <1>5, <1>11, <1>12 DEF Queue!Send
<1> QED
  BY <1>1, <1>9, <1>10, <1>13 DEF StepGood, PoolInv, QueueStep, Queue!Next

\* A receiver takes the first cell: the message is received, whenever it is read.
LEMMA UnlinkStep ==
  ASSUME PoolInv, NEW t \in Receiver, pc[t] \notin Busy, Unlink(t)
  PROVE  StepGood
<1> DEFINE s == Queued
           f == FreeCells
           c == mq.head
<1>1. /\ mq.entry # 0 /\ mq' = Unlinked(mq) /\ msg' = [msg EXCEPT ![t] = c]
      /\ Goto(t, "read") /\ UNCHANGED <<buffer, got>>
  BY DEF Unlink
<1>2. /\ Layout(mq, s, f) /\ Held(msg, pc, s, f) /\ Messages = MessagesOf(mq.data, s)
      /\ s \in Seq(Cell) /\ mq.data \in DataState
      /\ msg \in [Thread -> Cell \union {Null}]
  BY CellWords
<1>3. /\ Layout(mq', Tail(s), f) /\ s # <<>> /\ c = Head(s) /\ c \in Cell /\ Contains(s, c)
      /\ \A x : Contains(Tail(s), x) <=> Contains(s, x) /\ x # c
      /\ mq'.data = mq.data
  BY <1>1, <1>2, UnlinkedLayout
<1>4. /\ pc \in [Thread -> Label] /\ pc' = [pc EXCEPT ![t] = "read"] /\ t \in Thread
      /\ buffer \in [Thread -> Mail] /\ got \in [Receiver -> Mail]
  BY <1>1, ReceiverThreads DEF PoolInv, CallInv, Goto
<1>5. /\ pc'[t] = "read" /\ pc'[t] \in Busy
      /\ \A u \in Thread : u # t => pc'[u] = pc[u]
  BY <1>4 DEF Busy
<1>6. \A x \in Cell : Listed(Tail(s), f, x) <=> Listed(s, f, x) /\ x # c
  <2>1. ~Contains(f, c)
    BY <1>2, <1>3 DEF Layout
  <2> QED BY <1>3, <2>1 DEF Listed
<1>7. Held(msg', pc', Tail(s), f)
  <2>1. Listed(s, f, c)
    BY <1>3 DEF Listed
  <2> HIDE DEF s, f, c
  <2>2. Held([msg EXCEPT ![t] = c], pc', Tail(s), f)
    BY <1>2, <1>3, <1>4, <1>5, <1>6, <2>1, HeldTaken
  <2> QED BY <1>1, <2>2
<1>8. CellInv' /\ Messages' = MessagesOf(mq'.data, Tail(s))
  BY <1>3, <1>7, CellStep
<1>9. CallInv'
  <2>1. "read" \in Label /\ "read" \notin {"sending", "send", "fill", "urgent"}
    BY DEF Label
  <2>2. /\ buffer' \in [Thread -> Mail] /\ got' \in [Receiver -> Mail]
        /\ \A u \in Thread \ {t} : buffer'[u] = buffer[u]
    BY <1>1, <1>4
  <2> QED BY <1>1, <1>4, <2>1, <2>2, CallMoves DEF PoolInv
<1>10. /\ Messages # <<>> /\ Head(Messages) = mq.data[c] /\ Messages' = Tail(Messages)
  BY <1>2, <1>3, <1>8, MessagesTail
<1>11. Given' = [Given EXCEPT ![t] = Head(Messages)]
  <2> DEFINE h(r) == Has(pc, mq.data, msg, got, r)
             h2(r) == Has(pc', mq'.data, msg', got', r)
  <2>1. h2(t) = mq.data[c]
    BY <1>1, <1>2, <1>3, <1>4, <1>5 DEF Has
  <2>2. ASSUME NEW r \in Receiver, r # t PROVE h2(r) = h(r)
    <3>1. r \in Thread /\ pc'[r] = pc[r] /\ msg'[r] = msg[r]
      BY <1>1, <1>2, <1>5, <2>2, ReceiverThreads
    <3> QED BY <1>1, <1>3, <3>1 DEF Has
  <2>3. Given = [r \in Receiver |-> h(r)] /\ Given' = [r \in Receiver |-> h2(r)]
    BY GivenNext
  <2> HIDE DEF h, h2
  <2> QED BY <1>10, <2>1, <2>2, <2>3
<1>12. Queue!Receive(t)
  BY <1>10, <1>11 DEF Queue!Receive
<1> QED
  BY <1>8, <1>9, <1>12 DEF StepGood, PoolInv, QueueStep, Queue!Next

\* The cell that was read is freed: the receiver has the message it was given.
LEMMA FreeStep ==
  ASSUME PoolInv, NEW t \in Thread, Free(t)
  PROVE  StepGood
<1> DEFINE s == Queued
           f == FreeCells
           c == msg[t]
<1>1. /\ pc[t] = "read" /\ got' = [got EXCEPT ![t] = mq.data[c]] /\ mq' = Freed(mq, c)
      /\ WakeOne(t, "senders") /\ msg' = [msg EXCEPT ![t] = Null] /\ buffer' = buffer
  BY DEF Free, At
<1>2. PICK l \in {"run", "resched"} : Goto(t, l)
  BY <1>1, WakeGoes
<1>3. pc[t] \in Busy
  BY <1>1 DEF Busy
<1>4. /\ Layout(mq, s, f) /\ Held(msg, pc, s, f) /\ Messages = MessagesOf(mq.data, s)
      /\ c \in Cell /\ mq.data \in DataState
      /\ msg \in [Thread -> Cell \union {Null}]
  BY <1>3, CellWords
<1>5. ~Contains(s, c) /\ ~Contains(f, c)
  BY <1>3, <1>4, CellFacts DEF Held, Listed
<1>6. /\ Layout(mq', s, Cons(c, f)) /\ mq'.data = mq.data
      /\ \A x : Contains(Cons(c, f), x) <=> Contains(f, x) \/ x = c
  BY <1>1, <1>4, <1>5, FreedLayout
<1>7. /\ pc \in [Thread -> Label] /\ pc' = [pc EXCEPT ![t] = l]
      /\ got \in [Receiver -> Mail] /\ t \in Receiver
  BY <1>1, <1>2 DEF PoolInv, CallInv, Goto
<1>8. /\ pc'[t] \notin Busy /\ pc'[t] # "read"
      /\ \A u \in Thread : u # t => pc'[u] = pc[u]
  BY <1>7 DEF Busy
<1>9. Held(msg', pc', s, Cons(c, f))
  <2>1. \A x \in Cell : Listed(s, Cons(c, f), x) <=> Listed(s, f, x) \/ x = msg[t]
    BY <1>6 DEF Listed
  <2>2. Held([msg EXCEPT ![t] = Null], pc', s, Cons(c, f))
    BY <1>3, <1>4, <1>8, <2>1, HeldGiven
  <2> QED BY <1>1, <2>2
<1>10. CellInv' /\ Messages' = Messages
  BY <1>4, <1>6, <1>9, CellStep
<1>11. CallInv'
  <2>1. mq.data[c] \in Mail
    BY <1>4 DEF DataState, Mail
  <2>2. got' \in [Receiver -> Mail]
    BY <1>1, <1>7, <2>1
  <2> QED BY <1>1, <1>2, <2>2, CallEnds DEF PoolInv
<1>12. Given' = Given
  <2> DEFINE h(r) == Has(pc, mq.data, msg, got, r)
             h2(r) == Has(pc', mq'.data, msg', got', r)
  <2>1. h2(t) = mq.data[c] /\ h(t) = mq.data[c]
    BY <1>1, <1>7, <1>8 DEF Has
  <2>2. ASSUME NEW r \in Receiver, r # t PROVE h2(r) = h(r)
    <3>1. r \in Thread /\ pc'[r] = pc[r] /\ msg'[r] = msg[r] /\ got'[r] = got[r]
      BY <1>1, <1>4, <1>7, <1>8, <2>2, ReceiverThreads
    <3> QED BY <1>6, <3>1 DEF Has
  <2>3. Given = [r \in Receiver |-> h(r)] /\ Given' = [r \in Receiver |-> h2(r)]
    BY GivenNext
  <2> HIDE DEF h, h2
  <2> QED BY <2>1, <2>2, <2>3
<1> QED
  BY <1>10, <1>11, <1>12 DEF StepGood, PoolInv, QueueStep

\* A reset empties the queue.
LEMMA ResetStep ==
  ASSUME PoolInv, NEW t \in Thread, Reset(t)
  PROVE  StepGood
<1> DEFINE s == Queued
           f == FreeCells
<1>1. /\ pc[t] = "run" /\ mq' = Emptied(mq) /\ Goto(t, "resched")
      /\ UNCHANGED <<buffer, msg, got>>
  BY DEF Reset, At
<1>2. Layout(mq, s, f) /\ Held(msg, pc, s, f)
  BY CellWords
<1>3. PICK g : /\ Layout(mq', <<>>, g)
               /\ \A x : Contains(g, x) <=> Contains(f, x) \/ Contains(s, x)
               /\ mq'.data = mq.data
  BY <1>1, <1>2, EmptiedLayout
<1>4. /\ pc \in [Thread -> Label] /\ pc' = [pc EXCEPT ![t] = "resched"]
      /\ got \in [Receiver -> Mail]
  BY <1>1 DEF PoolInv, CallInv, Goto
<1>5. \A u \in Thread : /\ pc'[u] \in Busy <=> pc[u] \in Busy
                        /\ pc'[u] = "read" <=> pc[u] = "read"
  BY <1>1, <1>4 DEF Busy
<1>6. Held(msg', pc', <<>>, g)
  <2>1. ~ \E x : Contains(<<>>, x)
    BY DEF Contains
  <2>2. \A x \in Cell : Listed(<<>>, g, x) <=> Listed(s, f, x)
    BY <1>3, <2>1 DEF Listed
  <2>3. Held(msg, pc', <<>>, g)
    BY <1>2, <1>5, <2>2, HeldKept
  <2> QED BY <1>1, <2>3
<1>7. CellInv' /\ Messages' = MessagesOf(mq'.data, <<>>)
  BY <1>3, <1>6, CellStep
<1>8. Messages' = <<>>
  <2>1. Len(<<>>) = 0
    OBVIOUS
  <2> QED BY <1>7, <2>1 DEF MessagesOf
<1>9. CallInv'
  BY <1>1, <1>4, CallEnds DEF PoolInv
<1>10. Given' = Given
  BY <1>1, <1>3, <1>5, GivenQuiet
<1>11. Queue!Reset
  BY <1>8, <1>10 DEF Queue!Reset
<1> QED
  BY <1>7, <1>9, <1>11 DEF StepGood, PoolInv, QueueStep, Queue!Next

\* A thread that waits for a free cell keeps the message it wants to send.
LEMMA WaitForCellStep ==
  ASSUME PoolInv, NEW t \in Thread, pc[t] \notin Busy, NEW v \in Value,
         NEW finite \in BOOLEAN, WaitForCell(t, v, finite)
  PROVE  StepGood
<1>1. /\ Goto(t, "sending") /\ buffer' = [buffer EXCEPT ![t] = v]
      /\ UNCHANGED <<mq, msg, got>>
  BY DEF WaitForCell, WaitOn
<1>2. buffer \in [Thread -> Mail] /\ got \in [Receiver -> Mail] /\ CallInv
  BY DEF PoolInv, CallInv
<1>3. /\ buffer' \in [Thread -> Mail] /\ buffer'[t] = v
      /\ \A u \in Thread \ {t} : buffer'[u] = buffer[u]
  BY <1>1, <1>2 DEF Mail
<1>4. /\ "sending" \in Label /\ "sending" \notin Busy
      /\ "sending" \notin {"receiving", "receive", "read"}
  BY DEF Label, Busy
<1>5. CallInv'
  BY <1>1, <1>2, <1>3, <1>4, CallMoves
<1> QED
  BY <1>1, <1>4, <1>5, QuietCall

\* A thread that waits for a message is a receiver.
LEMMA WaitForMessageStep ==
  ASSUME PoolInv, NEW t \in Receiver, pc[t] \notin Busy, NEW finite \in BOOLEAN,
         WaitForMessage(t, finite)
  PROVE  StepGood
<1>1. Goto(t, "receiving") /\ UNCHANGED <<mq, msg, got, buffer>>
  BY DEF WaitForMessage, WaitOn
<1>2. /\ buffer \in [Thread -> Mail] /\ got \in [Receiver -> Mail] /\ CallInv
      /\ t \in Thread
  BY ReceiverThreads DEF PoolInv, CallInv
<1>3. /\ "receiving" \in Label /\ "receiving" \notin Busy
      /\ "receiving" \notin {"sending", "send", "fill", "urgent"}
  BY DEF Label, Busy
<1>4. CallInv'
  BY <1>1, <1>2, <1>3, CallMoves
<1> QED
  BY <1>1, <1>2, <1>3, <1>4, QuietCall

\* A call that ends without having touched a cell.
LEMMA EndStep ==
  ASSUME PoolInv, NEW t \in Thread, pc[t] \notin Busy,
         NEW l \in {"run", "resched"}, Goto(t, l),
         buffer' = [buffer EXCEPT ![t] = Null] \/ buffer' = buffer,
         UNCHANGED <<mq, msg, got>>
  PROVE  StepGood
<1>1. got' \in [Receiver -> Mail] /\ CallInv
  BY DEF PoolInv, CallInv
<1>2. CallInv' /\ l \in Label /\ l \notin Busy
  BY <1>1, CallEnds DEF Label, Busy
<1> QED
  BY <1>2, QuietCall

\* rt_schedule inside a wait loop: the thread goes on behind it.
LEMMA LoopScheduleStep ==
  ASSUME PoolInv, NEW t \in Thread, SendSchedule(t) \/ ReceiveSchedule(t)
  PROVE  StepGood
<1>1. UNCHANGED <<mq, buffer, msg, got>>
  BY DEF SendSchedule, ReceiveSchedule
<1>2. /\ CallInv /\ buffer' \in [Thread -> Mail] /\ got' \in [Receiver -> Mail]
      /\ \A u \in Thread \ {t} : buffer'[u] = buffer[u]
      /\ pc[t] = "sending" => buffer'[t] \in Value
      /\ pc[t] = "receiving" => t \in Receiver
  BY <1>1 DEF PoolInv, CallInv
<1>3. CASE SendSchedule(t)
  <2>1. pc[t] = "sending" /\ Goto(t, "send")
    BY <1>3 DEF SendSchedule, ScheduleThen, At
  <2>2. /\ "send" \in Label /\ "send" \notin Busy /\ pc[t] \notin Busy
        /\ "send" \notin {"receiving", "receive", "read"}
    BY <2>1 DEF Label, Busy
  <2>3. CallInv'
    BY <1>2, <2>1, <2>2, CallMoves
  <2> QED BY <1>1, <2>1, <2>2, <2>3, QuietCall
<1>4. CASE ReceiveSchedule(t)
  <2>1. pc[t] = "receiving" /\ Goto(t, "receive")
    BY <1>4 DEF ReceiveSchedule, ScheduleThen, At
  <2>2. /\ "receive" \in Label /\ "receive" \notin Busy /\ pc[t] \notin Busy
        /\ "receive" \notin {"sending", "send", "fill", "urgent"}
    BY <2>1 DEF Label, Busy
  <2>3. CallInv'
    BY <1>2, <2>1, <2>2, CallMoves
  <2> QED BY <1>1, <2>1, <2>2, <2>3, QuietCall
<1> QED
  BY <1>3, <1>4

\* Whatever a thread that has begun a call does next.
LEMMA ContinueStep ==
  ASSUME PoolInv, NEW t \in Thread, Continue(t)
  PROVE  StepGood
<1>1. /\ pc[t] = "send" => buffer[t] \in Value
      /\ pc[t] = "receive" => t \in Receiver
  BY DEF PoolInv, CallInv
<1>2. (t \in timed) \in BOOLEAN
  OBVIOUS
<1>3. CASE SendSchedule(t) \/ ReceiveSchedule(t)
  BY <1>3, LoopScheduleStep
<1>4. CASE SendAgain(t)
  <2>1. buffer[t] \in Value /\ pc[t] \notin Busy
    BY <1>1, <1>4 DEF SendAgain, At, Busy
  <2>2. CASE TakeCell(t, buffer[t], "fill")
    BY <2>1, <2>2, TakeCellStep
  <2>3. CASE WaitForCell(t, buffer[t], t \in timed)
    BY <1>2, <2>1, <2>3, WaitForCellStep
  <2>4. CASE GivesUp(t, "EINTR")
    <3>1. /\ Goto(t, "run") /\ buffer' = [buffer EXCEPT ![t] = Null]
          /\ UNCHANGED <<mq, msg, got>>
      BY <2>4 DEF GivesUp, Return
    <3> QED BY <2>1, <3>1, EndStep
  <2> QED BY <1>4, <2>2, <2>3, <2>4 DEF SendAgain
<1>5. CASE ReceiveAgain(t)
  <2>1. t \in Receiver /\ pc[t] \notin Busy
    BY <1>1, <1>5 DEF ReceiveAgain, At, Busy
  <2>2. CASE Unlink(t)
    BY <2>1, <2>2, UnlinkStep
  <2>3. CASE WaitForMessage(t, t \in timed)
    BY <1>2, <2>1, <2>3, WaitForMessageStep
  <2>4. CASE GivesUp(t, "ETIMEOUT")
    <3>1. /\ Goto(t, "run") /\ buffer' = [buffer EXCEPT ![t] = Null]
          /\ UNCHANGED <<mq, msg, got>>
      BY <2>4 DEF GivesUp, Return
    <3> QED BY <2>1, <3>1, EndStep
  <2> QED BY <1>5, <2>2, <2>3, <2>4 DEF ReceiveAgain
<1>6. CASE Fails(t, "send") \/ Fails(t, "receive")
  <2>1. /\ Goto(t, "run") /\ buffer' = [buffer EXCEPT ![t] = Null]
        /\ UNCHANGED <<mq, msg, got>> /\ pc[t] \notin Busy
    BY <1>6 DEF Fails, Return, At, Busy
  <2> QED BY <2>1, EndStep
<1>7. CASE Reschedule(t)
  <2>1. Goto(t, "run") /\ UNCHANGED <<mq, buffer, msg, got>> /\ pc[t] \notin Busy
    BY <1>7 DEF Reschedule, ScheduleThen, At, Busy
  <2> QED BY <2>1, EndStep
<1> QED
  BY <1>3, <1>4, <1>5, <1>6, <1>7, LinkStep, FreeStep DEF Continue

\* Every step keeps the invariant, and is a step of the queue or none.
LEMMA NextStep ==
  ASSUME PoolInv, [Next]_vars
  PROVE  StepGood
<1>1. ASSUME UNCHANGED <<pc, buffer, mq, msg, got>> PROVE StepGood
  BY <1>1, QuietStep
<1>2. ASSUME NEW t \in Thread, NEW v \in Value, Send(t, v) PROVE StepGood
  <2>1. pc[t] \notin Busy
    BY <1>2 DEF Send, At, Busy
  <2>2. CASE TakeCell(t, v, "fill")
    BY <2>1, <2>2, TakeCellStep
  <2>3. CASE \E finite \in BOOLEAN : WaitForCell(t, v, finite)
    BY <2>1, <2>3, WaitForCellStep
  <2> QED BY <1>2, <2>2, <2>3 DEF Send
<1>3. ASSUME NEW t \in Thread, NEW v \in Value, Urgent(t, v) PROVE StepGood
  <2>1. pc[t] \notin Busy /\ TakeCell(t, v, "urgent")
    BY <1>3 DEF Urgent, At, Busy
  <2> QED BY <2>1, TakeCellStep
<1>4. ASSUME NEW t \in Thread, Receive(t) PROVE StepGood
  <2>1. t \in Receiver /\ pc[t] \notin Busy
    BY <1>4 DEF Receive, At, Busy
  <2>2. CASE Unlink(t)
    BY <2>1, <2>2, UnlinkStep
  <2>3. CASE \E finite \in BOOLEAN : WaitForMessage(t, finite)
    BY <2>1, <2>3, WaitForMessageStep
  <2> QED BY <1>4, <2>2, <2>3 DEF Receive
<1>5. ASSUME NEW t \in Thread, Sleep(t) PROVE StepGood
  <2>1. Goto(t, "resched") /\ UNCHANGED <<mq, buffer, msg, got>> /\ pc[t] \notin Busy
    BY <1>5 DEF Sleep, SleepStart, At, Busy
  <2> QED BY <2>1, EndStep
<1>6. ASSUME NEW t \in Thread, Timeout(t) PROVE StepGood
  BY <1>1, <1>6 DEF Timeout, TimerExpires
<1>7. ASSUME Tick PROVE StepGood
  BY <1>1, <1>7 DEF Tick, SliceEnd
<1>8. ASSUME UNCHANGED vars PROVE StepGood
  BY <1>1, <1>8 DEF vars
<1>9. \A t \in Sender : t \in Thread /\ \A v \in Sends[t] : v \in Value
  BY ReceiverThreads
<1>10. CASE Next
  BY <1>2, <1>3, <1>4, <1>5, <1>6, <1>7, <1>9, <1>10, IsrSendStep, ResetStep,
     ContinueStep DEF Next
<1> QED
  BY <1>8, <1>10

\* The queue starts empty, every cell free, and nobody in a call.
LEMMA InitStep ==
  ASSUME Init
  PROVE  PoolInv /\ Queue!Init
<1>1. /\ pc = [t \in Thread |-> "run"] /\ buffer = [t \in Thread |-> Null]
      /\ msg = [t \in Thread |-> Null] /\ got = [r \in Receiver |-> Null]
  BY DEF Init
<1>2. PICK f : Layout(mq, <<>>, f) /\ \A c \in Cell : Contains(f, c)
  BY InitLayout
<1>3. CallInv
  BY <1>1 DEF CallInv, Mail, Label
<1>4. Held(msg, pc, <<>>, f)
  <2>1. \A c \in Cell : Listed(<<>>, f, c)
    BY <1>2 DEF Listed
  <2>2. /\ msg \in [Thread -> Cell \union {Null}]
        /\ \A t \in Thread : msg[t] = Null /\ pc[t] \notin Busy
    BY <1>1 DEF Busy
  <2> QED BY <2>1, <2>2 DEF Held
<1>5. Queued = <<>> /\ FreeCells = f
  BY <1>2, LayoutChains DEF Queued, FreeCells
<1>6. CellInv
  BY <1>2, <1>4, <1>5 DEF CellInv
<1>7. Messages = <<>>
  <2>1. Len(<<>>) = 0
    OBVIOUS
  <2> QED BY <1>5, <2>1 DEF Messages
<1>8. Given = [r \in Receiver |-> Null]
  BY <1>1, ReceiverThreads DEF Given
<1> QED
  BY <1>3, <1>6, <1>7, <1>8 DEF PoolInv, Queue!Init

\* The two lists of cells are always well linked, and a cell is on one of them
\* or with the one thread that fills or reads it.
THEOREM PoolInvHolds == Spec => []PoolInv
<1>1. Init => PoolInv
  BY InitStep
<1>2. PoolInv /\ [Next]_vars => PoolInv'
  BY NextStep DEF StepGood
<1> QED
  BY <1>1, <1>2, PTL DEF Spec

\* The message queue is a bounded queue for every number of threads, every set
\* of messages and every pool of cells: although _rt_mq_send_wait and
\* _rt_mq_recv copy with interrupts enabled, no message is lost, doubled,
\* overtaken, or read from a cell that was used again.
THEOREM QueueHolds == Spec => QueueSpec
<1>1. Init => Queue!Init
  BY InitStep
<1>2. PoolInv /\ [Next]_vars => [Queue!Next]_<<Messages, Given>>
  BY NextStep DEF StepGood, QueueStep
<1>3. Queue!Spec <=> Queue!Init /\ [][Queue!Next]_<<Messages, Given>>
  BY DEF Queue!Spec
<1> QED
  BY <1>1, <1>2, <1>3, PoolInvHolds, PTL DEF Spec, QueueSpec

\* A cell is as often on a list as it is found there.
LEMMA PlacesOf ==
  ASSUME NEW s \in Seq(Cell), NEW f \in Seq(Cell), NoRepeat(s), NoRepeat(f),
         NEW c \in Cell, ~(Contains(s, c) /\ Contains(f, c)),
         NEW p, p = s \o f
  PROVE  Cardinality({i \in 1..Len(p) : p[i] = c}) = IF Listed(s, f, c) THEN 1 ELSE 0
<1> DEFINE a == Len(s)
           b == Len(f)
           P == {i \in 1..Len(p) : p[i] = c}
<1>1. a \in Nat /\ b \in Nat
  BY LenProperties
<1>2. /\ Len(s \o f) = Len(s) + Len(f)
      /\ \A i \in 1..(Len(s) + Len(f)) :
           (s \o f)[i] = IF i <= Len(s) THEN s[i] ELSE f[i - Len(s)]
  BY ConcatProperties
<1>3. /\ Len(p) = a + b
      /\ \A i \in 1..(a + b) : p[i] = IF i <= a THEN s[i] ELSE f[i - a]
  BY <1>2
<1>4. /\ \A i, j \in 1..a : s[i] = s[j] => i = j
      /\ \A i, j \in 1..b : f[i] = f[j] => i = j
      /\ Contains(s, c) <=> \E i \in 1..a : s[i] = c
      /\ Contains(f, c) <=> \E i \in 1..b : f[i] = c
  BY DEF NoRepeat, Contains
<1> HIDE DEF a, b
<1>5. CASE Contains(s, c)
  <2>1. PICK i \in 1..a : s[i] = c
    BY <1>4, <1>5
  <2>2. i \in 1..(a + b) /\ p[i] = c
    BY <1>1, <1>3, <2>1
  <2>3. ASSUME NEW j \in 1..(a + b), p[j] = c PROVE j = i
    <3>1. CASE j <= a
      <4>1. j \in 1..a /\ s[j] = c
        BY <1>1, <1>3, <2>3, <3>1
      <4> QED BY <1>4, <2>1, <4>1
    <3>2. CASE ~(j <= a)
      <4>1. j - a \in 1..b /\ f[j - a] = c
        BY <1>1, <1>3, <2>3, <3>2
      <4> QED BY <1>4, <1>5, <4>1
    <3> QED BY <3>1, <3>2
  <2>4. P = {i}
    BY <1>3, <2>2, <2>3
  <2> QED BY <1>5, <2>4, FS_Singleton DEF Listed
<1>6. CASE ~Contains(s, c) /\ Contains(f, c)
  <2>1. PICK i \in 1..b : f[i] = c
    BY <1>4, <1>6
  <2>2. a + i \in 1..(a + b) /\ ~(a + i <= a) /\ (a + i) - a = i
    BY <1>1, <2>1
  <2>3. p[a + i] = c
    BY <1>3, <2>1, <2>2
  <2>4. ASSUME NEW j \in 1..(a + b), p[j] = c PROVE j = a + i
    <3>1. CASE j <= a
      <4>1. j \in 1..a /\ s[j] = c
        BY <1>1, <1>3, <2>4, <3>1
      <4> QED BY <1>4, <1>6, <4>1
    <3>2. CASE ~(j <= a)
      <4>1. j - a \in 1..b /\ f[j - a] = c
        BY <1>1, <1>3, <2>4, <3>2
      <4>2. j - a = i
        BY <1>4, <2>1, <4>1
      <4> QED BY <1>1, <2>1, <4>2
    <3> QED BY <3>1, <3>2
  <2>5. P = {a + i}
    BY <1>3, <2>2, <2>3, <2>4
  <2> QED BY <1>6, <2>5, FS_Singleton DEF Listed
<1>7. CASE ~Contains(s, c) /\ ~Contains(f, c)
  <2>1. ASSUME NEW j \in 1..(a + b), p[j] = c PROVE FALSE
    <3>1. CASE j <= a
      <4>1. j \in 1..a /\ s[j] = c
        BY <1>1, <1>3, <2>1, <3>1
      <4> QED BY <1>4, <1>7, <4>1
    <3>2. CASE ~(j <= a)
      <4>1. j - a \in 1..b /\ f[j - a] = c
        BY <1>1, <1>3, <2>1, <3>2
      <4> QED BY <1>4, <1>7, <4>1
    <3> QED BY <3>1, <3>2
  <2>2. P = {}
    BY <1>3, <2>1
  <2> QED BY <1>7, <2>2, FS_EmptySet DEF Listed
<1> QED
  BY <1>5, <1>6, <1>7

\* Every cell is in exactly one place, and entry counts the queued ones: calls
\* that fail, time out or race a reset leak no cell of the pool and free none
\* twice.
THEOREM CellsAccountedHolds == Spec => []CellsAccounted
<1>1. ASSUME PoolInv PROVE CellsAccounted
  <2> DEFINE s == Queued
             f == FreeCells
             p == s \o f
             H(c) == {t \in Thread : msg[t] = c}
  <2>1. /\ Layout(mq, s, f) /\ Held(msg, pc, s, f) /\ mq.entry = Len(s)
        /\ msg \in [Thread -> Cell \union {Null}]
    BY <1>1, CellWords
  <2>2. /\ s \in Seq(Cell) /\ NoRepeat(s) /\ f \in Seq(Cell) /\ NoRepeat(f)
        /\ \A c \in Cell : ~(Contains(s, c) /\ Contains(f, c))
    BY <2>1 DEF Layout
  <2>3. \A t \in Thread : msg[t] # Null <=> pc[t] \in {"fill", "urgent", "read"}
    BY <2>1 DEF Held, Busy
  <2> HIDE DEF s, f, p
  <2>4. ASSUME NEW c \in Cell
        PROVE  Cardinality({i \in 1..Len(p) : p[i] = c}) + Cardinality(H(c)) = 1
    <3>1. Cardinality({i \in 1..Len(p) : p[i] = c}) = IF Listed(s, f, c) THEN 1 ELSE 0
      BY <2>2, PlacesOf DEF p
    <3>2. CASE Listed(s, f, c)
      <4>1. H(c) = {}
        BY <2>1, <3>2, CellFacts DEF Held
      <4>2. Cardinality(H(c)) = 0
        BY <4>1, FS_EmptySet
      <4> QED BY <3>1, <3>2, <4>2
    <3>3. CASE ~Listed(s, f, c)
      <4>1. PICK t \in Thread : msg[t] = c
        BY <2>1, <3>3 DEF Held
      <4>2. H(c) = {t}
        BY <2>1, <4>1, CellFacts DEF Held
      <4>3. Cardinality(H(c)) = 1
        BY <4>2, FS_Singleton
      <4> QED BY <3>1, <3>3, <4>3
    <3> QED BY <3>2, <3>3
  <2> QED BY <2>1, <2>3, <2>4 DEF CellsAccounted, s, f, p
<1> QED
  BY <1>1, PoolInvHolds, PTL

-----------------------------------------------------------------------------
(* No wake-up is lost. *)

Receiving == {"receiving", "receive"}
Sending   == {"sending", "send"}

\* The calls on the queue, for the lemmas about suspend lists.
MqCalls ==
  [ labels |-> Label,
    lists  |-> [w \in WaitList |-> IF w = "receivers" THEN Receiving ELSE Sending],
    out    |-> {"sending", "receiving", "resched"},
    locked |-> {} ]

\* The cells a sender may take.
Open == Len(FreeCells)

\* The threads are on the lists and in the calls that belong together, and while
\* threads wait enough others are on their way: a receiver for each message, a
\* sender for each free cell.
WakeInv ==
  /\ Sound(k, pc, MqCalls)
  /\ Enough(k, pc, "receivers", Receiving, mq.entry)
  /\ Enough(k, pc, "senders", Sending, Open)

MqInv == PoolInv /\ WakeInv

LEMMA MqCallsOK ==
  /\ CallsOK(MqCalls)
  /\ MqCalls.lists["receivers"] = Receiving /\ MqCalls.lists["senders"] = Sending
  /\ MqCalls.labels = Label /\ MqCalls.out = {"sending", "receiving", "resched"}
  /\ MqCalls.locked = {}
  /\ WaitList = {"receivers", "senders"}
<1>1. WaitList = {"receivers", "senders"}
  BY MessageQueueAssumption
<1>2. /\ MqCalls.lists["receivers"] = Receiving /\ MqCalls.lists["senders"] = Sending
      /\ MqCalls.labels = Label /\ MqCalls.out = {"sending", "receiving", "resched"}
      /\ MqCalls.locked = {}
  BY <1>1 DEF MqCalls
<1>3. CallsOK(MqCalls)
  BY <1>1, <1>2 DEF CallsOK, Label, Receiving, Sending
<1> QED
  BY <1>1, <1>2, <1>3

\* What is in the pool counts.
LEMMA EntryNat ==
  ASSUME PoolInv
  PROVE  mq.entry \in Int /\ Open \in Int
<1>1. mq.entry = Len(Queued) /\ Queued \in Seq(Cell) /\ FreeCells \in Seq(Cell)
  BY CellWords
<1> QED
  BY <1>1, LenProperties DEF Open

\* The counts of the next state are those of its layout.
LEMMA CountsNext ==
  ASSUME NEW s, NEW f, Layout(mq', s, f)
  PROVE  mq'.entry = Len(s) /\ Open' = Len(f)
<1>1. Chain(mq', mq'.free) = f
  BY LayoutChains
<1>2. Open' = Len(Chain(mq', mq'.free))
  BY DEF Open, FreeCells
<1> QED
  BY <1>1, <1>2 DEF Layout

LEMMA CountsKept ==
  ASSUME mq' = mq
  PROVE  mq'.entry = mq.entry /\ Open' = Open
BY DEF Open, FreeCells, Chain

\* What the operations on the cells do to the counts.
LEMMA TakenCounts ==
  ASSUME PoolInv, mq.free # Null, mq' = Taken(mq)
  PROVE  mq'.entry = mq.entry /\ Open' = Open - 1
<1>1. Layout(mq, Queued, FreeCells)
  BY CellWords
<1>2. /\ Layout(mq', Queued, Tail(FreeCells)) /\ mq'.entry = mq.entry
      /\ Len(Tail(FreeCells)) = Len(FreeCells) - 1
  BY <1>1, TakenLayout
<1> QED
  BY <1>2, CountsNext DEF Open

LEMMA ConsLen ==
  ASSUME NEW s \in Seq(Cell), NEW c \in Cell
  PROVE  Len(Cons(c, s)) = Len(s) + 1
<1> DEFINE h == <<c>>
<1>1. h \in Seq(Cell) /\ Len(h) = 1 /\ Len(s) \in Nat
  BY LenProperties
<1>2. Cons(c, s) = h \o s
  BY DEF Cons
<1> HIDE DEF h
<1>3. Len(h \o s) = Len(h) + Len(s)
  BY <1>1, ConcatProperties
<1> QED
  BY <1>1, <1>2, <1>3

LEMMA LinkCounts ==
  ASSUME PoolInv, NEW t \in Thread, Link(t)
  PROVE  mq'.entry = mq.entry + 1 /\ Open' = Open
<1> DEFINE s == Queued
           f == FreeCells
           c == msg[t]
           v == buffer[t]
<1>1. \/ pc[t] = "fill" /\ mq' = Linked(mq, c, v)
      \/ pc[t] = "urgent" /\ mq' = LinkedFirst(mq, c, v)
  BY DEF Link, At
<1>2. pc[t] \in Busy /\ v \in Value
  BY <1>1 DEF PoolInv, CallInv, Busy
<1>3. Layout(mq, s, f) /\ Held(msg, pc, s, f) /\ c \in Cell
  BY <1>2, CellWords
<1>4. ~Contains(s, c) /\ ~Contains(f, c)
  BY <1>2, <1>3, CellFacts DEF Held, Listed
<1>5. Layout(mq', Append(s, c), f) \/ Layout(mq', Cons(c, s), f)
  <2> HIDE DEF s, f, c, v
  <2>1. Layout(Linked(mq, c, v), Append(s, c), f)
    BY <1>2, <1>3, <1>4, LinkedLayout
  <2>2. Layout(LinkedFirst(mq, c, v), Cons(c, s), f)
    BY <1>2, <1>3, <1>4, LinkedFirstLayout
  <2> QED BY <1>1, <2>1, <2>2
<1>6. Len(Append(s, c)) = Len(s) + 1 /\ Len(Cons(c, s)) = Len(s) + 1
  BY <1>3, CellWords, AppendProperties, ConsLen
<1>7. mq.entry = Len(s)
  BY CellWords
<1> QED
  BY <1>5, <1>6, <1>7, CountsNext DEF Open

LEMMA UnlinkCounts ==
  ASSUME PoolInv, NEW t, Unlink(t)
  PROVE  mq'.entry = mq.entry - 1 /\ Open' = Open
<1>1. Layout(mq, Queued, FreeCells)
  BY CellWords
<1>2. Layout(mq', Tail(Queued), FreeCells) /\ mq'.entry = mq.entry - 1
  BY <1>1, UnlinkedLayout DEF Unlink
<1> QED
  BY <1>2, CountsNext DEF Open

LEMMA FreeCounts ==
  ASSUME PoolInv, NEW t \in Thread, Free(t)
  PROVE  mq'.entry = mq.entry /\ Open' = Open + 1
<1> DEFINE s == Queued
           f == FreeCells
           c == msg[t]
<1>1. pc[t] = "read" /\ mq' = Freed(mq, c) /\ pc[t] \in Busy
  BY DEF Free, At, Busy
<1>2. Layout(mq, s, f) /\ Held(msg, pc, s, f) /\ c \in Cell
  BY <1>1, CellWords
<1>3. ~Contains(s, c) /\ ~Contains(f, c)
  BY <1>1, <1>2, CellFacts DEF Held, Listed
<1>4. /\ Layout(mq', s, Cons(c, f)) /\ Len(Cons(c, f)) = Len(f) + 1
      /\ mq'.entry = mq.entry
  BY <1>1, <1>2, <1>3, FreedLayout
<1> QED
  BY <1>4, CountsNext DEF Open

LEMMA IsrSendCounts ==
  ASSUME PoolInv, NEW v \in Value, IsrSend(v)
  PROVE  mq'.entry = mq.entry + 1 /\ Open' = Open - 1
<1> DEFINE s == Queued
           f == FreeCells
           c == mq.free
           q == Taken(mq)
<1>1. c # Null /\ mq' = Linked(q, c, v)
  BY DEF IsrSend
<1>2. Layout(mq, s, f)
  BY CellWords
<1>3. /\ Layout(q, s, Tail(f)) /\ c \in Cell /\ Contains(f, c)
      /\ \A x : Contains(Tail(f), x) <=> Contains(f, x) /\ x # c
      /\ Len(Tail(f)) = Len(f) - 1 /\ q.entry = mq.entry
  BY <1>1, <1>2, TakenLayout
<1>4. ~Contains(s, c) /\ ~Contains(Tail(f), c)
  BY <1>2, <1>3 DEF Layout
<1> HIDE DEF q
<1>5. Layout(mq', Append(s, c), Tail(f))
  <2> HIDE DEF s, f, c
  <2>1. Layout(Linked(q, c, v), Append(s, c), Tail(f))
    BY <1>3, <1>4, LinkedLayout
  <2> QED BY <1>1, <2>1
<1>6. Len(Append(s, c)) = Len(s) + 1 /\ mq.entry = Len(s)
  BY <1>3, CellWords, AppendProperties
<1> QED
  BY <1>3, <1>5, <1>6, CountsNext DEF Open

\* A thread that goes on after a wait, or begins a call, is not the idle thread.
LEMMA CallerOK ==
  ASSUME WakeInv, NEW t, NEW l \in Label, At(t, l)
  PROVE  /\ t = k.cur /\ t \in Thread
         /\ l # "run" => t # Idle
<1>1. k.cur \in Thread /\ pc[Idle] = "run"
  BY DEF WakeInv, Sound, IpcInv, KernelInv, ListFacts, KernelState
<1> QED
  BY <1>1 DEF At

\* Steps that leave the cells and whoever is on the way alone.
LEMMA WakeKept ==
  ASSUME WakeInv, PoolInv, mq' = mq, Sound(k', pc', MqCalls),
         Calm(k', pc', k, pc, "receivers", Receiving),
         Calm(k', pc', k, pc, "senders", Sending)
  PROVE  WakeInv'
<1> DEFINE n == mq.entry
           m == Open
<1>1. n \in Int /\ m \in Int /\ n <= n /\ m <= m
  BY EntryNat
<1>2. /\ Enough(k, pc, "receivers", Receiving, n)
      /\ Enough(k, pc, "senders", Sending, m)
      /\ IpcInv(k) /\ IpcInv(k')
      /\ "receivers" \in WaitList /\ "senders" \in WaitList
  BY MqCallsOK DEF WakeInv, Sound
<1> HIDE DEF n, m
<1>3. Enough(k', pc', "receivers", Receiving, n)
  BY <1>1, <1>2, EnoughKept DEF Calm
<1>4. Enough(k', pc', "senders", Sending, m)
  BY <1>1, <1>2, EnoughKept DEF Calm
<1>5. WakeInv' <=> /\ Sound(k', pc', MqCalls)
                   /\ Enough(k', pc', "receivers", Receiving, mq'.entry)
                   /\ Enough(k', pc', "senders", Sending, Open')
  BY DEF WakeInv, MqCalls, Receiving, Sending
<1> QED
  BY <1>3, <1>4, <1>5, CountsKept DEF n, m

\* What WakeInv says of the next state.
LEMMA WakeInvNext ==
  WakeInv' <=> /\ Sound(k', pc', MqCalls)
               /\ Enough(k', pc', "receivers", Receiving, mq'.entry)
               /\ Enough(k', pc', "senders", Sending, Open')
BY DEF WakeInv, MqCalls, Receiving, Sending

\* WakeOne in the words of the lemmas.
LEMMA WakeOneSound ==
  ASSUME WakeInv, NEW t, NEW l \in Label, At(t, l), t # Idle, l \notin MqCalls.out,
         NEW w \in WaitList, l \notin MqCalls.lists[w], WakeOne(t, w)
  PROVE  /\ Sound(k', pc', MqCalls)
         /\ OneMore(k', pc', k, pc, w, MqCalls.lists[w])
         /\ \A v \in WaitList : v # w /\ l \notin MqCalls.lists[v]
                              => Calm(k', pc', k, pc, v, MqCalls.lists[v])
<1> DEFINE c == MqCalls
<1>1. CallsOK(c) /\ Sound(k, pc, c) /\ t = k.cur /\ pc[t] = l /\ pc[t] \notin c.locked
  BY MqCallsOK, CallerOK DEF WakeInv, At
<1>2. WakesFirst(k', pc', k, pc, w, t)
  BY DEF WakeOne, WakesFirst, Goto
<1> HIDE DEF c
<1>3. /\ Sound(k', pc', c)
      /\ OneMore(k', pc', k, pc, w, c.lists[w])
      /\ \A v \in WaitList : v # w /\ pc[t] \notin c.lists[v]
                           => Calm(k', pc', k, pc, v, c.lists[v])
  BY <1>1, <1>2, SoundWakesOne DEF c
<1> QED
  BY <1>1, <1>3 DEF c

\* A thread of the calls goes on, with a cell it has taken: it looked for one.
LEMMA GoesOnSound ==
  ASSUME WakeInv, NEW t, NEW l \in Label, At(t, l), t # Idle, l \notin MqCalls.out,
         NEW n \in Busy, Goto(t, n), k' = k
  PROVE  /\ Sound(k', pc', MqCalls)
         /\ \A v \in WaitList : Leaves(k', pc', k, pc, v, MqCalls.lists[v], t)
         /\ \A v \in WaitList : l \notin MqCalls.lists[v]
                                  => Calm(k', pc', k, pc, v, MqCalls.lists[v])
<1> DEFINE c == MqCalls
<1>1. CallsOK(c) /\ Sound(k, pc, c) /\ t = k.cur /\ pc[t] = l
  BY MqCallsOK, CallerOK DEF WakeInv, At
<1>2. /\ n \in c.labels /\ (pc[t] \in c.locked <=> n \in c.locked)
      /\ \A v \in WaitList : n \notin c.lists[v]
      /\ pc[t] \notin c.out /\ pc' = [pc EXCEPT ![t] = n]
  BY <1>1, MqCallsOK DEF Busy, Label, Receiving, Sending, Goto
<1> HIDE DEF c
<1>3. /\ Sound(k, pc', c)
      /\ \A w \in WaitList : n \notin c.lists[w] => Leaves(k, pc', k, pc, w, c.lists[w], t)
      /\ \A w \in WaitList : n \notin c.lists[w] /\ pc[t] \notin c.lists[w]
                               => Calm(k, pc', k, pc, w, c.lists[w])
  BY <1>1, <1>2, SoundMoves
<1> QED
  BY <1>1, <1>2, <1>3 DEF c

\* A free cell less, and the sender that took it has looked.
LEMMA TakeCellWakes ==
  ASSUME WakeInv, PoolInv, NEW t, NEW l \in {"run", "send"}, At(t, l), t # Idle,
         NEW v, NEW n \in {"fill", "urgent"}, TakeCell(t, v, n)
  PROVE  WakeInv'
<1>1. /\ "receivers" \in WaitList /\ "senders" \in WaitList /\ IpcInv(k)
      /\ mq.entry \in Int /\ Open \in Int /\ mq'.entry \in Int /\ Open' \in Int
      /\ mq'.entry <= mq.entry /\ Open' <= Open - 1
  BY MqCallsOK, EntryNat, TakenCounts DEF WakeInv, Sound, TakeCell
<1>2. /\ Sound(k', pc', MqCalls)
      /\ Calm(k', pc', k, pc, "receivers", Receiving)
      /\ Leaves(k', pc', k, pc, "senders", Sending, t)
  <2>1. l \in Label /\ l \notin MqCalls.out /\ l \notin Receiving /\ n \in Busy
    BY MqCallsOK DEF Label, Receiving, Busy
  <2>2. Goto(t, n) /\ k' = k
    BY DEF TakeCell
  <2> QED BY <1>1, <2>1, <2>2, GoesOnSound, MqCallsOK
<1>3. Enough(k', pc', "receivers", Receiving, mq'.entry)
  BY <1>1, <1>2, EnoughKept DEF WakeInv, Sound, Calm
<1>4. Enough(k', pc', "senders", Sending, Open')
  BY <1>1, <1>2, EnoughLess DEF WakeInv, Sound
<1> QED
  BY <1>2, <1>3, <1>4, WakeInvNext

\* A message less, and the receiver that took it has looked.
LEMMA UnlinkWakes ==
  ASSUME WakeInv, PoolInv, NEW t, NEW l \in {"run", "receive"}, At(t, l), t # Idle,
         Unlink(t)
  PROVE  WakeInv'
<1>1. /\ "receivers" \in WaitList /\ "senders" \in WaitList /\ IpcInv(k)
      /\ mq.entry \in Int /\ Open \in Int /\ mq'.entry \in Int /\ Open' \in Int
      /\ mq'.entry <= mq.entry - 1 /\ Open' <= Open
  BY MqCallsOK, EntryNat, UnlinkCounts DEF WakeInv, Sound
<1>2. /\ Sound(k', pc', MqCalls)
      /\ Calm(k', pc', k, pc, "senders", Sending)
      /\ Leaves(k', pc', k, pc, "receivers", Receiving, t)
  <2>1. l \in Label /\ l \notin MqCalls.out /\ l \notin Sending /\ "read" \in Busy
    BY MqCallsOK DEF Label, Sending, Busy
  <2>2. Goto(t, "read") /\ k' = k
    BY DEF Unlink
  <2> QED BY <1>1, <2>1, <2>2, GoesOnSound, MqCallsOK
<1>3. Enough(k', pc', "receivers", Receiving, mq'.entry)
  BY <1>1, <1>2, EnoughLess DEF WakeInv, Sound
<1>4. Enough(k', pc', "senders", Sending, Open')
  BY <1>1, <1>2, EnoughKept DEF WakeInv, Sound, Calm
<1> QED
  BY <1>2, <1>3, <1>4, WakeInvNext

\* A message more: a receiver is woken for it.
LEMMA LinkWakes ==
  ASSUME WakeInv, PoolInv, NEW t, Link(t)
  PROVE  WakeInv'
<1> DEFINE l == pc[t]
<1>1. l \in {"fill", "urgent"} /\ At(t, l) /\ l \in Label /\ WakeOne(t, "receivers")
  BY DEF Link, At, Label
<1>2. /\ t \in Thread /\ t # Idle /\ l \notin MqCalls.out
      /\ l \notin Receiving /\ l \notin Sending
  BY <1>1, CallerOK, MqCallsOK DEF Receiving, Sending
<1>3. /\ "receivers" \in WaitList /\ "senders" \in WaitList /\ IpcInv(k)
      /\ mq.entry \in Int /\ Open \in Int /\ mq'.entry \in Int /\ Open' \in Int
      /\ mq'.entry <= mq.entry + 1 /\ Open' <= Open
  BY <1>2, MqCallsOK, EntryNat, LinkCounts DEF WakeInv, Sound
<1> HIDE DEF l
<1>4. /\ Sound(k', pc', MqCalls)
      /\ OneMore(k', pc', k, pc, "receivers", Receiving)
      /\ Calm(k', pc', k, pc, "senders", Sending)
  BY <1>1, <1>2, <1>3, WakeOneSound, MqCallsOK
<1>5. Enough(k', pc', "receivers", Receiving, mq'.entry)
  BY <1>3, <1>4, EnoughWithOneMore DEF WakeInv, Sound
<1>6. Enough(k', pc', "senders", Sending, Open')
  BY <1>3, <1>4, EnoughKept DEF WakeInv, Sound, Calm
<1> QED
  BY <1>4, <1>5, <1>6, WakeInvNext

\* A free cell more: a sender is woken for it.
LEMMA FreeWakes ==
  ASSUME WakeInv, PoolInv, NEW t, Free(t)
  PROVE  WakeInv'
<1>1. At(t, "read") /\ "read" \in Label /\ WakeOne(t, "senders")
  BY DEF Free, Label
<1>2. /\ t \in Thread /\ t # Idle /\ "read" \notin MqCalls.out
      /\ "read" \notin Receiving /\ "read" \notin Sending
  BY <1>1, CallerOK, MqCallsOK DEF Receiving, Sending
<1>3. /\ "receivers" \in WaitList /\ "senders" \in WaitList /\ IpcInv(k)
      /\ mq.entry \in Int /\ Open \in Int /\ mq'.entry \in Int /\ Open' \in Int
      /\ mq'.entry <= mq.entry /\ Open' <= Open + 1
  BY <1>2, MqCallsOK, EntryNat, FreeCounts DEF WakeInv, Sound
<1>4. /\ Sound(k', pc', MqCalls)
      /\ OneMore(k', pc', k, pc, "senders", Sending)
      /\ Calm(k', pc', k, pc, "receivers", Receiving)
  BY <1>1, <1>2, <1>3, WakeOneSound, MqCallsOK
<1>5. Enough(k', pc', "senders", Sending, Open')
  BY <1>3, <1>4, EnoughWithOneMore DEF WakeInv, Sound
<1>6. Enough(k', pc', "receivers", Receiving, mq'.entry)
  BY <1>3, <1>4, EnoughKept DEF WakeInv, Sound, Calm
<1> QED
  BY <1>4, <1>5, <1>6, WakeInvNext

\* A thread waits for what the queue has none of.
LEMMA WaitOnSound ==
  ASSUME WakeInv, PoolInv, NEW t, NEW l \in Label, At(t, l), t # Idle, l \notin MqCalls.out,
         NEW w \in WaitList, NEW n \in MqCalls.lists[w] \intersect MqCalls.out,
         NEW finite \in BOOLEAN, WaitOn(t, w, finite, n),
         \A v \in WaitList : v # w => l \notin MqCalls.lists[v]
  PROVE  /\ Sound(k', pc', MqCalls)
         /\ \A v \in WaitList : v # w => Calm(k', pc', k, pc, v, MqCalls.lists[v])
<1> DEFINE c == MqCalls
<1>1. CallsOK(c) /\ Sound(k, pc, c) /\ t = k.cur /\ pc[t] = l /\ pc[t] \notin c.locked
  BY MqCallsOK, CallerOK DEF WakeInv, At
<1>2. pc' = [pc EXCEPT ![t] = n] /\ Suspended(k', k, w, t) /\ n \in c.labels
  <2>1. "EINTR" \in Error /\ Flag \in {"FIFO", "PRIO"} /\ n \in Label
    BY MessageQueueAssumption, MqCallsOK DEF Error, Label
  <2> QED BY <2>1, MqCallsOK DEF WaitOn, Goto, Suspended
<1> HIDE DEF c
<1>3. /\ Sound(k', pc', c)
      /\ \A v \in WaitList : v # w /\ pc[t] \notin c.lists[v]
                               => Calm(k', pc', k, pc, v, c.lists[v])
  BY <1>1, <1>2, SoundSuspends DEF c
<1> QED
  BY <1>1, <1>3 DEF c

LEMMA WaitForCellWakes ==
  ASSUME WakeInv, PoolInv, NEW t, NEW l \in {"run", "send"}, At(t, l), t # Idle,
         NEW v, NEW finite \in BOOLEAN, WaitForCell(t, v, finite)
  PROVE  WakeInv'
<1>1. /\ "receivers" \in WaitList /\ "senders" \in WaitList
      /\ IpcInv(k) /\ mq' = mq /\ mq.entry \in Int /\ mq.entry <= mq.entry
      /\ Open = 0 /\ 0 <= 0 /\ 0 \in Int /\ Open' = Open
  <2>1. mq.free = Null /\ mq' = mq
    BY DEF WaitForCell, WaitOn
  <2>2. FreeCells = <<>>
    BY <2>1, CellWords, LayoutEmpty
  <2> QED BY <2>1, <2>2, CountsKept, MqCallsOK, EntryNat DEF WakeInv, Sound, Open
<1>2. /\ Sound(k', pc', MqCalls) /\ Calm(k', pc', k, pc, "receivers", Receiving)
  <2>1. /\ l \in Label /\ l \notin MqCalls.out /\ l \notin Receiving
        /\ "sending" \in MqCalls.lists["senders"] \intersect MqCalls.out
        /\ WaitOn(t, "senders", finite, "sending")
        /\ \A w \in WaitList : w # "senders" => l \notin MqCalls.lists[w]
    BY MqCallsOK DEF Label, Receiving, Sending, WaitForCell
  <2> QED BY <1>1, <2>1, WaitOnSound, MqCallsOK
<1>3. Enough(k', pc', "senders", Sending, 0)
  BY <1>1, EnoughNone
<1>4. Enough(k', pc', "receivers", Receiving, mq.entry)
  BY <1>1, <1>2, EnoughKept DEF WakeInv, Sound, Calm
<1> QED
  BY <1>1, <1>2, <1>3, <1>4, WakeInvNext

LEMMA WaitForMessageWakes ==
  ASSUME WakeInv, PoolInv, NEW t, NEW l \in {"run", "receive"}, At(t, l), t # Idle,
         NEW finite \in BOOLEAN, WaitForMessage(t, finite)
  PROVE  WakeInv'
<1>1. /\ "receivers" \in WaitList /\ "senders" \in WaitList
      /\ IpcInv(k) /\ mq' = mq /\ mq.entry = 0 /\ 0 <= 0 /\ 0 \in Int
      /\ Open \in Int /\ Open <= Open /\ Open' = Open
  BY MqCallsOK, EntryNat, CountsKept DEF WakeInv, Sound, WaitForMessage, WaitOn
<1>2. /\ Sound(k', pc', MqCalls) /\ Calm(k', pc', k, pc, "senders", Sending)
  <2>1. /\ l \in Label /\ l \notin MqCalls.out /\ l \notin Sending
        /\ "receiving" \in MqCalls.lists["receivers"] \intersect MqCalls.out
        /\ WaitOn(t, "receivers", finite, "receiving")
        /\ \A w \in WaitList : w # "receivers" => l \notin MqCalls.lists[w]
    BY MqCallsOK DEF Label, Receiving, Sending, WaitForMessage
  <2> QED BY <1>1, <2>1, WaitOnSound, MqCallsOK
<1>3. Enough(k', pc', "receivers", Receiving, 0)
  BY <1>1, EnoughNone
<1>4. Enough(k', pc', "senders", Sending, Open)
  BY <1>1, <1>2, EnoughKept DEF WakeInv, Sound, Calm
<1> QED
  BY <1>1, <1>2, <1>3, <1>4, WakeInvNext

\* A call that fails, for a reason other than the queue.
LEMMA FailsWakes ==
  ASSUME WakeInv, PoolInv, NEW t, NEW l \in {"send", "receive"}, Fails(t, l)
  PROVE  WakeInv'
<1>1. /\ At(t, l) /\ k.err[t] # "EOK" /\ k' = k /\ mq' = mq
      /\ pc' = [pc EXCEPT ![t] = "run"]
  BY DEF Fails, Return, Goto
<1>2. /\ t = k.cur /\ t # Idle /\ pc[t] = l
      /\ pc[t] \notin MqCalls.out /\ pc[t] \notin MqCalls.locked
  BY <1>1, CallerOK, MqCallsOK DEF Label, At
<1>3. /\ Sound(k, pc', MqCalls)
      /\ \A w \in WaitList : Calm(k, pc', k, pc, w, MqCalls.lists[w])
  BY <1>1, <1>2, SoundFails, MqCallsOK DEF WakeInv
<1> QED
  BY <1>1, <1>3, MqCallsOK, WakeKept

\* A call whose time is up, while the queue has nothing for it.
LEMMA GivesUpWakes ==
  ASSUME WakeInv, PoolInv, NEW t, NEW e \in Error, GivesUp(t, e),
         \/ At(t, "send") /\ Open = 0
         \/ At(t, "receive") /\ mq.entry = 0
  PROVE  WakeInv'
<1> DEFINE c == MqCalls
<1>1. /\ GivenError(k', k, t, e) /\ mq' = mq /\ pc' = [pc EXCEPT ![t] = "run"]
  BY DEF GivesUp, Return, Goto, GivenError
<1>2. /\ t = k.cur /\ t # Idle
      /\ pc[t] \notin c.out /\ pc[t] \notin c.locked
      /\ "run" \in c.labels /\ "run" \notin c.locked
      /\ "run" \notin Receiving /\ "run" \notin Sending
      /\ CallsOK(c) /\ Sound(k, pc, c)
  BY CallerOK, MqCallsOK DEF Label, At, Receiving, Sending, WakeInv
<1> HIDE DEF c
<1>3. /\ Sound(k', pc', c)
      /\ \A w \in WaitList : "run" \notin c.lists[w] /\ pc[t] \notin c.lists[w]
                               => Calm(k', pc', k, pc, w, c.lists[w])
  BY <1>1, <1>2, SoundMoves
<1>4. /\ "receivers" \in WaitList /\ "senders" \in WaitList /\ Sound(k', pc', MqCalls)
      /\ pc[t] \notin Receiving => Calm(k', pc', k, pc, "receivers", Receiving)
      /\ pc[t] \notin Sending => Calm(k', pc', k, pc, "senders", Sending)
  BY <1>2, <1>3, MqCallsOK DEF c
<1>5. /\ IpcInv(k) /\ IpcInv(k') /\ 0 \in Int /\ 0 <= 0
      /\ mq.entry \in Int /\ mq.entry <= mq.entry /\ Open \in Int /\ Open <= Open
      /\ mq'.entry = mq.entry /\ Open' = Open
  BY <1>1, <1>4, EntryNat, CountsKept DEF WakeInv, Sound
<1>6. CASE At(t, "send") /\ Open = 0
  <2>1. Enough(k', pc', "senders", Sending, 0)
    BY <1>5, EnoughNone
  <2>2. Calm(k', pc', k, pc, "receivers", Receiving)
    BY <1>4, <1>6 DEF At, Receiving
  <2>3. Enough(k, pc, "receivers", Receiving, mq.entry)
    BY <1>6 DEF WakeInv
  <2>4. Enough(k', pc', "receivers", Receiving, mq.entry)
    BY <1>4, <1>5, <2>2, <2>3, EnoughKept DEF Calm
  <2> QED BY <1>1, <1>4, <1>5, <1>6, <2>1, <2>4, WakeInvNext
<1>7. CASE At(t, "receive") /\ mq.entry = 0
  <2>1. Enough(k', pc', "receivers", Receiving, 0)
    BY <1>5, EnoughNone
  <2>2. Calm(k', pc', k, pc, "senders", Sending)
    BY <1>4, <1>7 DEF At, Sending
  <2>3. Enough(k, pc, "senders", Sending, Open)
    BY <1>5, <1>7 DEF WakeInv
  <2>4. Enough(k', pc', "senders", Sending, Open)
    BY <1>4, <1>5, <2>2, <2>3, EnoughKept DEF Calm
  <2> QED BY <1>1, <1>4, <1>5, <1>7, <2>1, <2>4, WakeInvNext
<1> QED
  BY <1>6, <1>7

\* rt_schedule, in a call or at its end.
LEMMA SchedulesWakes ==
  ASSUME WakeInv, PoolInv, NEW t, SendSchedule(t) \/ ReceiveSchedule(t) \/ Reschedule(t)
  PROVE  WakeInv'
<1>1. PICK p \in Label, l \in Label :
        /\ ScheduleThen(t, p, l) /\ mq' = mq
        /\ <<p, l>> \in {<<"sending", "send">>, <<"receiving", "receive">>,
                         <<"resched", "run">>}
  BY DEF SendSchedule, ReceiveSchedule, Reschedule, Label
<1>2. /\ At(t, p) /\ t = k.cur /\ pc[t] = p /\ p \in MqCalls.out
      /\ l \in MqCalls.labels \ MqCalls.locked
      /\ pc' = [pc EXCEPT ![t] = l]
      /\ \A w \in WaitList : pc[t] \in MqCalls.lists[w] <=> l \in MqCalls.lists[w]
  BY <1>1, MqCallsOK, CallerOK DEF ScheduleThen, At, Goto, Receiving, Sending, Label
<1>3. Rescheduled(k', k)
  BY <1>1, Reschedules DEF ScheduleThen, WakeInv, Sound
<1>4. /\ Sound(k', pc', MqCalls)
      /\ \A w \in WaitList : Calm(k', pc', k, pc, w, MqCalls.lists[w])
  BY <1>2, <1>3, SoundGoesOn, MqCallsOK DEF WakeInv
<1> QED
  BY <1>1, <1>4, MqCallsOK, WakeKept

\* Sleeping, the clock, and the timer of a thread.
LEMMA ElsewhereWakes ==
  ASSUME WakeInv, PoolInv, Tick \/ \E t \in Thread : Sleep(t) \/ Timeout(t)
  PROVE  WakeInv'
<1>1. mq' = mq
  BY DEF Tick, Sleep, Timeout
<1>2. CallsOK(MqCalls) /\ Sound(k, pc, MqCalls)
  BY MqCallsOK DEF WakeInv
<1>3. CASE Tick
  <2>1. k' = rt_schedule([k EXCEPT !.yield = @ \union {k.cur}]) /\ pc' = pc
    BY <1>3 DEF Tick, SliceEnd
  <2>2. /\ Sound(k', pc, MqCalls)
        /\ \A w \in WaitList : Calm(k', pc, k, pc, w, MqCalls.lists[w])
    BY <1>2, <2>1, SoundSlice
  <2> QED BY <1>1, <2>1, <2>2, MqCallsOK, WakeKept
<1>4. ASSUME NEW t \in Thread, Timeout(t) PROVE WakeInv'
  <2>1. t \in k.armed /\ k' = _thread_timeout(k, t) /\ pc' = pc
    BY <1>4 DEF Timeout, TimerExpires
  <2>2. /\ Sound(k', pc, MqCalls)
        /\ \A w \in WaitList : Calm(k', pc, k, pc, w, MqCalls.lists[w])
    BY <1>2, <2>1, SoundTimeout
  <2> QED BY <1>1, <2>1, <2>2, MqCallsOK, WakeKept
<1>5. ASSUME NEW t \in Thread, Sleep(t) PROVE WakeInv'
  <2>1. /\ At(t, "run") /\ t # Idle /\ Sleeps(k', k, t, "EINTR") /\ "EINTR" \in Error
        /\ pc' = [pc EXCEPT ![t] = "resched"]
    BY <1>5 DEF Sleep, SleepStart, Sleeps, Error, Goto
  <2>2. t = k.cur /\ pc[t] = "run"
    BY <2>1 DEF At
  <2>3. /\ Sound(k', pc', MqCalls)
        /\ \A w \in WaitList : Calm(k', pc', k, pc, w, MqCalls.lists[w])
    BY <1>2, <2>1, <2>2, SoundSleep
  <2> QED BY <1>1, <2>3, MqCallsOK, WakeKept
<1> QED
  BY <1>3, <1>4, <1>5

\* The interrupt handler sends between any two steps of the threads.
LEMMA IsrWakes ==
  ASSUME WakeInv, PoolInv, NEW v \in Value, IsrSend(v)
  PROVE  WakeInv'
<1>1. /\ mq'.entry = mq.entry + 1 /\ pc' = pc
      /\ k' = IF k.wait["receivers"] = <<>> THEN k
              ELSE rt_schedule(ResumeFirst(k, "receivers"))
  BY IsrSendCounts DEF IsrSend
<1>2. /\ "receivers" \in WaitList /\ "senders" \in WaitList
      /\ IpcInv(k) /\ mq.entry \in Int /\ Open \in Int
      /\ mq'.entry \in Int /\ Open' \in Int
      /\ mq'.entry <= mq.entry + 1 /\ Open' <= Open
      /\ CallsOK(MqCalls)
  BY <1>1, IsrSendCounts, MqCallsOK, EntryNat DEF WakeInv, Sound
<1>3. CASE k.wait["receivers"] = <<>>
  <2>1. k' = k
    BY <1>1, <1>3
  <2>2. Enough(k', pc', "receivers", Receiving, mq'.entry)
    BY <1>3, <2>1 DEF Enough
  <2>3. Enough(k', pc', "senders", Sending, Open')
    BY <1>1, <1>2, <2>1, AlertFinite DEF Enough, WakeInv
  <2> QED BY <1>1, <2>1, <2>2, <2>3, WakeInvNext DEF WakeInv
<1>4. CASE k.wait["receivers"] # <<>>
  <2> DEFINE u == ResumeFirst(k, "receivers")
  <2>1. PICK h \in Thread : On(k, "receivers", h) /\ Woke(u, k, h, "EOK")
    BY <1>2, <1>4, ResumeFirstWakes
  <2>2. k' = rt_schedule(u)
    BY <1>1, <1>4
  <2> HIDE DEF u
  <2>3. /\ Sound(u, pc, MqCalls) /\ Joins(u, pc, k, pc, "receivers", Receiving, h)
        /\ Calm(u, pc, k, pc, "senders", Sending)
    <3>1. "EOK" \in Error
      BY DEF Error
    <3> QED BY <1>2, <2>1, <3>1, SoundWakes, MqCallsOK DEF WakeInv
  <2>4. Rescheduled(k', u)
    BY <2>2, <2>3, Reschedules DEF Sound
  <2>5. /\ Sound(k', pc, MqCalls) /\ Calm(k', pc, u, pc, "receivers", Receiving)
        /\ Calm(k', pc, u, pc, "senders", Sending)
    BY <1>2, <2>3, <2>4, SoundSchedules, MqCallsOK
  <2>6. /\ Joins(k', pc', k, pc, "receivers", Receiving, h)
        /\ Calm(k', pc', k, pc, "senders", Sending)
    BY <1>1, <2>3, <2>5 DEF Joins, Calm, Fewer, AsMany, Stay
  <2>7. IpcInv(k')
    BY <2>5 DEF Sound
  <2>8. Enough(k', pc', "receivers", Receiving, mq'.entry)
    BY <1>2, <2>6, <2>7, EnoughMore DEF WakeInv
  <2>9. Enough(k', pc', "senders", Sending, Open')
    BY <1>2, <2>6, <2>7, EnoughKept DEF WakeInv, Calm
  <2> QED BY <1>1, <2>5, <2>8, <2>9, WakeInvNext
<1> QED
  BY <1>3, <1>4

\* Nobody waits after a reset.
LEMMA ResetWakes ==
  ASSUME WakeInv, PoolInv, NEW t, t # Idle, Reset(t)
  PROVE  WakeInv'
<1> DEFINE u == ResumeAll(k, "receivers")
<1>1. /\ At(t, "run") /\ k' = ResumeAll(u, "senders") /\ pc' = [pc EXCEPT ![t] = "resched"]
  BY DEF Reset, Goto
<1>2. Sound(k, pc', MqCalls)
  <2>1. /\ t = k.cur /\ pc[t] = "run" /\ pc[t] \notin MqCalls.out
        /\ "resched" \in MqCalls.labels
        /\ (pc[t] \in MqCalls.locked <=> "resched" \in MqCalls.locked)
    BY <1>1, MqCallsOK DEF At, Label
  <2> QED BY <1>1, <2>1, SoundMoves, MqCallsOK DEF WakeInv
<1>3. "receivers" \in WaitList /\ "senders" \in WaitList /\ CallsOK(MqCalls)
  BY MqCallsOK
<1>4. Sound(u, pc', MqCalls) /\ u.wait["receivers"] = <<>>
  BY <1>2, <1>3, SoundWakesAll
<1> HIDE DEF u
<1>5. /\ Sound(k', pc', MqCalls) /\ k'.wait["senders"] = <<>>
      /\ k'.wait["receivers"] = u.wait["receivers"]
  BY <1>1, <1>3, <1>4, SoundWakesAll
<1> QED
  BY <1>4, <1>5, WakeInvNext DEF Enough

\* Every step keeps enough threads on their way.
LEMMA NextWakes ==
  ASSUME PoolInv, WakeInv, [Next]_vars
  PROVE  WakeInv'
<1>1. /\ Sender \union Receiver \union Resetter \subseteq Thread \ {Idle}
      /\ \A t \in Sender : t \in Thread /\ \A v \in Sends[t] : v \in Value
      /\ IsrSends \subseteq Value
  BY ReceiverThreads
<1>2. ASSUME NEW t \in Sender, NEW v, Send(t, v) PROVE WakeInv'
  <2>1. At(t, "run") /\ t # Idle
    BY <1>1, <1>2 DEF Send
  <2>2. CASE TakeCell(t, v, "fill")
    BY <2>1, <2>2, TakeCellWakes
  <2>3. CASE \E finite \in BOOLEAN : WaitForCell(t, v, finite)
    BY <2>1, <2>3, WaitForCellWakes
  <2> QED BY <1>2, <2>2, <2>3 DEF Send
<1>3. ASSUME NEW t \in Sender, NEW v, Urgent(t, v) PROVE WakeInv'
  <2>1. At(t, "run") /\ t # Idle /\ TakeCell(t, v, "urgent")
    BY <1>1, <1>3 DEF Urgent
  <2> QED BY <2>1, TakeCellWakes
<1>4. ASSUME NEW t \in Thread, Receive(t) PROVE WakeInv'
  <2>1. At(t, "run") /\ t # Idle
    BY <1>1, <1>4 DEF Receive
  <2>2. CASE Unlink(t)
    BY <2>1, <2>2, UnlinkWakes
  <2>3. CASE \E finite \in BOOLEAN : WaitForMessage(t, finite)
    BY <2>1, <2>3, WaitForMessageWakes
  <2> QED BY <1>4, <2>2, <2>3 DEF Receive
<1>5. ASSUME NEW t \in Thread, Reset(t) PROVE WakeInv'
  BY <1>1, <1>5, ResetWakes DEF Reset
<1>6. ASSUME NEW t \in Thread, SendAgain(t) PROVE WakeInv'
  <2>1. At(t, "send") /\ t # Idle /\ (t \in timed) \in BOOLEAN /\ "EINTR" \in Error
    BY <1>6, CallerOK DEF SendAgain, Label, Error
  <2>2. CASE TakeCell(t, buffer[t], "fill")
    BY <2>1, <2>2, TakeCellWakes
  <2>3. CASE WaitForCell(t, buffer[t], t \in timed)
    BY <2>1, <2>3, WaitForCellWakes
  <2>4. CASE mq.free = Null /\ GivesUp(t, "EINTR")
    <3>1. FreeCells = <<>>
      BY <2>4, CellWords, LayoutEmpty
    <3>2. Open = 0
      BY <3>1 DEF Open
    <3> QED BY <2>1, <2>4, <3>2, GivesUpWakes
  <2> QED BY <1>6, <2>2, <2>3, <2>4 DEF SendAgain
<1>7. ASSUME NEW t \in Thread, ReceiveAgain(t) PROVE WakeInv'
  <2>1. At(t, "receive") /\ t # Idle /\ (t \in timed) \in BOOLEAN /\ "ETIMEOUT" \in Error
    BY <1>7, CallerOK DEF ReceiveAgain, Label, Error
  <2>2. CASE Unlink(t)
    BY <2>1, <2>2, UnlinkWakes
  <2>3. CASE WaitForMessage(t, t \in timed)
    BY <2>1, <2>3, WaitForMessageWakes
  <2>4. CASE mq.entry = 0 /\ GivesUp(t, "ETIMEOUT")
    BY <2>1, <2>4, GivesUpWakes
  <2> QED BY <1>7, <2>2, <2>3, <2>4 DEF ReceiveAgain
<1>8. ASSUME NEW t \in Thread, Continue(t) PROVE WakeInv'
  BY <1>6, <1>7, <1>8, SchedulesWakes, FailsWakes, LinkWakes, FreeWakes DEF Continue
<1>9. ASSUME UNCHANGED vars PROVE WakeInv'
  <2>1. k' = k /\ pc' = pc /\ mq'.entry = mq.entry /\ Open' = Open
    BY <1>9, CountsKept DEF vars
  <2> QED BY <2>1, WakeInvNext DEF WakeInv
<1>10. CASE Next
  BY <1>1, <1>2, <1>3, <1>4, <1>5, <1>8, <1>10, ElsewhereWakes, IsrWakes DEF Next
<1> QED
  BY <1>9, <1>10

\* At the start nobody waits.
LEMMA InitWakes ==
  ASSUME Init
  PROVE  WakeInv
<1>1. k = Started(Main, InitPrio) /\ pc = [t \in Thread |-> "run"]
  BY DEF Init, StartedKernel
<1>2. Sound(k, pc, MqCalls)
  BY <1>1, MainAssumption, InitPrioAssumption, SoundStarts, MqCallsOK
<1>3. k.wait["receivers"] = <<>> /\ k.wait["senders"] = <<>>
  BY <1>1, MqCallsOK DEF Started
<1> QED
  BY <1>2, <1>3 DEF WakeInv, Enough

\* Who is on the way has been woken and has not looked.
LEMMA AlertWoken ==
  ASSUME NEW w, NEW ls, NEW n \in Int, Enough(k, pc, w, ls, n), k.wait[w] # <<>>
  PROVE  Cardinality(Woken(ls)) >= n
<1> DEFINE A == Alert(k, pc, w, ls)
           W == Woken(ls)
<1>1. A \subseteq W /\ W \subseteq Thread
  BY DEF Alert, Woken
<1>2. IsFiniteSet(W)
  BY <1>1, ThreadAssumption, FS_Subset
<1>3. IsFiniteSet(A) /\ Cardinality(A) <= Cardinality(W)
  BY <1>1, <1>2, FS_Subset
<1>4. Cardinality(A) \in Nat /\ Cardinality(W) \in Nat /\ Cardinality(A) >= n
  BY <1>2, <1>3, FS_CardinalityType DEF Enough
<1> HIDE DEF A, W
<1>5. Cardinality(W) >= n
  BY <1>3, <1>4
<1> QED
  BY <1>5 DEF W

\* What the calls keep while they interleave: the suspend lists of the queue
\* hold the threads that wait in its calls, and threads enough are woken.
THEOREM MqInvHolds == Spec => []MqInv
<1>1. Init => MqInv
  BY InitStep, InitWakes DEF MqInv
<1>2. MqInv /\ [Next]_vars => MqInv'
  BY NextStep, NextWakes DEF MqInv, StepGood
<1> QED
  BY <1>1, <1>2, PTL DEF Spec

\* No message and no free cell is left lying while a thread waits for it: a cell
\* becomes free only after it was read with interrupts enabled, a woken thread
\* owns nothing, others may be faster, and timers expire in between; still for
\* every message one woken receiver, and for every free cell one woken sender,
\* has yet to look.
THEOREM NoLostWakeupHolds == Spec => []NoLostWakeup
<1>1. MqInv => NoLostWakeup
  <2> SUFFICES ASSUME MqInv PROVE NoLostWakeup
    OBVIOUS
  <2>1. mq.entry \in Int /\ Open \in Int /\ WakeInv
    BY EntryNat DEF MqInv
  <2>2. k.wait["receivers"] # <<>> => Cardinality(Woken(Receiving)) >= mq.entry
    BY <2>1, AlertWoken DEF WakeInv
  <2>3. k.wait["senders"] # <<>> => Cardinality(Woken(Sending)) >= Open
    BY <2>1, AlertWoken DEF WakeInv
  <2> QED BY <2>2, <2>3 DEF NoLostWakeup, Receiving, Sending, Open
<1> QED
  BY <1>1, MqInvHolds, PTL

\* The lists of the kernel are as they should be under all of this.
THEOREM MqListsHold == Spec => []ListsOK(k)
<1>1. MqInv => ListsOK(k)
  BY IpcInvLists DEF MqInv, WakeInv, Sound
<1> QED
  BY <1>1, MqInvHolds, PTL

\* Only threads have a time limit.
TimedInv == timed \subseteq Thread

LEMMA TimedStep ==
  ASSUME TimedInv, [Next]_vars
  PROVE  TimedInv'
<1> USE DEF TimedInv
<1>1. ASSUME NEW t \in Thread, NEW w, NEW finite, NEW l, WaitOn(t, w, finite, l)
      PROVE  timed' \subseteq Thread
  BY <1>1 DEF WaitOn
<1>2. ASSUME NEW t, timed' = timed \ {t} \/ timed' = timed PROVE timed' \subseteq Thread
  BY <1>2
<1>3. ASSUME NEW t \in Thread, NEW v, Send(t, v) \/ Urgent(t, v) PROVE timed' \subseteq Thread
  BY <1>1, <1>2, <1>3 DEF Send, Urgent, TakeCell, WaitForCell
<1>4. ASSUME NEW t \in Thread, Receive(t) \/ ReceiveAgain(t) PROVE timed' \subseteq Thread
  BY <1>1, <1>2, <1>4 DEF Receive, ReceiveAgain, Unlink, WaitForMessage, GivesUp, Return
<1>5. ASSUME NEW t \in Thread, SendAgain(t) PROVE timed' \subseteq Thread
  BY <1>1, <1>2, <1>5 DEF SendAgain, TakeCell, WaitForCell, GivesUp, Return
<1>6. ASSUME NEW t \in Thread, Continue(t) PROVE timed' \subseteq Thread
  BY <1>2, <1>4, <1>5, <1>6 DEF Continue, SendSchedule, ReceiveSchedule, Fails, Return,
     Link, Free, Reschedule
<1>7. ASSUME NEW t, Reset(t) \/ Sleep(t) \/ Timeout(t) PROVE timed' \subseteq Thread
  BY <1>7 DEF Reset, Sleep, Timeout
<1>8. ASSUME NEW v, IsrSend(v) PROVE timed' \subseteq Thread
  BY <1>8 DEF IsrSend
<1>9. CASE Next
  <2>1. \A t \in Sender : t \in Thread
    BY ReceiverThreads
  <2> QED BY <1>3, <1>4, <1>6, <1>7, <1>8, <1>9, <2>1 DEF Next, Tick
<1>10. CASE UNCHANGED vars
  BY <1>10 DEF vars
<1> QED
  BY <1>9, <1>10

\* Every variable keeps its type; entry never exceeds the cells of the pool.
THEOREM MqTypeCorrect == Spec => []TypeOK
<1>1. Init => TimedInv
  BY DEF Init, TimedInv
<1>2. TimedInv /\ [Next]_vars => TimedInv'
  BY TimedStep
<1>3. ASSUME MqInv, TimedInv PROVE TypeOK
  <2>1. PoolInv /\ CallInv /\ WakeInv
    BY <1>3 DEF MqInv, PoolInv
  <2>2. /\ mq \in MqState /\ msg \in [Thread -> Cell \union {Null}]
        /\ mq.entry = Len(Queued) /\ Queued \in Seq(Cell) /\ NoRepeat(Queued)
    BY <2>1, CellWords DEF Layout
  <2>3. mq.entry \in 0..Cardinality(Cell)
    <3>1. mq.entry \in Nat
      BY <2>2 DEF MqState
    <3>2. Len(Queued) <= Cardinality(Cell)
      BY <2>2, ListBounded
    <3> QED BY <2>2, <3>1, <3>2, CellFacts
  <2>4. k \in KernelState
    BY <2>1 DEF WakeInv, Sound, IpcInv, KernelInv, ListFacts
  <2>5. /\ pc \in [Thread -> Label] /\ buffer \in [Thread -> Value \union {Null}]
        /\ got \in [Receiver -> Value \union {Null}]
    BY <2>1 DEF CallInv, Mail
  <2> QED BY <1>3, <2>2, <2>3, <2>4, <2>5 DEF TypeOK, MqState, TimedInv
<1> QED
  BY <1>1, <1>2, <1>3, MqInvHolds, PTL DEF Spec
=============================================================================
