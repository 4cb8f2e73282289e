--------------------------- MODULE Kernel_proofs ---------------------------
(***************************************************************************)
(* Facts about doubly linked lists, about the lists of the kernel and      *)
(* about the functions of scheduler_up.c and thread.c that Kernel.tla      *)
(* models, for the invariants of the modules that call them.               *)
(***************************************************************************)
EXTENDS Kernel, Integers, SequenceTheorems, FiniteSetTheorems,
        WellFoundedInduction, TLAPS

(***************************************************************************)
(* Facts about the operations on doubly linked lists, rt_list_insert_after *)
(* and the others of rtservice.h, as the models write them: on sequences   *)
(* in which no element occurs twice.  Facts about rings of cells.          *)
(***************************************************************************)
\* A set of priorities that is not empty has a smallest member, the one that
\* __rt_ffs finds in the ready group.
LEMMA MinProperties ==
  ASSUME NEW S \in SUBSET Nat, S # {}
  PROVE  Min(S) \in S /\ \A n \in S : Min(S) <= n
<1>1. PICK x \in S : \A y \in S : ~(<<y, x>> \in OpToRel(<, Nat))
  BY NatLessThanWellFounded, WFMin
<1>2. ASSUME NEW y \in S PROVE x <= y
  <2>1. <<y, x>> \in Nat \X Nat /\ <<y, x>>[1] = y /\ <<y, x>>[2] = x
    OBVIOUS
  <2>2. ~(y < x)
    BY <1>1, <2>1 DEF OpToRel
  <2> QED BY <2>2
<1> QED
  BY <1>2 DEF Min

\* Where the first occurrence of e is.
LEMMA FirstOccurrence ==
  ASSUME NEW S, NEW s \in Seq(S), NEW e, Contains(s, e)
  PROVE  /\ SelectInSeq(s, LAMBDA v : v = e) \in 1..Len(s)
         /\ s[SelectInSeq(s, LAMBDA v : v = e)] = e
<1> DEFINE I == {i \in 1..Len(s) : s[i] = e}
<1>1. I \in SUBSET Nat /\ I # {}
  BY LenProperties DEF Contains
<1>2. Min(I) \in I
  <2> HIDE DEF I
  <2> QED BY <1>1, MinProperties
<1>3. SelectInSeq(s, LAMBDA v : v = e) = Min(I)
  BY <1>1 DEF SelectInSeq
<1> QED
  BY <1>2, <1>3

\* Taking the element at position i out of a sequence.
LEMMA RemoveAtProperties ==
  ASSUME NEW S, NEW s \in Seq(S), NEW i \in 1..Len(s)
  PROVE  /\ RemoveAt(s, i) \in Seq(S)
         /\ Len(RemoveAt(s, i)) = Len(s) - 1
         /\ \A j \in 1..(Len(s) - 1) :
              RemoveAt(s, i)[j] = IF j < i THEN s[j] ELSE s[j + 1]
<1> DEFINE l == SubSeq(s, 1, i - 1)
           r == SubSeq(s, i + 1, Len(s))
<1>1. Len(s) \in Nat /\ i \in Nat /\ i >= 1 /\ i <= Len(s)
  BY LenProperties
<1>2. l \in Seq(S) /\ Len(l) = i - 1 /\ \A j \in 1..(i - 1) : l[j] = s[j]
  <2>1. \A j \in 1..(i - 1) : s[j] \in S
    BY <1>1, ElementOfSeq
  <2> QED BY <1>1, <2>1, SubSeqProperties
<1>3. /\ r \in Seq(S) /\ Len(r) = Len(s) - i
      /\ \A j \in 1..(Len(s) - i) : r[j] = s[i + j]
  <2>1. \A j \in (i + 1)..Len(s) : s[j] \in S
    BY <1>1, ElementOfSeq
  <2> QED BY <1>1, <2>1, SubSeqProperties
<1>4. RemoveAt(s, i) = l \o r
  BY DEF RemoveAt
<1> DEFINE c == l \o r
           n == Len(s)
<1>5. /\ c \in Seq(S) /\ Len(c) = Len(l) + Len(r)
      /\ \A j \in 1..(Len(l) + Len(r)) :
           c[j] = IF j <= Len(l) THEN l[j] ELSE r[j - Len(l)]
  <2> HIDE DEF l, r
  <2> QED BY <1>2, <1>3, ConcatProperties
<1>6. Len(l) + Len(r) = n - 1
  <2> HIDE DEF l, r
  <2> QED BY <1>1, <1>2, <1>3
<1>7. \A j \in 1..(n - 1) : c[j] = IF j <= i - 1 THEN l[j] ELSE r[j - (i - 1)]
  <2> HIDE DEF l, r, c, n
  <2> QED BY <1>2, <1>5, <1>6, Zenon
<1>8. ASSUME NEW j \in 1..(n - 1)
      PROVE  c[j] = IF j < i THEN s[j] ELSE s[j + 1]
  <2>1. n \in Nat /\ i \in 1..n
    BY <1>1
  <2>2. /\ \A x \in 1..(i - 1) : l[x] = s[x]
        /\ \A x \in 1..(n - i) : r[x] = s[i + x]
    BY <1>2, <1>3
  <2> HIDE DEF l, r, c, n
  <2>3. CASE j < i
    BY <2>1, <2>2, <2>3, <1>7
  <2>4. CASE j >= i
    <3>1. c[j] = r[j - (i - 1)] /\ j - (i - 1) \in 1..(n - i)
      BY <2>1, <2>4, <1>7
    <3>2. r[j - (i - 1)] = s[i + (j - (i - 1))]
      BY <2>2, <3>1
    <3>3. i + (j - (i - 1)) = j + 1
      BY <2>1
    <3> QED BY <2>1, <2>4, <3>1, <3>2, <3>3
  <2> QED BY <2>1, <2>3, <2>4
<1> QED
  BY <1>4, <1>5, <1>6, <1>8, Zenon

\* Unlinking e: the rest stays, each thread as often as before.
LEMMA RemoveFirstProperties ==
  ASSUME NEW S, NEW s \in Seq(S), NoRepeat(s), NEW e
  PROVE  /\ RemoveFirst(s, e) \in Seq(S)
         /\ NoRepeat(RemoveFirst(s, e))
         /\ \A x : Contains(RemoveFirst(s, e), x) <=> Contains(s, x) /\ x # e
<1>1. CASE ~Contains(s, e)
  <2>1. RemoveFirst(s, e) = s
    BY <1>1 DEF RemoveFirst, Contains
  <2> QED BY <1>1, <2>1 DEF Contains
<1>2. CASE Contains(s, e)
  <2> DEFINE i == SelectInSeq(s, LAMBDA v : v = e)
             r == RemoveAt(s, i)
             n == Len(s)
  <2>1. RemoveFirst(s, e) = r
    BY <1>2 DEF RemoveFirst, Contains
  <2>2. i \in 1..n /\ s[i] = e
    BY <1>2, FirstOccurrence
  <2> HIDE DEF i
  <2>3. /\ r \in Seq(S) /\ Len(r) = n - 1
        /\ \A j \in 1..(n - 1) : r[j] = IF j < i THEN s[j] ELSE s[j + 1]
    BY <2>2, RemoveAtProperties
  <2>4. n \in Nat
    BY LenProperties
  <2>5. \A a, b \in 1..n : s[a] = s[b] => a = b
    BY DEF NoRepeat
  <2> HIDE DEF r, n
  <2>6. NoRepeat(r)
    <3> SUFFICES ASSUME NEW a \in 1..(n - 1), NEW b \in 1..(n - 1), r[a] = r[b]
                 PROVE  a = b
      BY <2>3 DEF NoRepeat
    <3> QED BY <2>2, <2>3, <2>4, <2>5
  <2>7. ASSUME NEW x, Contains(r, x) PROVE Contains(s, x) /\ x # e
    <3>1. PICK j \in 1..(n - 1) : r[j] = x
      BY <2>3, <2>7 DEF Contains
    <3>2. \E a \in 1..n : s[a] = x /\ a # i
      <4>1. CASE j < i
        <5>1. s[j] = x /\ j \in 1..n /\ j # i
          BY <2>2, <2>3, <2>4, <3>1, <4>1
        <5> QED BY <5>1
      <4>2. CASE ~(j < i)
        <5>1. s[j + 1] = x
          BY <2>3, <3>1, <4>2
        <5>2. j + 1 \in 1..n /\ j + 1 # i
          BY <2>2, <2>4, <4>2
        <5> QED BY <5>1, <5>2
      <4> QED BY <4>1, <4>2
    <3>3. PICK a \in 1..n : s[a] = x /\ a # i
      BY <3>2
    <3>4. x # e
      BY <2>2, <2>5, <3>3
    <3> QED BY <3>3, <3>4 DEF Contains, n
  <2>8. ASSUME NEW x, Contains(s, x), x # e PROVE Contains(r, x)
    <3>1. PICK a \in 1..n : s[a] = x
      BY <2>8 DEF Contains, n
    <3>2. a # i
      BY <2>2, <2>8, <3>1
    <3>3. \E j \in 1..(n - 1) : r[j] = x
      <4>1. CASE a < i
        <5>1. a \in 1..(n - 1)
          BY <2>2, <2>4, <4>1
        <5> QED BY <2>3, <3>1, <4>1, <5>1
      <4>2. CASE a > i
        <5>1. a - 1 \in 1..(n - 1) /\ ~(a - 1 < i) /\ (a - 1) + 1 = a
          BY <2>2, <2>4, <4>2
        <5> QED BY <2>3, <3>1, <5>1
      <4> QED BY <2>2, <2>4, <3>2, <4>1, <4>2
    <3> QED BY <2>3, <3>3 DEF Contains
  <2> QED BY <2>1, <2>3, <2>6, <2>7, <2>8
<1> QED
  BY <1>1, <1>2

\* Linking e at the tail.
LEMMA AppendList ==
  ASSUME NEW S, NEW s \in Seq(S), NEW e \in S
  PROVE  /\ Append(s, e) \in Seq(S)
         /\ \A x : Contains(Append(s, e), x) <=> Contains(s, x) \/ x = e
         /\ NoRepeat(s) /\ ~Contains(s, e) => NoRepeat(Append(s, e))
<1> DEFINE r == Append(s, e)
           n == Len(s)
<1>1. /\ r \in Seq(S) /\ Len(r) = n + 1
      /\ \A i \in 1..n : r[i] = s[i]
      /\ r[n + 1] = e
  BY AppendProperties
<1>2. n \in Nat
  BY LenProperties
<1> HIDE DEF r, n
<1>3. \A x : Contains(r, x) <=> \E i \in 1..(n + 1) : r[i] = x
  BY <1>1 DEF Contains
<1>4. \A x : Contains(s, x) <=> \E i \in 1..n : s[i] = x
  BY DEF Contains, n
<1>5. ASSUME NEW x PROVE Contains(r, x) <=> Contains(s, x) \/ x = e
  BY <1>1, <1>2, <1>3, <1>4
<1>6. ASSUME NoRepeat(s), ~Contains(s, e) PROVE NoRepeat(r)
  <2> SUFFICES ASSUME NEW a \in 1..(n + 1), NEW b \in 1..(n + 1), r[a] = r[b]
               PROVE  a = b
    BY <1>1 DEF NoRepeat
  <2>1. \A i, j \in 1..n : s[i] = s[j] => i = j
    BY <1>6 DEF NoRepeat, n
  <2>2. \A i \in 1..n : s[i] # e
    BY <1>4, <1>6
  <2> QED BY <1>1, <1>2, <2>1, <2>2
<1> QED
  BY <1>1, <1>5, <1>6 DEF r

\* Linking e at the head.
LEMMA ConsList ==
  ASSUME NEW S, NEW s \in Seq(S), NEW e \in S
  PROVE  /\ Cons(e, s) \in Seq(S)
         /\ \A x : Contains(Cons(e, s), x) <=> Contains(s, x) \/ x = e
         /\ NoRepeat(s) /\ ~Contains(s, e) => NoRepeat(Cons(e, s))
<1> DEFINE r == Cons(e, s)
           n == Len(s)
<1>1. /\ r \in Seq(S) /\ Len(r) = n + 1
      /\ r[1] = e
      /\ \A i \in 2..(n + 1) : r[i] = s[i - 1]
  <2>1. <<e>> \in Seq(S) /\ Len(<<e>>) = 1 /\ <<e>>[1] = e
    OBVIOUS
  <2>2. n \in Nat
    BY LenProperties
  <2>3. /\ <<e>> \o s \in Seq(S) /\ Len(<<e>> \o s) = Len(<<e>>) + n
        /\ \A i \in 1..(Len(<<e>>) + n) :
             (<<e>> \o s)[i] = IF i <= Len(<<e>>) THEN <<e>>[i] ELSE s[i - Len(<<e>>)]
    BY <2>1, ConcatProperties
  <2> DEFINE c == <<e>> \o s
             h == <<e>>
  <2>4. r = c
    BY DEF Cons
  <2>5. /\ h[1] = e /\ Len(h) = 1 /\ c \in Seq(S) /\ Len(c) = 1 + n
        /\ \A i \in 1..(1 + n) : c[i] = IF i <= 1 THEN h[i] ELSE s[i - 1]
    BY <2>1, <2>3
  <2> HIDE DEF r, c, h, n
  <2> QED BY <2>2, <2>4, <2>5
<1>2. n \in Nat
  BY LenProperties
<1> HIDE DEF r, n
<1>3. \A x : Contains(r, x) <=> \E i \in 1..(n + 1) : r[i] = x
  BY <1>1 DEF Contains
<1>4. \A x : Contains(s, x) <=> \E i \in 1..n : s[i] = x
  BY DEF Contains, n
<1>5. ASSUME NEW x PROVE Contains(r, x) <=> Contains(s, x) \/ x = e
  <2>1. ASSUME NEW i \in 1..n, s[i] = x PROVE Contains(r, x)
    <3>1. i + 1 \in 2..(n + 1) /\ (i + 1) - 1 = i /\ i + 1 \in 1..(n + 1)
      BY <1>2
    <3> QED BY <1>1, <1>3, <2>1, <3>1
  <2>2. x = e => Contains(r, x)
    BY <1>1, <1>2, <1>3
  <2>3. ASSUME NEW i \in 1..(n + 1), r[i] = x PROVE Contains(s, x) \/ x = e
    <3>1. i = 1 \/ (i \in 2..(n + 1) /\ i - 1 \in 1..n)
      BY <1>2
    <3> QED BY <1>1, <1>4, <2>3, <3>1
  <2> QED BY <1>3, <1>4, <2>1, <2>2, <2>3
<1>6. ASSUME NoRepeat(s), ~Contains(s, e) PROVE NoRepeat(r)
  <2> SUFFICES ASSUME NEW a \in 1..(n + 1), NEW b \in 1..(n + 1), r[a] = r[b]
               PROVE  a = b
    BY <1>1 DEF NoRepeat
  <2>1. \A i, j \in 1..n : s[i] = s[j] => i = j
    BY <1>6 DEF NoRepeat, n
  <2>2. \A i \in 1..n : s[i] # e
    BY <1>4, <1>6
  <2>3. a = 1 \/ (a \in 2..(n + 1) /\ a - 1 \in 1..n)
    BY <1>2
  <2>4. b = 1 \/ (b \in 2..(n + 1) /\ b - 1 \in 1..n)
    BY <1>2
  <2> QED BY <1>1, <1>2, <2>1, <2>2, <2>3, <2>4
<1> QED
  BY <1>1, <1>5, <1>6 DEF r

\* A list is empty exactly when nothing is on it; otherwise its head is.
LEMMA HeadList ==
  ASSUME NEW S, NEW s \in Seq(S)
  PROVE  /\ s = <<>> <=> \A x : ~Contains(s, x)
         /\ s # <<>> => Head(s) \in S /\ Contains(s, Head(s))
<1>1. ASSUME s # <<>> PROVE Head(s) \in S /\ Contains(s, Head(s))
  <2>1. Len(s) \in Nat \ {0}
    BY <1>1, EmptySeq
  <2>2. Head(s) = s[1] /\ 1 \in 1..Len(s)
    BY <2>1
  <2> QED BY <2>2, ElementOfSeq DEF Contains
<1>2. ASSUME s = <<>> PROVE \A x : ~Contains(s, x)
  BY <1>2, EmptySeq DEF Contains
<1> QED
  BY <1>1, <1>2

-----------------------------------------------------------------------------
(* The order of the elements. *)

\* Unlinking e keeps the order of the rest, and shortens the list by the one
\* place that e had.
LEMMA RemoveFirstOrder ==
  ASSUME NEW S, NEW s \in Seq(S), NoRepeat(s), NEW e
  PROVE  /\ \A x, y : Precedes(RemoveFirst(s, e), x, y)
                       <=> Precedes(s, x, y) /\ x # e /\ y # e
         /\ Len(RemoveFirst(s, e)) = IF Contains(s, e) THEN Len(s) - 1 ELSE Len(s)
<1>1. CASE ~Contains(s, e)
  <2>1. RemoveFirst(s, e) = s
    BY <1>1 DEF RemoveFirst, Contains
  <2> QED BY <1>1, <2>1 DEF Contains, Precedes
<1>2. CASE Contains(s, e)
  <2> DEFINE i == SelectInSeq(s, LAMBDA v : v = e)
             r == RemoveAt(s, i)
             n == Len(s)
  <2>1. RemoveFirst(s, e) = r
    BY <1>2 DEF RemoveFirst, Contains
  <2>2. i \in 1..n /\ s[i] = e
    BY <1>2, FirstOccurrence
  <2> HIDE DEF i
  <2>3. /\ r \in Seq(S) /\ Len(r) = n - 1
        /\ \A j \in 1..(n - 1) : r[j] = IF j < i THEN s[j] ELSE s[j + 1]
    BY <2>2, RemoveAtProperties
  <2>4. n \in Nat
    BY LenProperties
  <2>5. \A a, b \in 1..n : s[a] = s[b] => a = b
    BY DEF NoRepeat
  <2>6. \A x, y : Precedes(s, x, y) <=> \E a, b \in 1..n : a < b /\ s[a] = x /\ s[b] = y
    BY DEF Precedes
  <2>7. \A x, y : Precedes(r, x, y) <=>
                    \E a, b \in 1..(n - 1) : a < b /\ r[a] = x /\ r[b] = y
    BY <2>3 DEF Precedes
  <2> HIDE DEF r, n
  <2>8. ASSUME NEW x, NEW y, Precedes(r, x, y)
        PROVE  Precedes(s, x, y) /\ x # e /\ y # e
    <3>1. PICK a \in 1..(n - 1), b \in 1..(n - 1) : a < b /\ r[a] = x /\ r[b] = y
      BY <2>7, <2>8
    <3> DEFINE c == IF a < i THEN a ELSE a + 1
               d == IF b < i THEN b ELSE b + 1
    <3>2. c \in 1..n /\ d \in 1..n /\ c < d /\ c # i /\ d # i
      BY <2>2, <2>4, <3>1
    <3>3. s[c] = x /\ s[d] = y
      BY <2>3, <3>1
    <3> HIDE DEF c, d
    <3>4. x # e /\ y # e
      BY <2>2, <2>5, <3>2, <3>3
    <3> QED BY <2>6, <3>2, <3>3, <3>4
  <2>9. ASSUME NEW x, NEW y, Precedes(s, x, y), x # e, y # e
        PROVE  Precedes(r, x, y)
    <3>1. PICK a \in 1..n, b \in 1..n : a < b /\ s[a] = x /\ s[b] = y
      BY <2>6, <2>9
    <3>2. a # i /\ b # i
      BY <2>2, <2>9, <3>1
    <3> DEFINE c == IF a < i THEN a ELSE a - 1
               d == IF b < i THEN b ELSE b - 1
    <3>3. c \in 1..(n - 1) /\ d \in 1..(n - 1) /\ c < d
      BY <2>2, <2>4, <3>1, <3>2
    <3>4. /\ c < i => c = a
          /\ ~(c < i) => c + 1 = a
          /\ d < i => d = b
          /\ ~(d < i) => d + 1 = b
      BY <2>2, <2>4, <3>1, <3>2
    <3> HIDE DEF c, d
    <3>5. r[c] = x /\ r[d] = y
      BY <2>3, <3>1, <3>3, <3>4
    <3> QED BY <2>7, <3>3, <3>5
  <2> QED BY <1>2, <2>1, <2>3, <2>8, <2>9 DEF n
<1> QED
  BY <1>1, <1>2

\* Taking the head off.
LEMMA TailList ==
  ASSUME NEW S, NEW s \in Seq(S), NoRepeat(s), s # <<>>
  PROVE  /\ Tail(s) \in Seq(S)
         /\ NoRepeat(Tail(s))
         /\ Len(Tail(s)) = Len(s) - 1
         /\ \A x : Contains(Tail(s), x) <=> Contains(s, x) /\ x # Head(s)
         /\ \A x, y : Precedes(Tail(s), x, y) => Precedes(s, x, y)
         /\ \A x : Contains(Tail(s), x) => Precedes(s, Head(s), x)
<1> DEFINE r == Tail(s)
           n == Len(s)
<1>1. /\ r \in Seq(S) /\ Len(r) = n - 1
      /\ \A i \in 1..(n - 1) : r[i] = s[i + 1]
  BY HeadTailProperties
<1>2. n \in Nat \ {0}
  BY EmptySeq, LenProperties
<1>3. Head(s) = s[1]
  OBVIOUS
<1>4. \A a, b \in 1..n : s[a] = s[b] => a = b
  BY DEF NoRepeat
<1>5. /\ \A x : Contains(r, x) <=> \E i \in 1..(n - 1) : r[i] = x
      /\ \A x : Contains(s, x) <=> \E i \in 1..n : s[i] = x
  BY <1>1 DEF Contains
<1>6. /\ \A x, y : Precedes(r, x, y) <=>
                      \E i, j \in 1..(n - 1) : i < j /\ r[i] = x /\ r[j] = y
      /\ \A x, y : Precedes(s, x, y) <=>
                      \E i, j \in 1..n : i < j /\ s[i] = x /\ s[j] = y
  BY <1>1 DEF Precedes
<1>7. NoRepeat(r)
  <2> SUFFICES ASSUME NEW a \in 1..(n - 1), NEW b \in 1..(n - 1), r[a] = r[b]
               PROVE  a = b
    BY <1>1 DEF NoRepeat
  <2> HIDE DEF r, n
  <2> QED BY <1>1, <1>2, <1>4
<1> HIDE DEF r, n
<1>8. ASSUME NEW x, Contains(r, x)
      PROVE  Contains(s, x) /\ x # s[1] /\ Precedes(s, s[1], x)
  <2>1. PICK i \in 1..(n - 1) : r[i] = x
    BY <1>5, <1>8
  <2>2. i + 1 \in 1..n /\ s[i + 1] = x /\ 1 < i + 1 /\ 1 \in 1..n
    BY <1>1, <1>2, <2>1
  <2>3. s[1] # x
    BY <1>4, <2>2
  <2> QED BY <1>5, <1>6, <2>2, <2>3
<1>9. ASSUME NEW x, Contains(s, x), x # s[1] PROVE Contains(r, x)
  <2>1. PICK i \in 1..n : s[i] = x
    BY <1>5, <1>9
  <2>2. i # 1
    BY <1>9, <2>1
  <2>3. i - 1 \in 1..(n - 1) /\ (i - 1) + 1 = i
    BY <1>2, <2>1, <2>2
  <2> QED BY <1>1, <1>5, <2>1, <2>3
<1>10. ASSUME NEW x, NEW y, Precedes(r, x, y) PROVE Precedes(s, x, y)
  <2>1. PICK i \in 1..(n - 1), j \in 1..(n - 1) : i < j /\ r[i] = x /\ r[j] = y
    BY <1>6, <1>10
  <2>2. i + 1 \in 1..n /\ j + 1 \in 1..n /\ i + 1 < j + 1
    BY <1>2, <2>1
  <2> QED BY <1>1, <1>6, <2>1, <2>2
<1> QED
  BY <1>1, <1>3, <1>7, <1>8, <1>9, <1>10 DEF r, n

\* Linking e at the tail.
LEMMA AppendOrder ==
  ASSUME NEW S, NEW s \in Seq(S), NEW e \in S
  PROVE  /\ Len(Append(s, e)) = Len(s) + 1
         /\ \A x, y : Precedes(s, x, y) => Precedes(Append(s, e), x, y)
         /\ \A x : Contains(s, x) => Precedes(Append(s, e), x, e)
<1> DEFINE r == Append(s, e)
           n == Len(s)
<1>1. /\ Len(r) = n + 1 /\ r[n + 1] = e
      /\ \A i \in 1..n : r[i] = s[i]
  BY AppendProperties
<1>2. n \in Nat
  BY LenProperties
<1>3. /\ \A x : Contains(s, x) => \E i \in 1..n : s[i] = x
      /\ \A x, y : Precedes(s, x, y) => \E i, j \in 1..n : i < j /\ s[i] = x /\ s[j] = y
  BY DEF Contains, Precedes
<1>4. \A x, y : Precedes(r, x, y) <=>
                  \E i, j \in 1..(n + 1) : i < j /\ r[i] = x /\ r[j] = y
  BY <1>1 DEF Precedes
<1> HIDE DEF r, n
<1>5. ASSUME NEW x, NEW y, Precedes(s, x, y) PROVE Precedes(r, x, y)
  <2>1. PICK i \in 1..n, j \in 1..n : i < j /\ s[i] = x /\ s[j] = y
    BY <1>3, <1>5
  <2> QED BY <1>1, <1>2, <1>4, <2>1
<1>6. ASSUME NEW x, Contains(s, x) PROVE Precedes(r, x, e)
  <2>1. PICK i \in 1..n : s[i] = x
    BY <1>3, <1>6
  <2>2. i \in 1..(n + 1) /\ n + 1 \in 1..(n + 1) /\ i < n + 1
    BY <1>2
  <2> QED BY <1>1, <1>4, <2>1, <2>2
<1> QED
  BY <1>1, <1>5, <1>6 DEF r, n

\* Linking e in front of the element at position i.
LEMMA InsertAtProperties ==
  ASSUME NEW S, NEW s \in Seq(S), NEW i \in 1..(Len(s) + 1), NEW e \in S
  PROVE  /\ InsertAt(s, i, e) \in Seq(S)
         /\ Len(InsertAt(s, i, e)) = Len(s) + 1
         /\ \A j \in 1..(Len(s) + 1) :
              InsertAt(s, i, e)[j] = IF j < i THEN s[j] ELSE IF j = i THEN e ELSE s[j - 1]
<1> DEFINE n == Len(s)
           l == SubSeq(s, 1, i - 1)
           m == <<e>>
           r == SubSeq(s, i, n)
           c == l \o m
           d == c \o r
<1>1. n \in Nat /\ i \in 1..(n + 1)
  BY LenProperties
<1>2. l \in Seq(S) /\ Len(l) = i - 1 /\ \A j \in 1..(i - 1) : l[j] = s[j]
  <2>1. \A j \in 1..(i - 1) : s[j] \in S
    BY <1>1, ElementOfSeq
  <2> QED BY <1>1, <2>1, SubSeqProperties
<1>3. /\ r \in Seq(S) /\ Len(r) = n - i + 1
      /\ \A j \in 1..(n - i + 1) : r[j] = s[i + j - 1]
  <2>1. \A j \in i..n : s[j] \in S
    BY <1>1, ElementOfSeq
  <2> QED BY <1>1, <2>1, SubSeqProperties
<1>4. m \in Seq(S) /\ Len(m) = 1 /\ m[1] = e
  OBVIOUS
<1>5. InsertAt(s, i, e) = d
  BY DEF InsertAt
<1> HIDE DEF l, m, r
<1>6. /\ c \in Seq(S) /\ Len(c) = Len(l) + Len(m)
      /\ \A j \in 1..(Len(l) + Len(m)) : c[j] = IF j <= Len(l) THEN l[j] ELSE m[j - Len(l)]
  <2>1. l \in Seq(S) /\ m \in Seq(S)
    BY <1>2, <1>4
  <2> QED BY <2>1, ConcatProperties
<1>7. Len(c) = i
  BY <1>1, <1>2, <1>4, <1>6
<1>8. \A j \in 1..i : c[j] = IF j < i THEN s[j] ELSE e
  <2> SUFFICES ASSUME NEW j \in 1..i PROVE c[j] = IF j < i THEN s[j] ELSE e
    OBVIOUS
  <2> HIDE DEF c, n
  <2>1. c[j] = IF j <= i - 1 THEN l[j] ELSE m[j - (i - 1)]
    BY <1>1, <1>2, <1>4, <1>6, <1>7
  <2>2. CASE j < i
    BY <1>1, <1>2, <2>1, <2>2
  <2>3. CASE j = i
    <3>1. j - (i - 1) = 1 /\ ~(j <= i - 1)
      BY <1>1, <2>3
    <3> QED BY <1>4, <2>1, <2>3, <3>1
  <2> QED BY <1>1, <2>2, <2>3
<1> HIDE DEF c
<1>9. /\ d \in Seq(S) /\ Len(d) = Len(c) + Len(r)
      /\ \A j \in 1..(Len(c) + Len(r)) : d[j] = IF j <= Len(c) THEN c[j] ELSE r[j - Len(c)]
  <2>1. c \in Seq(S) /\ r \in Seq(S)
    BY <1>3, <1>6
  <2> QED BY <2>1, ConcatProperties
<1>10. Len(d) = n + 1
  BY <1>1, <1>3, <1>7, <1>9
<1> HIDE DEF d, n
<1>11. ASSUME NEW j \in 1..(n + 1)
       PROVE  d[j] = IF j < i THEN s[j] ELSE IF j = i THEN e ELSE s[j - 1]
  <2>1. d[j] = IF j <= i THEN c[j] ELSE r[j - i]
    BY <1>1, <1>3, <1>7, <1>9, <1>10
  <2>2. CASE j <= i
    BY <1>1, <1>8, <2>1, <2>2
  <2>3. CASE j > i
    <3>1. j - i \in 1..(n - i + 1) /\ i + (j - i) - 1 = j - 1
      BY <1>1, <2>3
    <3>2. r[j - i] = s[i + (j - i) - 1]
      BY <1>3, <3>1
    <3> QED BY <1>1, <2>1, <2>3, <3>1, <3>2
  <2> QED BY <1>1, <2>2, <2>3
<1> QED
  BY <1>5, <1>9, <1>10, <1>11 DEF n

\* Linking e somewhere: what was before the place stays before e, the rest
\* comes after it.
LEMMA InsertAtList ==
  ASSUME NEW S, NEW s \in Seq(S), NEW i \in 1..(Len(s) + 1), NEW e \in S
  PROVE  /\ \A x : Contains(InsertAt(s, i, e), x) <=> Contains(s, x) \/ x = e
         /\ NoRepeat(s) /\ ~Contains(s, e) => NoRepeat(InsertAt(s, i, e))
         /\ \A x, y : Precedes(InsertAt(s, i, e), x, y) =>
              \/ Precedes(s, x, y)
              \/ x = e /\ \E j \in i..Len(s) : s[j] = y
              \/ y = e /\ \E j \in 1..(i - 1) : s[j] = x
<1> DEFINE n == Len(s)
           r == InsertAt(s, i, e)
<1>1. /\ n \in Nat /\ i \in 1..(n + 1) /\ Len(r) = n + 1
      /\ \A j \in 1..(n + 1) : r[j] = IF j < i THEN s[j] ELSE IF j = i THEN e ELSE s[j - 1]
  BY InsertAtProperties, LenProperties
<1>2. /\ \A x : Contains(s, x) <=> \E j \in 1..n : s[j] = x
      /\ \A x : Contains(r, x) <=> \E j \in 1..(n + 1) : r[j] = x
  BY <1>1 DEF Contains
<1>3. /\ \A x, y : Precedes(s, x, y) <=> \E a, b \in 1..n : a < b /\ s[a] = x /\ s[b] = y
      /\ \A x, y : Precedes(r, x, y) <=>
                      \E a, b \in 1..(n + 1) : a < b /\ r[a] = x /\ r[b] = y
  BY <1>1 DEF Precedes
<1>4. NoRepeat(r) <=> \A a, b \in 1..(n + 1) : r[a] = r[b] => a = b
  BY <1>1 DEF NoRepeat
<1>5. NoRepeat(s) <=> \A a, b \in 1..n : s[a] = s[b] => a = b
  BY DEF NoRepeat
<1> HIDE DEF n, r
\* Where the element at position j of the longer list was.
<1> DEFINE Old(j) == IF j < i THEN j ELSE j - 1
<1>6. \A j \in 1..(n + 1) : j # i => Old(j) \in 1..n /\ r[j] = s[Old(j)]
  BY <1>1
<1>7. r[i] = e
  BY <1>1
<1>8. ASSUME NEW x PROVE Contains(r, x) <=> Contains(s, x) \/ x = e
  <2>1. ASSUME NEW j \in 1..n, s[j] = x PROVE Contains(r, x)
    <3>1. CASE j < i
      <4>1. j \in 1..(n + 1) /\ r[j] = x
        BY <1>1, <2>1, <3>1
      <4> QED BY <1>2, <4>1
    <3>2. CASE j >= i
      <4>1. j + 1 \in 1..(n + 1) /\ (j + 1) - 1 = j /\ ~(j + 1 < i) /\ j + 1 # i
        BY <1>1, <3>2
      <4>2. r[j + 1] = x
        BY <1>1, <2>1, <4>1
      <4> QED BY <1>2, <4>1, <4>2
    <3> QED BY <1>1, <3>1, <3>2
  <2>2. Contains(r, e)
    BY <1>1, <1>2, <1>7
  <2>3. Contains(r, x) => Contains(s, x) \/ x = e
    <3> HIDE DEF Old
    <3> QED BY <1>2, <1>6, <1>7
  <2> QED BY <1>2, <2>1, <2>2, <2>3
<1>9. ASSUME NoRepeat(s), ~Contains(s, e) PROVE NoRepeat(r)
  <2> SUFFICES ASSUME NEW a \in 1..(n + 1), NEW b \in 1..(n + 1), r[a] = r[b]
               PROVE  a = b
    BY <1>4
  <2>1. \A j \in 1..(n + 1) : j # i => r[j] # e
    <3> HIDE DEF Old
    <3> QED BY <1>2, <1>6, <1>9
  <2>2. CASE a = i \/ b = i
    BY <1>7, <2>1, <2>2
  <2>3. CASE a # i /\ b # i
    <3>1. Old(a) = Old(b)
      <4> HIDE DEF Old
      <4> QED BY <1>5, <1>6, <1>9, <2>3
    <3> QED BY <1>1, <2>3, <3>1
  <2> QED BY <2>2, <2>3
<1>10. ASSUME NEW x, NEW y, Precedes(r, x, y)
       PROVE  \/ Precedes(s, x, y)
              \/ x = e /\ \E j \in i..n : s[j] = y
              \/ y = e /\ \E j \in 1..(i - 1) : s[j] = x
  <2>1. PICK a \in 1..(n + 1), b \in 1..(n + 1) : a < b /\ r[a] = x /\ r[b] = y
    BY <1>3, <1>10
  <2>2. CASE a = i
    <3>1. b - 1 \in i..n /\ s[b - 1] = y
      BY <1>1, <2>1, <2>2
    <3> QED BY <1>7, <2>1, <2>2, <3>1
  <2>3. CASE b = i
    <3>1. a \in 1..(i - 1) /\ s[a] = x
      BY <1>1, <2>1, <2>3
    <3> QED BY <1>7, <2>1, <2>3, <3>1
  <2>4. CASE a # i /\ b # i
    <3>1. Old(a) < Old(b)
      BY <1>1, <2>1, <2>4
    <3>2. Old(a) \in 1..n /\ Old(b) \in 1..n /\ s[Old(a)] = x /\ s[Old(b)] = y
      BY <1>6, <2>1, <2>4
    <3> HIDE DEF Old
    <3> QED BY <1>3, <3>1, <3>2
  <2> QED BY <2>2, <2>3, <2>4
<1> QED
  BY <1>8, <1>9, <1>10 DEF n, r

\* Just the members of such a list.
LEMMA InsertAtMembers ==
  ASSUME NEW S, NEW s \in Seq(S), NEW i \in 1..(Len(s) + 1), NEW e \in S
  PROVE  /\ \A x : Contains(InsertAt(s, i, e), x) <=> Contains(s, x) \/ x = e
         /\ NoRepeat(s) /\ ~Contains(s, e) => NoRepeat(InsertAt(s, i, e))
<1> USE InsertAtList
<1>1. \A x : Contains(InsertAt(s, i, e), x) <=> Contains(s, x) \/ x = e
  BY Zenon
<1>2. NoRepeat(s) /\ ~Contains(s, e) => NoRepeat(InsertAt(s, i, e))
  BY Zenon
<1> QED BY <1>1, <1>2

-----------------------------------------------------------------------------
(* Rings: n cells of an array of `size' cells, from cell o on.  The message    *)
(* pool of a mailbox and the items of a data queue are such arrays.            *)

\* Arrays of values of V.
Cells(V, size) == [0..size-1 -> V]

\* The cell that is j cells after o.
RingPlace(size, o, j) == IF o + j < size THEN o + j ELSE o + j - size

\* What the n cells from o on hold, in the words of the modules.
RingSeq(cells, size, o, n) == [i \in 1..n |-> cells[(o + i - 1) % size]]

\* Cell c holds v, the others what they held.
Filled(new, old, c, v) == new[c] = v /\ \A i \in DOMAIN old : i # c => new[i] = old[i]

\* Going round the ring wraps once at most.
LEMMA PlaceValue ==
  ASSUME NEW size \in Nat, NEW o \in 0..size-1, NEW j \in 0..size
  PROVE  (o + j) % size = RingPlace(size, o, j) /\ RingPlace(size, o, j) \in 0..size-1
<1>1. CASE o + j < size
  BY <1>1 DEF RingPlace
<1>2. CASE o + j >= size
  <2>1. (o + j) % size = (o + j - size) % size
    BY <1>2
  <2> QED BY <1>2, <2>1 DEF RingPlace
<1> QED
  BY <1>1, <1>2

\* Cells are different for less than a round.
LEMMA PlacesDiffer ==
  ASSUME NEW size \in Nat, NEW o \in 0..size-1,
         NEW i \in 0..size-1, NEW j \in 0..size-1, i # j
  PROVE  RingPlace(size, o, i) # RingPlace(size, o, j)
BY DEF RingPlace

\* The next cell, seen from the cell itself and from where counting starts.
LEMMA PlaceForward ==
  ASSUME NEW size \in Nat, NEW o \in 0..size-1, NEW j \in 0..size-1
  PROVE  LET f == RingPlace(size, o, 1)
         IN  /\ f \in 0..size-1 /\ f = IF o + 1 = size THEN 0 ELSE o + 1
             /\ RingPlace(size, f, j) = RingPlace(size, o, j + 1)
             /\ RingPlace(size, RingPlace(size, o, j), 1) = RingPlace(size, o, j + 1)
             /\ RingPlace(size, o, 0) = o
BY DEF RingPlace

\* A ring is a sequence.
LEMMA RingIsSeq ==
  ASSUME NEW V, NEW size \in Nat, NEW cells \in Cells(V, size),
         NEW o \in 0..size-1, NEW n \in 0..size
  PROVE  RingSeq(cells, size, o, n) \in Seq(V)
<1>1. ASSUME NEW i \in 1..n
      PROVE  /\ (o + i - 1) % size = RingPlace(size, o, i - 1)
             /\ cells[RingPlace(size, o, i - 1)] \in V
  <2>1. i - 1 \in 0..size /\ o + i - 1 = o + (i - 1)
    OBVIOUS
  <2>2. /\ (o + (i - 1)) % size = RingPlace(size, o, i - 1)
        /\ RingPlace(size, o, i - 1) \in 0..size-1
    BY <2>1, PlaceValue
  <2> QED BY <2>1, <2>2 DEF Cells
<1> DEFINE m == [i \in 1..n |-> cells[(o + i - 1) % size]]
<1>2. \A i \in 1..n : m[i] = cells[RingPlace(size, o, i - 1)] /\ m[i] \in V
  BY <1>1
<1>3. m \in [1..n -> V]
  BY <1>2
<1>4. RingSeq(cells, size, o, n) = m
  BY DEF RingSeq
<1> HIDE DEF m
<1>5. m \in Seq(V)
  BY <1>3
<1> QED
  BY <1>4, <1>5

\* Its length.
LEMMA RingLen ==
  ASSUME NEW size, NEW cells, NEW o, NEW n \in Nat
  PROVE  Len(RingSeq(cells, size, o, n)) = n
BY DEF RingSeq

\* Its elements in the words of RingPlace.
LEMMA RingElement ==
  ASSUME NEW size \in Nat, NEW cells, NEW o \in 0..size-1, NEW n \in 0..size, NEW i \in 1..n
  PROVE  RingSeq(cells, size, o, n)[i] = cells[RingPlace(size, o, i - 1)]
<1>1. i - 1 \in 0..size /\ o + i - 1 = o + (i - 1)
  OBVIOUS
<1>2. (o + (i - 1)) % size = RingPlace(size, o, i - 1)
  BY <1>1, PlaceValue
<1>3. RingSeq(cells, size, o, n)[i] = cells[(o + i - 1) % size]
  BY DEF RingSeq
<1> QED
  BY <1>1, <1>2, <1>3

\* Filling the cell behind the last one appends.
LEMMA RingAppends ==
  ASSUME NEW V, NEW size \in Nat, NEW cells \in Cells(V, size),
         NEW o \in 0..size-1, NEW n \in 0..size-1, NEW v \in V,
         NEW filled \in Cells(V, size), Filled(filled, cells, RingPlace(size, o, n), v)
  PROVE  RingSeq(filled, size, o, n + 1) = Append(RingSeq(cells, size, o, n), v)
<1> DEFINE c == RingPlace(size, o, n)
           s == RingSeq(cells, size, o, n)
           r == RingSeq(filled, size, o, n + 1)
           a == Append(s, v)
<1>1. c \in 0..size-1 /\ n \in 0..size /\ n + 1 \in 0..size
  BY PlaceValue
<1>2. filled \in Cells(V, size)
  OBVIOUS
<1>3. s \in Seq(V) /\ Len(s) = n /\ \A j \in 1..n : s[j] = cells[RingPlace(size, o, j - 1)]
  <2>1. s \in Seq(V)
    BY <1>1, RingIsSeq
  <2>2. Len(s) = n
    BY <1>1, RingLen
  <2>3. \A j \in 1..n : s[j] = cells[RingPlace(size, o, j - 1)]
    BY <1>1, RingElement
  <2> QED BY <2>1, <2>2, <2>3
<1>4. /\ r \in Seq(V) /\ Len(r) = n + 1
      /\ \A j \in 1..(n + 1) : r[j] = filled[RingPlace(size, o, j - 1)]
  <2>1. r \in Seq(V)
    BY <1>1, <1>2, RingIsSeq
  <2>2. Len(r) = n + 1
    BY <1>1, <1>2, RingLen
  <2>3. \A j \in 1..(n + 1) : r[j] = filled[RingPlace(size, o, j - 1)]
    BY <1>1, <1>2, RingElement
  <2> QED BY <2>1, <2>2, <2>3
<1> HIDE DEF s, r
<1>5. /\ a \in Seq(V) /\ Len(a) = Len(s) + 1
      /\ \A j \in 1..Len(s) : a[j] = s[j]
      /\ a[Len(s) + 1] = v
  BY <1>3, AppendProperties
<1> HIDE DEF a
<1>6. ASSUME NEW j \in 1..(n + 1) PROVE r[j] = a[j]
  <2>1. j - 1 \in 0..size-1 /\ j - 1 \in 0..size
    OBVIOUS
  <2>2. RingPlace(size, o, j - 1) \in 0..size-1
    BY <2>1, PlaceValue
  <2>3. CASE j <= n
    <3>1. j - 1 # n
      BY <2>3
    <3>2. RingPlace(size, o, j - 1) # c
      BY <2>1, <3>1, PlacesDiffer
    <3>3. filled[RingPlace(size, o, j - 1)] = cells[RingPlace(size, o, j - 1)]
      BY <2>2, <3>2 DEF Filled, Cells
    <3> QED BY <1>3, <1>4, <1>5, <2>3, <3>3
  <2>4. CASE ~(j <= n)
    <3>1. j = n + 1 /\ j - 1 = n
      BY <2>4
    <3>2. filled[c] = v
      BY DEF Filled, Cells
    <3> QED BY <1>3, <1>4, <1>5, <3>1, <3>2
  <2> QED BY <2>3, <2>4
<1>7. Len(r) = Len(a)
  BY <1>3, <1>4, <1>5
<1>8. r = a
  BY <1>4, <1>5, <1>6, <1>7, SeqEqual
<1> QED
  BY <1>8 DEF r, a, s

\* Leaving the first cell takes the head.
LEMMA RingTakesHead ==
  ASSUME NEW V, NEW size \in Nat, NEW cells \in Cells(V, size),
         NEW o \in 0..size-1, NEW n \in 1..size
  PROVE  /\ RingSeq(cells, size, o, n) # <<>>
         /\ Head(RingSeq(cells, size, o, n)) = cells[o]
         /\ RingSeq(cells, size, RingPlace(size, o, 1), n - 1) = Tail(RingSeq(cells, size, o, n))
<1> DEFINE f == RingPlace(size, o, 1)
           s == RingSeq(cells, size, o, n)
           r == RingSeq(cells, size, f, n - 1)
           a == Tail(s)
<1>1. n \in 0..size /\ n - 1 \in 0..size /\ 0 \in 0..size-1 /\ 1 \in 0..size
  OBVIOUS
<1>2. f \in 0..size-1 /\ RingPlace(size, o, 0) = o
  BY <1>1, PlaceForward
<1>3. \A j \in 0..size-1 : RingPlace(size, f, j) = RingPlace(size, o, j + 1)
  BY PlaceForward
<1> HIDE DEF f
<1>4. s \in Seq(V) /\ Len(s) = n /\ \A j \in 1..n : s[j] = cells[RingPlace(size, o, j - 1)]
  <2>1. s \in Seq(V)
    BY <1>1, RingIsSeq
  <2>2. Len(s) = n
    BY <1>1, RingLen
  <2>3. \A j \in 1..n : s[j] = cells[RingPlace(size, o, j - 1)]
    BY <1>1, RingElement
  <2> QED BY <2>1, <2>2, <2>3
<1>5. /\ r \in Seq(V) /\ Len(r) = n - 1
      /\ \A j \in 1..(n - 1) : r[j] = cells[RingPlace(size, f, j - 1)]
  <2>1. r \in Seq(V)
    BY <1>1, <1>2, RingIsSeq
  <2>2. Len(r) = n - 1
    BY <1>1, <1>2, RingLen
  <2>3. \A j \in 1..(n - 1) : r[j] = cells[RingPlace(size, f, j - 1)]
    BY <1>1, <1>2, RingElement
  <2> QED BY <2>1, <2>2, <2>3
<1> HIDE DEF s, r
<1>6. s # <<>>
  BY <1>4, EmptySeq
<1>7. Head(s) = cells[o]
  <2>1. Head(s) = s[1] /\ 1 \in 1..n /\ 1 - 1 = 0
    BY <1>4, <1>6
  <2> QED BY <1>2, <1>4, <2>1
<1>8. /\ a \in Seq(V) /\ Len(a) = n - 1
      /\ \A j \in 1..(n - 1) : a[j] = s[j + 1]
  BY <1>4, <1>6, HeadTailProperties
<1> HIDE DEF a
<1>9. ASSUME NEW j \in 1..(n - 1) PROVE r[j] = a[j]
  <2>1. /\ j + 1 \in 1..n /\ j - 1 \in 0..size-1
        /\ (j + 1) - 1 = j /\ (j - 1) + 1 = j
    OBVIOUS
  <2>2. s[j + 1] = cells[RingPlace(size, o, j)]
    BY <1>4, <2>1
  <2>3. RingPlace(size, f, j - 1) = RingPlace(size, o, j)
    BY <1>3, <2>1
  <2> QED BY <1>5, <1>8, <2>2, <2>3
<1>10. r = a
  BY <1>5, <1>8, <1>9, SeqEqual
<1> QED
  BY <1>6, <1>7, <1>10 DEF a, r, s, f

\* Filling the cell in front of the first one puts an element first.
LEMMA RingPrepends ==
  ASSUME NEW V, NEW size \in Nat, NEW cells \in Cells(V, size),
         NEW o \in 0..size-1, NEW n \in 0..size-1, NEW v \in V,
         NEW filled \in Cells(V, size), Filled(filled, cells, o, v)
  PROVE  RingSeq(filled, size, o, n + 1)
           = <<v>> \o RingSeq(cells, size, RingPlace(size, o, 1), n)
<1> DEFINE f == RingPlace(size, o, 1)
           s == RingSeq(cells, size, f, n)
           r == RingSeq(filled, size, o, n + 1)
           h == <<v>>
<1>1. n \in 0..size /\ n + 1 \in 0..size /\ 0 \in 0..size-1
  OBVIOUS
<1>2. f \in 0..size-1 /\ RingPlace(size, o, 0) = o
  BY <1>1, PlaceForward
<1>3. \A j \in 0..size-1 : RingPlace(size, f, j) = RingPlace(size, o, j + 1)
  BY PlaceForward
<1>4. filled \in Cells(V, size)
  OBVIOUS
<1> HIDE DEF f
<1>5. s \in Seq(V) /\ Len(s) = n /\ \A j \in 1..n : s[j] = cells[RingPlace(size, f, j - 1)]
  <2>1. s \in Seq(V)
    BY <1>1, <1>2, RingIsSeq
  <2>2. Len(s) = n
    BY <1>1, <1>2, RingLen
  <2>3. \A j \in 1..n : s[j] = cells[RingPlace(size, f, j - 1)]
    BY <1>1, <1>2, RingElement
  <2> QED BY <2>1, <2>2, <2>3
<1>6. /\ r \in Seq(V) /\ Len(r) = n + 1
      /\ \A j \in 1..(n + 1) : r[j] = filled[RingPlace(size, o, j - 1)]
  <2>1. r \in Seq(V)
    BY <1>1, <1>4, RingIsSeq
  <2>2. Len(r) = n + 1
    BY <1>1, <1>4, RingLen
  <2>3. \A j \in 1..(n + 1) : r[j] = filled[RingPlace(size, o, j - 1)]
    BY <1>1, <1>4, RingElement
  <2> QED BY <2>1, <2>2, <2>3
<1>7. h \in Seq(V) /\ Len(h) = 1 /\ h[1] = v
  OBVIOUS
<1> HIDE DEF s, r, h
<1> DEFINE a == h \o s
<1>8. /\ a \in Seq(V) /\ Len(a) = Len(h) + Len(s)
      /\ \A j \in 1..(Len(h) + Len(s)) :
           a[j] = IF j <= Len(h) THEN h[j] ELSE s[j - Len(h)]
  BY <1>5, <1>7, ConcatProperties
<1> HIDE DEF a
<1>9. Len(h) + Len(s) = n + 1
  BY <1>5, <1>7
<1>10. \A j \in 1..(n + 1) : a[j] = IF j <= 1 THEN h[j] ELSE s[j - 1]
  BY <1>7, <1>8, <1>9, Zenon
<1>11. ASSUME NEW j \in 1..(n + 1) PROVE r[j] = a[j]
  <2>1. CASE j = 1
    <3>1. j - 1 = 0 /\ j <= 1
      BY <2>1
    <3>2. filled[o] = v
      BY DEF Filled, Cells
    <3>3. r[j] = v
      BY <1>2, <1>6, <3>1, <3>2
    <3>4. a[j] = h[j]
      BY <1>10, <3>1
    <3> QED BY <1>7, <2>1, <3>3, <3>4
  <2>2. CASE j # 1
    <3>1. /\ j - 1 \in 0..size-1 /\ j - 1 \in 0..size /\ j - 1 # 0
          /\ j - 1 \in 1..n /\ j - 2 \in 0..size-1 /\ ~(j <= 1)
          /\ (j - 2) + 1 = j - 1 /\ (j - 1) - 1 = j - 2
      BY <2>2
    <3>2. RingPlace(size, o, j - 1) # o
      BY <1>1, <1>2, <3>1, PlacesDiffer
    <3>3. RingPlace(size, o, j - 1) \in 0..size-1
      BY <3>1, PlaceValue
    <3>4. s[j - 1] = cells[RingPlace(size, f, j - 2)]
      BY <1>5, <3>1
    <3>5. RingPlace(size, f, j - 2) = RingPlace(size, o, j - 1)
      BY <1>3, <3>1
    <3>6. filled[RingPlace(size, o, j - 1)] = cells[RingPlace(size, o, j - 1)]
      BY <3>2, <3>3 DEF Filled, Cells
    <3>7. r[j] = s[j - 1]
      BY <1>6, <3>4, <3>5, <3>6
    <3>8. a[j] = s[j - 1]
      BY <1>10, <3>1
    <3> QED BY <3>7, <3>8
  <2> QED BY <2>1, <2>2
<1>12. Len(r) = Len(a)
  BY <1>6, <1>8, <1>9
<1>13. r = a
  BY <1>6, <1>8, <1>11, <1>12, SeqEqual
<1> QED
  BY <1>13 DEF r, a, s, h, f

-----------------------------------------------------------------------------
(* The lists of a kernel state, seen as the sets of threads on them. *)

InReadyList(s, t) == \E p \in Prio : Contains(s.ready[p], t)

WaitsSomewhere(s, t) == \E w \in WaitList : Contains(s.wait[w], t)

Dead(s, t) == Contains(s.defunct, t)

\* No list holds a thread twice, a queued thread is on the list of its
\* priority, and the bitmap is that of the lists.
ListFacts(s) ==
  /\ s \in KernelState
  /\ \A p \in Prio : /\ NoRepeat(s.ready[p])
                     /\ \A t \in Thread : Contains(s.ready[p], t) => s.prio[t] = p
  /\ GroupOK(s)
  /\ \A w \in WaitList : NoRepeat(s.wait[w])
  /\ NoRepeat(s.defunct)

\* r differs from s in no field but the lists and the bitmap.
SameFields(r, s) ==
  /\ r.stat = s.stat /\ r.yield = s.yield /\ r.prio = s.prio /\ r.err = s.err
  /\ r.armed = s.armed /\ r.cur = s.cur /\ r.lock = s.lock

\* r differs from s in no list.
SameLists(r, s) ==
  /\ r.ready = s.ready /\ r.group = s.group
  /\ r.wait = s.wait /\ r.defunct = s.defunct

\* The fields a kernel state is made of.
LEMMA KernelStateFields ==
  ASSUME NEW s
  PROVE  s \in KernelState <=>
           /\ s = [ stat |-> s.stat, yield |-> s.yield, prio |-> s.prio,
                    err |-> s.err, armed |-> s.armed, ready |-> s.ready,
                    group |-> s.group, wait |-> s.wait, defunct |-> s.defunct,
                    cur |-> s.cur, lock |-> s.lock ]
           /\ s.stat \in [Thread -> Stat] /\ s.yield \in SUBSET Thread
           /\ s.prio \in [Thread -> Prio] /\ s.err \in [Thread -> Error]
           /\ s.armed \in SUBSET Thread
           /\ s.ready \in [Prio -> Seq(Thread)] /\ s.group \in SUBSET Prio
           /\ s.wait \in [WaitList -> Seq(Thread)]
           /\ s.defunct \in Seq(Thread)
           /\ s.cur \in Thread /\ s.lock \in Nat
BY DEF KernelState

\* A queued thread is on the list of its own priority.
LEMMA QueuedWhere ==
  ASSUME NEW s, ListFacts(s), NEW t \in Thread
  PROVE  InReadyList(s, t) <=> Contains(s.ready[s.prio[t]], t)
<1>1. s.prio[t] \in Prio
  BY DEF ListFacts, KernelState
<1> QED
  BY <1>1 DEF ListFacts, InReadyList

\* rt_list_remove takes the thread off every list.
LEMMA ListRemove ==
  ASSUME NEW s, ListFacts(s), NEW t \in Thread
  PROVE  LET r == rt_list_remove(s, t)
         IN  /\ r \in KernelState /\ SameFields(r, s) /\ r.group = s.group
             /\ \A p \in Prio :
                  /\ NoRepeat(r.ready[p])
                  /\ \A x : Contains(r.ready[p], x) <=> Contains(s.ready[p], x) /\ x # t
             /\ \A w \in WaitList :
                  /\ NoRepeat(r.wait[w])
                  /\ \A x : Contains(r.wait[w], x) <=> Contains(s.wait[w], x) /\ x # t
             /\ NoRepeat(r.defunct)
             /\ \A x : Dead(r, x) <=> Dead(s, x) /\ x # t
<1> DEFINE r == rt_list_remove(s, t)
<1>1. /\ s \in KernelState /\ s.ready \in [Prio -> Seq(Thread)]
      /\ s.wait \in [WaitList -> Seq(Thread)] /\ s.defunct \in Seq(Thread)
  BY KernelStateFields DEF ListFacts
<1>2. /\ r = [s EXCEPT !.ready = r.ready, !.wait = r.wait, !.defunct = r.defunct]
      /\ r.ready = [p \in Prio |-> RemoveFirst(s.ready[p], t)]
      /\ r.wait = [w \in WaitList |-> RemoveFirst(s.wait[w], t)]
      /\ r.defunct = RemoveFirst(s.defunct, t)
  BY <1>1 DEF rt_list_remove, KernelState
<1> HIDE DEF r
<1>3. ASSUME NEW p \in Prio
      PROVE  /\ r.ready[p] \in Seq(Thread) /\ NoRepeat(r.ready[p])
             /\ \A x : Contains(r.ready[p], x) <=> Contains(s.ready[p], x) /\ x # t
  <2>1. s.ready[p] \in Seq(Thread) /\ NoRepeat(s.ready[p])
    BY <1>1 DEF ListFacts
  <2>2. r.ready[p] = RemoveFirst(s.ready[p], t)
    BY <1>2
  <2>3. /\ RemoveFirst(s.ready[p], t) \in Seq(Thread)
        /\ NoRepeat(RemoveFirst(s.ready[p], t))
        /\ \A x : Contains(RemoveFirst(s.ready[p], t), x)
                 <=> Contains(s.ready[p], x) /\ x # t
    BY <2>1, RemoveFirstProperties
  <2> QED BY <2>2, <2>3
<1>4. ASSUME NEW w \in WaitList
      PROVE  /\ r.wait[w] \in Seq(Thread) /\ NoRepeat(r.wait[w])
             /\ \A x : Contains(r.wait[w], x) <=> Contains(s.wait[w], x) /\ x # t
  <2>1. s.wait[w] \in Seq(Thread) /\ NoRepeat(s.wait[w])
    BY <1>1 DEF ListFacts
  <2>2. r.wait[w] = RemoveFirst(s.wait[w], t)
    BY <1>2
  <2>3. /\ RemoveFirst(s.wait[w], t) \in Seq(Thread)
        /\ NoRepeat(RemoveFirst(s.wait[w], t))
        /\ \A x : Contains(RemoveFirst(s.wait[w], t), x)
                 <=> Contains(s.wait[w], x) /\ x # t
    BY <2>1, RemoveFirstProperties
  <2> QED BY <2>2, <2>3
<1>5. /\ r.defunct \in Seq(Thread) /\ NoRepeat(r.defunct)
      /\ \A x : Dead(r, x) <=> Dead(s, x) /\ x # t
  <2>1. NoRepeat(s.defunct)
    BY DEF ListFacts
  <2>2. /\ RemoveFirst(s.defunct, t) \in Seq(Thread)
        /\ NoRepeat(RemoveFirst(s.defunct, t))
        /\ \A x : Contains(RemoveFirst(s.defunct, t), x)
                 <=> Contains(s.defunct, x) /\ x # t
    BY <1>1, <2>1, RemoveFirstProperties
  <2> QED BY <1>2, <2>2 DEF Dead
<1>6. /\ r.ready \in [Prio -> Seq(Thread)]
      /\ r.wait \in [WaitList -> Seq(Thread)]
  BY <1>2, <1>3, <1>4
<1>7. r \in KernelState /\ SameFields(r, s) /\ r.group = s.group
  <2> DEFINE rd == r.ready
             wt == r.wait
             df == r.defunct
  <2>1. r = [s EXCEPT !.ready = rd, !.wait = wt, !.defunct = df]
    BY <1>2
  <2>2. /\ rd \in [Prio -> Seq(Thread)] /\ wt \in [WaitList -> Seq(Thread)]
        /\ df \in Seq(Thread)
    BY <1>5, <1>6
  <2> HIDE DEF rd, wt, df
  <2> QED BY <1>1, <2>1, <2>2 DEF KernelState, SameFields
<1>8. /\ \A p \in Prio :
           /\ NoRepeat(r.ready[p])
           /\ \A x : Contains(r.ready[p], x) <=> Contains(s.ready[p], x) /\ x # t
      /\ \A w \in WaitList :
           /\ NoRepeat(r.wait[w])
           /\ \A x : Contains(r.wait[w], x) <=> Contains(s.wait[w], x) /\ x # t
  BY <1>3, <1>4, Zenon
<1> QED
  BY <1>5, <1>7, <1>8, Zenon DEF r

\* rt_list_remove on a thread that is on no ready list needs no care of the
\* bitmap.
LEMMA UnlinkUnqueued ==
  ASSUME NEW s, ListFacts(s), NEW t \in Thread, ~InReadyList(s, t)
  PROVE  LET r == rt_list_remove(s, t)
         IN  /\ ListFacts(r) /\ SameFields(r, s)
             /\ \A x : InReadyList(r, x) <=> InReadyList(s, x)
             /\ \A x : WaitsSomewhere(r, x) <=> WaitsSomewhere(s, x) /\ x # t
             /\ \A x : Dead(r, x) <=> Dead(s, x) /\ x # t
<1> DEFINE r == rt_list_remove(s, t)
<1>1. /\ r \in KernelState /\ SameFields(r, s) /\ r.group = s.group
      /\ \A p \in Prio :
           /\ NoRepeat(r.ready[p])
           /\ \A x : Contains(r.ready[p], x) <=> Contains(s.ready[p], x) /\ x # t
      /\ \A w \in WaitList :
           /\ NoRepeat(r.wait[w])
           /\ \A x : Contains(r.wait[w], x) <=> Contains(s.wait[w], x) /\ x # t
      /\ NoRepeat(r.defunct)
      /\ \A x : Dead(r, x) <=> Dead(s, x) /\ x # t
  BY ListRemove, Zenon
<1> HIDE DEF r
<1>2. \A p \in Prio : \A x : Contains(r.ready[p], x) <=> Contains(s.ready[p], x)
  BY <1>1 DEF InReadyList
<1>3. \A p \in Prio : r.ready[p] = <<>> <=> s.ready[p] = <<>>
  <2> TAKE p \in Prio
  <2>1. r.ready[p] \in Seq(Thread) /\ s.ready[p] \in Seq(Thread)
    BY <1>1 DEF ListFacts, KernelState
  <2> QED BY <1>2, <2>1, HeadList, Zenon
<1>4. GroupOK(r)
  <2>1. s.group = {p \in Prio : s.ready[p] # <<>>}
    BY DEF ListFacts, GroupOK
  <2>2. {p \in Prio : s.ready[p] # <<>>} = {p \in Prio : r.ready[p] # <<>>}
    BY <1>3
  <2> QED BY <1>1, <2>1, <2>2 DEF GroupOK
<1>5. ListFacts(r)
  <2>1. r.prio = s.prio
    BY <1>1 DEF SameFields
  <2>2. \A p \in Prio : \A x \in Thread : Contains(r.ready[p], x) => r.prio[x] = p
    BY <1>2, <2>1 DEF ListFacts
  <2> QED BY <1>1, <1>4, <2>2 DEF ListFacts
<1>6. \A x : InReadyList(r, x) <=> InReadyList(s, x)
  BY <1>2 DEF InReadyList
<1>7. \A x : WaitsSomewhere(r, x) <=> WaitsSomewhere(s, x) /\ x # t
  BY <1>1 DEF WaitsSomewhere
<1> QED
  BY <1>1, <1>5, <1>6, <1>7 DEF r

\* rt_schedule_remove_thread unlinks a thread and keeps the bitmap right.
LEMMA ScheduleRemove ==
  ASSUME NEW s, ListFacts(s), NEW t \in Thread
  PROVE  LET r == rt_schedule_remove_thread(s, t)
         IN  /\ ListFacts(r) /\ SameFields(r, s)
             /\ \A x : InReadyList(r, x) <=> InReadyList(s, x) /\ x # t
             /\ \A x : WaitsSomewhere(r, x) <=> WaitsSomewhere(s, x) /\ x # t
             /\ \A x : Dead(r, x) <=> Dead(s, x) /\ x # t
<1> DEFINE u == rt_list_remove(s, t)
           r == rt_schedule_remove_thread(s, t)
<1>1. /\ u \in KernelState /\ SameFields(u, s) /\ u.group = s.group
      /\ \A p \in Prio :
           /\ NoRepeat(u.ready[p])
           /\ \A x : Contains(u.ready[p], x) <=> Contains(s.ready[p], x) /\ x # t
      /\ \A w \in WaitList :
           /\ NoRepeat(u.wait[w])
           /\ \A x : Contains(u.wait[w], x) <=> Contains(s.wait[w], x) /\ x # t
      /\ NoRepeat(u.defunct)
      /\ \A x : Dead(u, x) <=> Dead(s, x) /\ x # t
  BY ListRemove, Zenon
<1>2. r = [u EXCEPT !.group = IF u.ready[u.prio[t]] = <<>>
                              THEN @ \ {u.prio[t]} ELSE @]
  BY DEF rt_schedule_remove_thread
<1> HIDE DEF u, r
<1>3. /\ r \in KernelState /\ SameFields(r, s)
      /\ r.ready = u.ready /\ r.wait = u.wait /\ r.defunct = u.defunct
      /\ r.group = IF u.ready[u.prio[t]] = <<>> THEN u.group \ {u.prio[t]} ELSE u.group
  BY <1>1, <1>2 DEF KernelState, SameFields
<1>4. \A p \in Prio : p # s.prio[t] => (r.ready[p] = <<>> <=> s.ready[p] = <<>>)
  <2> SUFFICES ASSUME NEW p \in Prio, p # s.prio[t]
               PROVE  r.ready[p] = <<>> <=> s.ready[p] = <<>>
    OBVIOUS
  <2>1. r.ready[p] \in Seq(Thread) /\ s.ready[p] \in Seq(Thread)
    BY <1>3 DEF ListFacts, KernelState
  <2>2. ~Contains(s.ready[p], t)
    BY DEF ListFacts
  <2>3. \A x : Contains(r.ready[p], x) <=> Contains(s.ready[p], x)
    BY <1>1, <1>3, <2>2
  <2> QED BY <2>1, <2>3, HeadList, Zenon
<1>5. r.ready[s.prio[t]] # <<>> => s.ready[s.prio[t]] # <<>>
  <2>1. s.prio[t] \in Prio
    BY DEF ListFacts, KernelState
  <2>2. r.ready[s.prio[t]] \in Seq(Thread) /\ s.ready[s.prio[t]] \in Seq(Thread)
    BY <1>3, <2>1 DEF ListFacts, KernelState
  <2>3. \A x : Contains(r.ready[s.prio[t]], x) => Contains(s.ready[s.prio[t]], x)
    BY <1>1, <1>3, <2>1
  <2> QED BY <2>2, <2>3, HeadList, Zenon
<1>6. GroupOK(r)
  <2>1. s.group = {p \in Prio : s.ready[p] # <<>>} /\ s.prio[t] \in Prio
    BY DEF ListFacts, GroupOK, KernelState
  <2>2. /\ u.prio = s.prio /\ u.group = s.group
        /\ r.group = IF r.ready[s.prio[t]] = <<>> THEN s.group \ {s.prio[t]} ELSE s.group
    BY <1>1, <1>3 DEF SameFields
  <2>3. \A p \in Prio : p \in r.group <=> r.ready[p] # <<>>
    BY <1>4, <1>5, <2>1, <2>2
  <2>4. r.group \subseteq Prio
    BY <2>1, <2>2
  <2> QED BY <2>3, <2>4 DEF GroupOK
<1>7. ListFacts(r)
  <2>1. r.prio = s.prio
    BY <1>3 DEF SameFields
  <2>2. \A p \in Prio : \A x \in Thread : Contains(r.ready[p], x) => r.prio[x] = p
    BY <1>1, <1>3, <2>1 DEF ListFacts
  <2> QED BY <1>1, <1>3, <1>6, <2>2 DEF ListFacts
<1>8. \A x : InReadyList(r, x) <=> InReadyList(s, x) /\ x # t
  BY <1>1, <1>3 DEF InReadyList
<1>9. \A x : WaitsSomewhere(r, x) <=> WaitsSomewhere(s, x) /\ x # t
  BY <1>1, <1>3 DEF WaitsSomewhere
<1>10. \A x : Dead(r, x) <=> Dead(s, x) /\ x # t
  BY <1>1, <1>3 DEF Dead
<1> QED
  BY <1>3, <1>7, <1>8, <1>9, <1>10 DEF r

\* A change of fields that are not lists or priorities changes no list fact.
LEMMA FieldsChange ==
  ASSUME NEW s, ListFacts(s), NEW r \in KernelState, SameLists(r, s), r.prio = s.prio
  PROVE  /\ ListFacts(r)
         /\ \A x : InReadyList(r, x) <=> InReadyList(s, x)
         /\ \A x : WaitsSomewhere(r, x) <=> WaitsSomewhere(s, x)
         /\ \A x : Dead(r, x) <=> Dead(s, x)
BY DEF ListFacts, SameLists, GroupOK, InReadyList, WaitsSomewhere, Dead

\* The priority of a thread on no ready list may change freely.
LEMMA PriorityChange ==
  ASSUME NEW s, ListFacts(s), NEW t \in Thread, ~InReadyList(s, t), NEW q \in Prio,
         NEW r, r = [s EXCEPT !.prio[t] = q]
  PROVE  /\ ListFacts(r) /\ SameLists(r, s)
         /\ r.stat = s.stat /\ r.yield = s.yield /\ r.err = s.err
         /\ r.armed = s.armed /\ r.cur = s.cur /\ r.lock = s.lock
         /\ \A x : InReadyList(r, x) <=> InReadyList(s, x)
         /\ \A x : WaitsSomewhere(r, x) <=> WaitsSomewhere(s, x)
         /\ \A x : Dead(r, x) <=> Dead(s, x)
<1>1. s \in KernelState
  BY DEF ListFacts
<1>2. /\ r \in KernelState /\ SameLists(r, s)
      /\ r.stat = s.stat /\ r.yield = s.yield /\ r.err = s.err
      /\ r.armed = s.armed /\ r.cur = s.cur /\ r.lock = s.lock
      /\ \A x \in Thread : x # t => r.prio[x] = s.prio[x]
  BY <1>1 DEF KernelState, SameLists
<1>3. \A p \in Prio : \A x \in Thread : Contains(r.ready[p], x) => r.prio[x] = p
  BY <1>2 DEF ListFacts, SameLists, InReadyList
<1>4. ListFacts(r)
  BY <1>2, <1>3 DEF ListFacts, SameLists, GroupOK
<1> QED
  BY <1>2, <1>4 DEF SameLists, InReadyList, WaitsSomewhere, Dead

\* rt_thread_defunct_enqueue on a thread that is not yet dead.
LEMMA DefunctEnqueue ==
  ASSUME NEW s, ListFacts(s), NEW t \in Thread, ~Dead(s, t)
  PROVE  LET r == rt_thread_defunct_enqueue(s, t)
         IN  /\ ListFacts(r) /\ SameFields(r, s)
             /\ \A x : InReadyList(r, x) <=> InReadyList(s, x)
             /\ \A x : WaitsSomewhere(r, x) <=> WaitsSomewhere(s, x)
             /\ \A x : Dead(r, x) <=> Dead(s, x) \/ x = t
<1> DEFINE r == rt_thread_defunct_enqueue(s, t)
<1>1. s \in KernelState /\ s.defunct \in Seq(Thread) /\ NoRepeat(s.defunct)
  BY DEF ListFacts, KernelState
<1>2. /\ Cons(t, s.defunct) \in Seq(Thread) /\ NoRepeat(Cons(t, s.defunct))
      /\ \A x : Contains(Cons(t, s.defunct), x) <=> Contains(s.defunct, x) \/ x = t
  BY <1>1, ConsList DEF Dead
<1>3. /\ r \in KernelState /\ SameFields(r, s) /\ r.ready = s.ready
      /\ r.group = s.group /\ r.wait = s.wait /\ r.defunct = Cons(t, s.defunct)
  BY <1>1, <1>2 DEF KernelState, SameFields, rt_thread_defunct_enqueue
<1> HIDE DEF r
<1>4. ListFacts(r)
  BY <1>2, <1>3 DEF ListFacts, GroupOK, SameFields
<1> QED
  BY <1>2, <1>3, <1>4 DEF r, InReadyList, WaitsSomewhere, Dead

\* rt_schedule_insert_thread links a thread that has lost the processor, at
\* either end of the list of its priority, and sets the bit.
LEMMA ScheduleInsert ==
  ASSUME NEW s, ListFacts(s), NEW t \in Thread, ~InReadyList(s, t), t # s.cur
  PROVE  LET r == rt_schedule_insert_thread(s, t)
         IN  /\ ListFacts(r) /\ r.stat = [s.stat EXCEPT ![t] = "ready"]
             /\ r.yield = s.yield /\ r.prio = s.prio /\ r.err = s.err
             /\ r.armed = s.armed /\ r.cur = s.cur /\ r.lock = s.lock
             /\ \A x : InReadyList(r, x) <=> InReadyList(s, x) \/ x = t
             /\ \A x : WaitsSomewhere(r, x) <=> WaitsSomewhere(s, x)
             /\ \A x : Dead(r, x) <=> Dead(s, x)
<1> DEFINE r == rt_schedule_insert_thread(s, t)
           q == s.prio[t]
           old == s.ready[q]
           new == IF t \in s.yield THEN Append(old, t) ELSE Cons(t, old)
<1>1. s \in KernelState /\ q \in Prio /\ old \in Seq(Thread) /\ NoRepeat(old)
  BY DEF ListFacts, KernelState
<1>2. ~Contains(old, t)
  BY <1>1 DEF InReadyList
<1>3. /\ new \in Seq(Thread) /\ NoRepeat(new)
      /\ \A x : Contains(new, x) <=> Contains(old, x) \/ x = t
  <2> HIDE DEF old
  <2>1. CASE t \in s.yield
    BY <1>1, <1>2, <2>1, AppendList
  <2>2. CASE t \notin s.yield
    BY <1>1, <1>2, <2>2, ConsList
  <2> QED BY <2>1, <2>2
<1>4. r = [s EXCEPT !.stat[t] = "ready", !.ready[q] = new, !.group = @ \union {q}]
  BY <1>1 DEF rt_schedule_insert_thread, KernelState
<1>5. new # <<>>
  BY <1>3, HeadList
<1> HIDE DEF r, new
<1>6. /\ r \in KernelState /\ r.stat = [s.stat EXCEPT ![t] = "ready"]
      /\ r.yield = s.yield /\ r.prio = s.prio /\ r.err = s.err
      /\ r.armed = s.armed /\ r.cur = s.cur /\ r.lock = s.lock
      /\ r.wait = s.wait /\ r.defunct = s.defunct
      /\ r.ready = [s.ready EXCEPT ![q] = new] /\ r.group = s.group \union {q}
  BY <1>1, <1>3, <1>4 DEF KernelState, Stat
<1>7. /\ r.ready[q] = new
      /\ \A p \in Prio : p # q => r.ready[p] = s.ready[p]
  BY <1>1, <1>6 DEF KernelState
<1> HIDE DEF old
<1>8. \A p \in Prio : /\ NoRepeat(r.ready[p])
                      /\ \A x \in Thread : Contains(r.ready[p], x) => r.prio[x] = p
  BY <1>3, <1>6, <1>7 DEF ListFacts, old
<1>9. GroupOK(r)
  <2>1. s.group = {p \in Prio : s.ready[p] # <<>>}
    BY DEF ListFacts, GroupOK
  <2>2. \A p \in Prio : p \in r.group <=> r.ready[p] # <<>>
    BY <1>5, <1>6, <1>7, <2>1
  <2> QED BY <1>1, <1>6, <2>1, <2>2 DEF GroupOK
<1>10. ListFacts(r)
  BY <1>6, <1>8, <1>9 DEF ListFacts
<1>11. \A x : InReadyList(r, x) <=> InReadyList(s, x) \/ x = t
  BY <1>1, <1>3, <1>7 DEF InReadyList, old
<1> QED
  BY <1>6, <1>10, <1>11 DEF r, WaitsSomewhere, Dead

-----------------------------------------------------------------------------
(* The stat fields and the lists of a kernel state. *)

\* Who may be queued, dead, timed, running and current; the idle thread is
\* ready or running.
StatFacts(s) ==
  /\ \A t \in Thread : InReadyList(s, t) => s.stat[t] = "ready" /\ t # s.cur
  /\ \A t \in Thread : Dead(s, t) <=> s.stat[t] = "close"
  /\ \A t \in s.armed : s.stat[t] = "suspend"
  /\ \A t \in Thread : s.stat[t] = "running" => t = s.cur
  /\ s.stat[s.cur] \in {"running", "suspend", "close"}
  /\ s.stat[Idle] \in {"ready", "running"}
  /\ Idle # s.cur => InReadyList(s, Idle)

KernelInv(s) == ListFacts(s) /\ StatFacts(s)

\* The lists and the stat fields of a state with KernelInv agree.
LEMMA KernelInvLists ==
  ASSUME NEW s, KernelInv(s), \A t \in Thread : ~WaitsSomewhere(s, t)
  PROVE  ListsOK(s)
<1>1. s \in KernelState
  BY DEF KernelInv, ListFacts
<1>2. ReadyListsOK(s)
  <2> SUFFICES ASSUME NEW p \in Prio, NEW i \in 1..Len(s.ready[p])
               PROVE  LET t == s.ready[p][i]
                      IN  s.stat[t] = "ready" /\ s.prio[t] = p /\ t # s.cur
    BY DEF ReadyListsOK, KernelInv, ListFacts
  <2> DEFINE t == s.ready[p][i]
  <2>1. t \in Thread /\ Contains(s.ready[p], t)
    BY <1>1, ElementOfSeq DEF KernelState, Contains
  <2> QED BY <2>1 DEF KernelInv, ListFacts, StatFacts, InReadyList
<1>3. WaitListsOK(s)
  <2>1. \A w \in WaitList : NoRepeat(s.wait[w])
    BY DEF KernelInv, ListFacts
  <2>2. ASSUME NEW w \in WaitList, NEW i \in 1..Len(s.wait[w]) PROVE FALSE
    <3>1. s.wait[w][i] \in Thread /\ Contains(s.wait[w], s.wait[w][i])
      BY <1>1, ElementOfSeq DEF KernelState, Contains
    <3> QED BY <3>1 DEF WaitsSomewhere
  <2> QED BY <2>1, <2>2 DEF WaitListsOK
<1>4. DefunctOK(s)
  <2> SUFFICES ASSUME NEW i \in 1..Len(s.defunct)
               PROVE  s.stat[s.defunct[i]] = "close"
    BY DEF DefunctOK, KernelInv, ListFacts
  <2>1. s.defunct[i] \in Thread /\ Contains(s.defunct, s.defunct[i])
    BY <1>1, ElementOfSeq DEF KernelState, Contains
  <2> QED BY <2>1 DEF KernelInv, StatFacts, Dead
<1> QED
  BY <1>2, <1>3, <1>4 DEF ListsOK, KernelInv, ListFacts

\* Waking a thread that is neither queued, timed nor dead.
LEMMA WakeThread ==
  ASSUME NEW s, KernelInv(s), NEW t \in Thread,
         ~InReadyList(s, t), t \notin s.armed, ~Dead(s, t)
  PROVE  LET r == rt_schedule_insert_thread(s, t)
         IN  /\ KernelInv(r)
             /\ r.stat = [s.stat EXCEPT ![t] = IF t = s.cur THEN "running" ELSE "ready"]
             /\ r.armed = s.armed /\ r.cur = s.cur /\ r.lock = s.lock /\ r.prio = s.prio
             /\ \A x : InReadyList(r, x) <=> InReadyList(s, x) \/ (x = t /\ t # s.cur)
             /\ \A x : WaitsSomewhere(r, x) <=> WaitsSomewhere(s, x)
<1> DEFINE r == rt_schedule_insert_thread(s, t)
<1>1. s \in KernelState
  BY DEF KernelInv, ListFacts
<1>2. CASE t = s.cur
  <2>1. r = [s EXCEPT !.stat[t] = "running"]
    BY <1>2 DEF rt_schedule_insert_thread
  <2> HIDE DEF r
  <2>2. /\ r \in KernelState /\ SameLists(r, s)
        /\ r.stat = [s.stat EXCEPT ![t] = "running"]
        /\ r.armed = s.armed /\ r.cur = s.cur /\ r.lock = s.lock /\ r.prio = s.prio
    BY <1>1, <2>1 DEF KernelState, Stat, SameLists
  <2>3. /\ ListFacts(r)
        /\ \A x : InReadyList(r, x) <=> InReadyList(s, x)
        /\ \A x : WaitsSomewhere(r, x) <=> WaitsSomewhere(s, x)
        /\ \A x : Dead(r, x) <=> Dead(s, x)
    BY <2>2, FieldsChange DEF KernelInv
  <2>4. StatFacts(r)
    BY <1>1, <1>2, <2>2, <2>3 DEF KernelInv, StatFacts, KernelState
  <2> QED BY <1>2, <2>2, <2>3, <2>4 DEF KernelInv, r
<1>3. CASE t # s.cur
  <2>1. /\ ListFacts(r) /\ r.stat = [s.stat EXCEPT ![t] = "ready"]
        /\ r.armed = s.armed /\ r.cur = s.cur /\ r.lock = s.lock /\ r.prio = s.prio
        /\ \A x : InReadyList(r, x) <=> InReadyList(s, x) \/ x = t
        /\ \A x : WaitsSomewhere(r, x) <=> WaitsSomewhere(s, x)
        /\ \A x : Dead(r, x) <=> Dead(s, x)
    BY <1>3, ScheduleInsert DEF KernelInv
  <2> HIDE DEF r
  <2>2. StatFacts(r)
    BY <1>1, <1>3, <2>1 DEF KernelInv, StatFacts, KernelState
  <2> QED BY <1>3, <2>1, <2>2 DEF KernelInv, r
<1> QED
  BY <1>2, <1>3

\* What rt_schedule may do: the threads it moves are ready or running before
\* and after, the processor goes to a queued thread, and never with the
\* scheduler locked; a closed thread with the scheduler unlocked loses it.
Scheduled(r, s) ==
  /\ r.lock = s.lock /\ r.armed = s.armed /\ r.prio = s.prio
  /\ \A t \in Thread : \/ r.stat[t] = s.stat[t]
                       \/ /\ r.stat[t] \in {"ready", "running"}
                          /\ s.stat[t] \in {"ready", "running"}
  /\ r.cur = s.cur \/ (s.lock = 0 /\ InReadyList(s, r.cur))
  /\ s.stat[s.cur] = "close" /\ s.lock = 0 => r.cur # s.cur
  /\ \A t \in Thread : t # s.cur /\ ~InReadyList(s, t) => ~InReadyList(r, t)
  /\ \A t \in Thread : r.stat[t] = "ready" /\ ~InReadyList(r, t) =>
                       s.stat[t] = "ready" /\ ~InReadyList(s, t)
  /\ \A t \in Thread : WaitsSomewhere(r, t) => WaitsSomewhere(s, t)

\* The head of the highest ready list has the highest ready priority.
LEMMA HighestReady ==
  ASSUME NEW s, ListFacts(s), s.group # {}
  PROVE  LET h == Head(s.ready[HighestPrio(s)])
         IN  h \in Thread /\ InReadyList(s, h) /\ s.prio[h] = HighestPrio(s)
<1> DEFINE p == HighestPrio(s)
<1>1. s \in KernelState /\ s.group = {q \in Prio : s.ready[q] # <<>>}
  BY DEF ListFacts, GroupOK
<1>2. s.group \in SUBSET Nat
  BY <1>1, PrioAssumption
<1>3. p \in s.group
  BY <1>2, MinProperties DEF HighestPrio
<1> HIDE DEF p
<1>4. p \in Prio /\ s.ready[p] # <<>> /\ s.ready[p] \in Seq(Thread)
  BY <1>1, <1>3 DEF KernelState
<1>5. Head(s.ready[p]) \in Thread /\ Contains(s.ready[p], Head(s.ready[p]))
  BY <1>4, HeadList
<1>6. s.prio[Head(s.ready[p])] = p
  BY <1>4, <1>5 DEF ListFacts
<1> QED
  BY <1>4, <1>5, <1>6 DEF InReadyList, p

\* No queued thread has a higher priority than the bitmap says.
LEMMA HighestIsLeast ==
  ASSUME NEW s, ListFacts(s), NEW t \in Thread, InReadyList(s, t)
  PROVE  /\ s.prio[t] \in s.group
         /\ HighestPrio(s) \in Nat /\ HighestPrio(s) <= s.prio[t]
<1>1. PICK p \in Prio : Contains(s.ready[p], t)
  BY DEF InReadyList
<1>2. s.prio[t] = p /\ s.ready[p] \in Seq(Thread)
  BY <1>1 DEF ListFacts, KernelState
<1>3. s.ready[p] # <<>>
  BY <1>1, <1>2, HeadList
<1>4. p \in s.group
  BY <1>3 DEF ListFacts, GroupOK
<1>5. s.group \in SUBSET Nat
  BY PrioAssumption DEF ListFacts, GroupOK
<1>6. HighestPrio(s) \in s.group /\ HighestPrio(s) <= p
  BY <1>4, <1>5, MinProperties DEF HighestPrio
<1> QED
  BY <1>2, <1>4, <1>5, <1>6

\* The processor has gone to thread `to', and the running thread that lost it
\* is queued.
Switched(r, s, to) ==
  /\ r.cur = to /\ r.stat[to] = "running" /\ r.prio = s.prio
  /\ \A x : InReadyList(r, x) => InReadyList(s, x) \/ (x = s.cur /\ s.stat[s.cur] = "running")

\* The two outcomes of rt_schedule with the scheduler unlocked: keep the
\* current thread ...
LEMMA KeepCurrent ==
  ASSUME NEW s, KernelInv(s), s.stat[s.cur] = "running"
  PROVE  LET r == rt_schedule_remove_thread(s, s.cur)
         IN  KernelInv(r) /\ Scheduled(r, s)
<1> DEFINE r == rt_schedule_remove_thread(s, s.cur)
<1>1. s \in KernelState /\ ListFacts(s) /\ StatFacts(s) /\ s.cur \in Thread
  BY DEF KernelInv, ListFacts, KernelState
<1>2. /\ ListFacts(r) /\ SameFields(r, s)
      /\ \A x : InReadyList(r, x) <=> InReadyList(s, x) /\ x # s.cur
      /\ \A x : WaitsSomewhere(r, x) <=> WaitsSomewhere(s, x) /\ x # s.cur
      /\ \A x : Dead(r, x) <=> Dead(s, x) /\ x # s.cur
  BY <1>1, ScheduleRemove
<1> HIDE DEF r
<1>3. StatFacts(r)
  BY <1>1, <1>2 DEF StatFacts, SameFields
<1>4. Scheduled(r, s)
  BY <1>1, <1>2 DEF StatFacts, SameFields, Scheduled
<1> QED
  BY <1>2, <1>3, <1>4 DEF KernelInv, r

\* ... or switch to a queued thread.
LEMMA SwitchThread ==
  ASSUME NEW s, KernelInv(s), s.lock = 0, NEW to \in Thread, InReadyList(s, to)
  PROVE  LET r == SwitchTo(s, to)
         IN  KernelInv(r) /\ Scheduled(r, s) /\ Switched(r, s, to)
<1> DEFINE from   == s.cur
           moved  == [s EXCEPT !.cur = to]
           queued == IF s.stat[from] = "running"
                     THEN rt_schedule_insert_thread(moved, from) ELSE moved
           taken  == rt_schedule_remove_thread(queued, to)
           r      == SwitchTo(s, to)
<1>1. /\ s \in KernelState /\ ListFacts(s) /\ StatFacts(s)
      /\ from \in Thread /\ to # from /\ s.stat[to] = "ready"
      /\ ~InReadyList(s, from)
  BY DEF KernelInv, ListFacts, KernelState, StatFacts
<1>2. r = [taken EXCEPT !.stat[to] = "running"]
  BY DEF SwitchTo
<1> HIDE DEF r, from
<1>3. /\ moved \in KernelState /\ SameLists(moved, s) /\ moved.stat = s.stat
      /\ moved.armed = s.armed /\ moved.cur = to /\ moved.lock = s.lock
      /\ moved.prio = s.prio
  BY <1>1 DEF KernelState, SameLists
<1> HIDE DEF moved
<1>4. /\ ListFacts(moved)
      /\ \A x : InReadyList(moved, x) <=> InReadyList(s, x)
      /\ \A x : WaitsSomewhere(moved, x) <=> WaitsSomewhere(s, x)
      /\ \A x : Dead(moved, x) <=> Dead(s, x)
  BY <1>1, <1>3, FieldsChange
<1>5. /\ ListFacts(queued)
      /\ queued.stat = IF s.stat[from] = "running"
                       THEN [s.stat EXCEPT ![from] = "ready"] ELSE s.stat
      /\ queued.armed = s.armed /\ queued.cur = to /\ queued.lock = s.lock
      /\ queued.prio = s.prio
      /\ \A x : InReadyList(queued, x) <=>
                  InReadyList(s, x) \/ (x = from /\ s.stat[from] = "running")
      /\ \A x : WaitsSomewhere(queued, x) <=> WaitsSomewhere(s, x)
      /\ \A x : Dead(queued, x) <=> Dead(s, x)
  <2>1. CASE s.stat[from] = "running"
    <3>1. ~InReadyList(moved, from) /\ from # moved.cur
      BY <1>1, <1>3, <1>4
    <3> QED BY <1>1, <1>3, <1>4, <2>1, <3>1, ScheduleInsert
  <2>2. CASE s.stat[from] # "running"
    BY <1>3, <1>4, <2>2
  <2> QED BY <2>1, <2>2
<1> HIDE DEF queued
<1>6. /\ ListFacts(taken) /\ SameFields(taken, queued)
      /\ \A x : InReadyList(taken, x) <=> InReadyList(queued, x) /\ x # to
      /\ \A x : WaitsSomewhere(taken, x) <=> WaitsSomewhere(queued, x) /\ x # to
      /\ \A x : Dead(taken, x) <=> Dead(queued, x) /\ x # to
  BY <1>5, ScheduleRemove
<1> HIDE DEF taken
<1>7. /\ r \in KernelState /\ SameLists(r, taken)
      /\ r.stat = [taken.stat EXCEPT ![to] = "running"]
      /\ r.armed = taken.armed /\ r.cur = taken.cur /\ r.lock = taken.lock
      /\ r.prio = taken.prio
  <2>1. taken \in KernelState
    BY <1>6 DEF ListFacts
  <2> QED BY <1>2, <2>1 DEF KernelState, SameLists, Stat
<1>8. /\ ListFacts(r)
      /\ \A x : InReadyList(r, x) <=> InReadyList(taken, x)
      /\ \A x : WaitsSomewhere(r, x) <=> WaitsSomewhere(taken, x)
      /\ \A x : Dead(r, x) <=> Dead(taken, x)
  BY <1>6, <1>7, FieldsChange
<1>9. /\ r.armed = s.armed /\ r.cur = to /\ r.lock = s.lock /\ r.prio = s.prio
      /\ r.stat = [queued.stat EXCEPT ![to] = "running"]
      /\ \A x : InReadyList(r, x) <=> x # to /\
                  (InReadyList(s, x) \/ (x = from /\ s.stat[from] = "running"))
      /\ \A x : WaitsSomewhere(r, x) => WaitsSomewhere(s, x)
      /\ \A x : Dead(r, x) <=> Dead(s, x) /\ x # to
  BY <1>5, <1>6, <1>7, <1>8 DEF SameFields
<1>10. \A x \in Thread :
         r.stat[x] = IF x = to THEN "running"
                     ELSE IF x = from /\ s.stat[from] = "running" THEN "ready"
                     ELSE s.stat[x]
  BY <1>1, <1>5, <1>9 DEF KernelState
<1>11. StatFacts(r)
  <2>1. \A t \in Thread : InReadyList(r, t) => r.stat[t] = "ready" /\ t # r.cur
    BY <1>1, <1>9, <1>10 DEF StatFacts
  <2>2. \A t \in Thread : Dead(r, t) <=> r.stat[t] = "close"
    BY <1>1, <1>9, <1>10 DEF StatFacts
  <2>3. ASSUME NEW t \in r.armed PROVE r.stat[t] = "suspend"
    <3>1. t \in Thread
      BY <1>8, <1>7 DEF KernelState
    <3>2. s.stat[t] = "suspend"
      BY <1>1, <1>9 DEF StatFacts
    <3> QED BY <1>1, <1>10, <3>1, <3>2
  <2>4. \A t \in Thread : r.stat[t] = "running" => t = r.cur
    BY <1>1, <1>9, <1>10 DEF StatFacts, from
  <2>5. r.stat[r.cur] = "running"
    BY <1>9, <1>10
  <2>6. /\ r.stat[Idle] \in {"ready", "running"}
        /\ Idle # r.cur => InReadyList(r, Idle)
    BY <1>1, <1>9, <1>10, ThreadAssumption DEF StatFacts, from
  <2> QED BY <2>1, <2>2, <2>3, <2>4, <2>5, <2>6 DEF StatFacts
<1>12. Scheduled(r, s)
  BY <1>1, <1>9, <1>10 DEF Scheduled, from
<1>13. Switched(r, s, to)
  BY <1>9, <1>10 DEF Switched, from
<1> QED
  BY <1>8, <1>11, <1>12, <1>13 DEF KernelInv, r

\* rt_schedule keeps the kernel state sound.
LEMMA ScheduleStep ==
  ASSUME NEW s, KernelInv(s)
  PROVE  KernelInv(rt_schedule(s)) /\ Scheduled(rt_schedule(s), s)
<1> DEFINE c == [s EXCEPT !.yield = IF s.stat[s.cur] = "running"
                                    THEN @ \ {s.cur} ELSE @]
           to == Head(s.ready[HighestPrio(s)])
<1>1. /\ s \in KernelState /\ ListFacts(s) /\ StatFacts(s) /\ s.cur \in Thread
  BY DEF KernelInv, ListFacts, KernelState
<1>2. /\ c \in KernelState /\ SameLists(c, s) /\ c.stat = s.stat
      /\ c.armed = s.armed /\ c.cur = s.cur /\ c.lock = s.lock /\ c.prio = s.prio
  BY <1>1 DEF KernelState, SameLists
<1>3. rt_schedule(s) =
        IF s.lock # 0 \/ s.group = {} THEN s
        ELSE IF KeepsCpu(s) THEN rt_schedule_remove_thread(c, s.cur)
        ELSE SwitchTo(c, to)
  BY DEF rt_schedule
<1> HIDE DEF c
<1>4. /\ ListFacts(c)
      /\ \A x : InReadyList(c, x) <=> InReadyList(s, x)
      /\ \A x : WaitsSomewhere(c, x) <=> WaitsSomewhere(s, x)
      /\ \A x : Dead(c, x) <=> Dead(s, x)
  BY <1>1, <1>2, FieldsChange
<1>5. KernelInv(c)
  BY <1>1, <1>2, <1>4 DEF KernelInv, StatFacts
<1>6. ASSUME NEW r, Scheduled(r, c) PROVE Scheduled(r, s)
  BY <1>2, <1>4, <1>6 DEF Scheduled
<1>7. CASE s.lock # 0 \/ s.group = {}
  <2>1. s.stat[s.cur] = "close" => s.lock # 0
    <3>1. s.stat[s.cur] = "close" => InReadyList(s, Idle)
      BY <1>1 DEF StatFacts
    <3>2. InReadyList(s, Idle) => s.group # {}
      <4> SUFFICES ASSUME NEW p \in Prio, Contains(s.ready[p], Idle)
                   PROVE  s.group # {}
        BY DEF InReadyList
      <4>1. s.ready[p] # <<>>
        BY <1>1, HeadList DEF KernelState
      <4> QED BY <1>1, <4>1 DEF ListFacts, GroupOK
    <3> QED BY <1>7, <3>1, <3>2
  <2>2. Scheduled(s, s)
    BY <2>1 DEF Scheduled
  <2> QED BY <1>3, <1>7, <2>2
<1>8. CASE s.lock = 0 /\ s.group # {} /\ KeepsCpu(s)
  <2>1. c.stat[c.cur] = "running"
    BY <1>2, <1>8 DEF KeepsCpu
  <2>2. rt_schedule(s) = rt_schedule_remove_thread(c, c.cur)
    BY <1>2, <1>3, <1>8
  <2> QED BY <1>5, <1>6, <2>1, <2>2, KeepCurrent
<1>9. CASE s.lock = 0 /\ s.group # {} /\ ~KeepsCpu(s)
  <2>1. to \in Thread /\ InReadyList(c, to)
    BY <1>1, <1>4, <1>9, HighestReady
  <2>2. rt_schedule(s) = SwitchTo(c, to)
    BY <1>3, <1>9
  <2> HIDE DEF to
  <2> QED BY <1>2, <1>5, <1>6, <1>9, <2>1, <2>2, SwitchThread
<1> QED
  BY <1>7, <1>8, <1>9

\* The current thread runs and no queued thread has a higher priority.
Unbeaten(s) ==
  /\ s.stat[s.cur] = "running"
  /\ \A t \in Thread : InReadyList(s, t) => s.prio[s.cur] <= s.prio[t]

\* With the scheduler unlocked that is what rt_schedule leaves.
LEMMA ScheduleUnbeaten ==
  ASSUME NEW s, KernelInv(s), s.lock = 0
  PROVE  Unbeaten(rt_schedule(s))
<1> DEFINE c == [s EXCEPT !.yield = IF s.stat[s.cur] = "running"
                                    THEN @ \ {s.cur} ELSE @]
           to == Head(s.ready[HighestPrio(s)])
<1>1. /\ s \in KernelState /\ ListFacts(s) /\ StatFacts(s) /\ s.cur \in Thread
      /\ s.prio \in [Thread -> Nat]
  BY PrioAssumption DEF KernelInv, ListFacts, KernelState
<1>2. /\ c \in KernelState /\ SameLists(c, s) /\ c.stat = s.stat
      /\ c.armed = s.armed /\ c.cur = s.cur /\ c.lock = s.lock /\ c.prio = s.prio
  BY <1>1 DEF KernelState, SameLists
<1>3. rt_schedule(s) =
        IF s.group = {} THEN s
        ELSE IF KeepsCpu(s) THEN rt_schedule_remove_thread(c, s.cur)
        ELSE SwitchTo(c, to)
  BY DEF rt_schedule
<1> HIDE DEF c
<1>4. /\ ListFacts(c)
      /\ \A x : InReadyList(c, x) <=> InReadyList(s, x)
      /\ \A x : WaitsSomewhere(c, x) <=> WaitsSomewhere(s, x)
      /\ \A x : Dead(c, x) <=> Dead(s, x)
  BY <1>1, <1>2, FieldsChange
<1>5. KernelInv(c)
  BY <1>1, <1>2, <1>4 DEF KernelInv, StatFacts
<1>6. CASE s.group = {}
  <2>1. \A t \in Thread : ~InReadyList(s, t)
    BY <1>1, <1>6, HighestIsLeast
  <2>2. s.cur = Idle /\ s.stat[Idle] = "running"
    BY <1>1, <2>1, ThreadAssumption DEF StatFacts
  <2> QED BY <1>3, <1>6, <2>1, <2>2 DEF Unbeaten
<1>7. CASE s.group # {} /\ KeepsCpu(s)
  <2> DEFINE r == rt_schedule_remove_thread(c, s.cur)
  <2>1. /\ SameFields(r, c)
        /\ \A x : InReadyList(r, x) <=> InReadyList(c, x) /\ x # s.cur
    BY <1>1, <1>4, ScheduleRemove
  <2>2. rt_schedule(s) = r
    BY <1>3, <1>7
  <2> HIDE DEF r
  <2>3. r.cur = s.cur /\ r.prio = s.prio /\ r.stat[r.cur] = "running"
    BY <1>2, <1>7, <2>1 DEF SameFields, KeepsCpu
  <2>4. ASSUME NEW t \in Thread, InReadyList(r, t) PROVE s.prio[s.cur] <= s.prio[t]
    <3>1. HighestPrio(s) \in Nat /\ HighestPrio(s) <= s.prio[t]
      BY <1>1, <1>4, <2>1, <2>4, HighestIsLeast
    <3>2. s.prio[s.cur] <= HighestPrio(s)
      BY <1>1, <1>7, <3>1 DEF KeepsCpu
    <3> QED BY <1>1, <3>1, <3>2
  <2> QED BY <2>2, <2>3, <2>4 DEF Unbeaten
<1>8. CASE s.group # {} /\ ~KeepsCpu(s)
  <2> DEFINE r == SwitchTo(c, to)
             h == HighestPrio(s)
  <2>1. to \in Thread /\ InReadyList(s, to) /\ s.prio[to] = h
    BY <1>1, <1>8, HighestReady
  <2>2. h \in Nat
    BY <1>1, <2>1
  <2>3. rt_schedule(s) = r
    BY <1>3, <1>8
  <2> HIDE DEF to
  <2>4. Switched(r, c, to)
    BY <1>2, <1>4, <1>5, <2>1, SwitchThread
  <2> HIDE DEF r
  <2>5. ASSUME NEW t \in Thread, InReadyList(r, t) PROVE h <= s.prio[t]
    <3>1. CASE InReadyList(s, t)
      BY <1>1, <3>1, HighestIsLeast
    <3>2. CASE t = s.cur /\ s.stat[s.cur] = "running"
      <4>1. ~(s.prio[t] < h)
        BY <1>8, <3>2 DEF KeepsCpu
      <4> QED BY <1>1, <2>2, <4>1
    <3> QED BY <1>2, <1>4, <2>4, <2>5, <3>1, <3>2 DEF Switched
  <2> QED BY <1>2, <2>1, <2>3, <2>4, <2>5 DEF Unbeaten, Switched
<1> QED
  BY <1>6, <1>7, <1>8

\* A running thread whose slice is not used up and that loses the processor to
\* a thread of another priority is put in front of its list.
LEMMA SwitchPreempts ==
  ASSUME NEW s, KernelInv(s), NEW to \in Thread, InReadyList(s, to),
         s.stat[s.cur] = "running", s.cur \notin s.yield, s.prio[to] # s.prio[s.cur]
  PROVE  Head(SwitchTo(s, to).ready[s.prio[s.cur]]) = s.cur
<1> DEFINE from   == s.cur
           q      == s.prio[from]
           moved  == [s EXCEPT !.cur = to]
           queued == rt_schedule_insert_thread(moved, from)
           new    == Cons(from, s.ready[q])
<1>1. /\ s \in KernelState /\ ListFacts(s) /\ StatFacts(s)
      /\ from \in Thread /\ q \in Prio /\ to # from
      /\ s.ready \in [Prio -> Seq(Thread)] /\ s.ready[q] \in Seq(Thread)
  BY DEF KernelInv, ListFacts, KernelState, StatFacts
<1>2. SwitchTo(s, to).ready = rt_schedule_remove_thread(queued, to).ready
  BY DEF SwitchTo
<1>3. rt_schedule_remove_thread(queued, to).ready
        = [p \in Prio |-> RemoveFirst(queued.ready[p], to)]
  BY DEF rt_schedule_remove_thread, rt_list_remove
<1>4. queued.ready[q] = new
  <2>1. /\ moved.cur = to /\ moved.yield = s.yield /\ moved.prio = s.prio
        /\ moved.ready = s.ready
    BY <1>1 DEF KernelState
  <2> HIDE DEF moved
  <2>2. queued.ready = [s.ready EXCEPT ![q] = new]
    BY <1>1, <2>1 DEF rt_schedule_insert_thread
  <2> HIDE DEF queued, new
  <2> QED BY <1>1, <2>2
<1>5. ~Contains(new, to)
  <2>1. ~Contains(s.ready[q], to)
    BY <1>1 DEF ListFacts
  <2>2. \A x : Contains(new, x) <=> Contains(s.ready[q], x) \/ x = from
    <3> HIDE DEF q, from
    <3> QED BY <1>1, ConsList
  <2> HIDE DEF new, q, from
  <2> QED BY <1>1, <2>1, <2>2
<1>6. RemoveFirst(new, to) = new
  BY <1>5 DEF RemoveFirst, Contains
<1>7. Head(new) = from
  BY <1>1 DEF Cons
<1> HIDE DEF queued, new
<1> QED
  BY <1>1, <1>2, <1>3, <1>4, <1>6, <1>7

\* So does rt_schedule with a running thread that it preempts.
LEMMA SchedulePreempts ==
  ASSUME NEW s, KernelInv(s), NEW r, r = rt_schedule(s),
         s.stat[s.cur] = "running", r.stat[s.cur] = "ready",
         r.prio[r.cur] < r.prio[s.cur]
  PROVE  Head(r.ready[r.prio[s.cur]]) = s.cur
<1> DEFINE c  == [s EXCEPT !.yield = @ \ {s.cur}]
           to == Head(s.ready[HighestPrio(s)])
<1>1. /\ s \in KernelState /\ ListFacts(s) /\ StatFacts(s) /\ s.cur \in Thread
      /\ s.prio \in [Thread -> Nat]
  BY PrioAssumption DEF KernelInv, ListFacts, KernelState
<1>2. /\ c \in KernelState /\ SameLists(c, s) /\ c.stat = s.stat /\ s.cur \notin c.yield
      /\ c.armed = s.armed /\ c.cur = s.cur /\ c.lock = s.lock /\ c.prio = s.prio
  BY <1>1 DEF KernelState, SameLists
<1>3. r = IF s.lock # 0 \/ s.group = {} THEN s
          ELSE IF KeepsCpu(s) THEN rt_schedule_remove_thread(c, s.cur)
          ELSE SwitchTo(c, to)
  BY DEF rt_schedule
<1> HIDE DEF c
<1>4. /\ ListFacts(c)
      /\ \A x : InReadyList(c, x) <=> InReadyList(s, x)
      /\ \A x : WaitsSomewhere(c, x) <=> WaitsSomewhere(s, x)
      /\ \A x : Dead(c, x) <=> Dead(s, x)
  BY <1>1, <1>2, FieldsChange
<1>5. KernelInv(c)
  BY <1>1, <1>2, <1>4 DEF KernelInv, StatFacts
<1>6. rt_schedule_remove_thread(c, s.cur).stat = s.stat
  BY <1>1, <1>2, <1>4, ScheduleRemove DEF SameFields
<1>7. s.lock = 0 /\ s.group # {} /\ r = SwitchTo(c, to)
  BY <1>3, <1>6
<1>8. to \in Thread /\ InReadyList(c, to)
  BY <1>1, <1>4, <1>7, HighestReady
<1> HIDE DEF to
<1>9. r.cur = to /\ r.prio = s.prio
  BY <1>2, <1>5, <1>7, <1>8, SwitchThread DEF Switched
<1>10. c.prio[to] # c.prio[c.cur]
  BY <1>1, <1>2, <1>8, <1>9
<1>11. Head(SwitchTo(c, to).ready[c.prio[c.cur]]) = c.cur
  BY <1>2, <1>5, <1>8, <1>10, SwitchPreempts
<1> QED
  BY <1>2, <1>7, <1>9, <1>11

-----------------------------------------------------------------------------
(* The functions of thread.c. *)

\* Taking a thread other than the idle thread off the ready lists.
LEMMA UnqueueThread ==
  ASSUME NEW s, KernelInv(s), NEW t \in Thread, t # Idle, ~Dead(s, t)
  PROVE  LET r == rt_schedule_remove_thread(s, t)
         IN  /\ KernelInv(r) /\ SameFields(r, s)
             /\ \A x : InReadyList(r, x) <=> InReadyList(s, x) /\ x # t
             /\ \A x : WaitsSomewhere(r, x) => WaitsSomewhere(s, x)
             /\ \A x : Dead(r, x) <=> Dead(s, x)
<1> DEFINE r == rt_schedule_remove_thread(s, t)
<1>1. /\ ListFacts(r) /\ SameFields(r, s)
      /\ \A x : InReadyList(r, x) <=> InReadyList(s, x) /\ x # t
      /\ \A x : WaitsSomewhere(r, x) <=> WaitsSomewhere(s, x) /\ x # t
      /\ \A x : Dead(r, x) <=> Dead(s, x) /\ x # t
  BY ScheduleRemove DEF KernelInv
<1> HIDE DEF r
<1>2. StatFacts(r)
  BY <1>1 DEF KernelInv, StatFacts, SameFields
<1> QED
  BY <1>1, <1>2 DEF KernelInv, r

\* Unlinking a thread that is not dead and not queued changes no fact.
LEMMA UnlinkThread ==
  ASSUME NEW s, KernelInv(s), NEW t \in Thread, ~InReadyList(s, t), ~Dead(s, t)
  PROVE  LET r == rt_list_remove(s, t)
         IN  /\ KernelInv(r) /\ SameFields(r, s)
             /\ \A x : InReadyList(r, x) <=> InReadyList(s, x)
             /\ \A x : WaitsSomewhere(r, x) => WaitsSomewhere(s, x)
             /\ \A x : Dead(r, x) <=> Dead(s, x)
<1> DEFINE r == rt_list_remove(s, t)
<1>1. /\ ListFacts(r) /\ SameFields(r, s)
      /\ \A x : InReadyList(r, x) <=> InReadyList(s, x)
      /\ \A x : WaitsSomewhere(r, x) <=> WaitsSomewhere(s, x) /\ x # t
      /\ \A x : Dead(r, x) <=> Dead(s, x) /\ x # t
  BY UnlinkUnqueued DEF KernelInv
<1> HIDE DEF r
<1>2. StatFacts(r)
  BY <1>1 DEF KernelInv, StatFacts, SameFields
<1> QED
  BY <1>1, <1>2 DEF KernelInv, r

\* The first half of rt_thread_resume.
LEMMA UnlinkSuspended ==
  ASSUME NEW s, KernelInv(s), NEW t \in Thread, s.stat[t] = "suspend"
  PROVE  LET r == ResumeUnlink(s, t)
         IN  /\ KernelInv(r) /\ r.stat = s.stat /\ r.armed = s.armed \ {t}
             /\ r.cur = s.cur /\ r.lock = s.lock /\ r.prio = s.prio
             /\ \A x : InReadyList(r, x) <=> InReadyList(s, x)
             /\ \A x : WaitsSomewhere(r, x) => WaitsSomewhere(s, x)
<1> DEFINE u == rt_list_remove(s, t)
           r == ResumeUnlink(s, t)
<1>1. ~InReadyList(s, t) /\ ~Dead(s, t)
  BY DEF KernelInv, StatFacts
<1>2. /\ KernelInv(u) /\ SameFields(u, s)
      /\ \A x : InReadyList(u, x) <=> InReadyList(s, x)
      /\ \A x : WaitsSomewhere(u, x) => WaitsSomewhere(s, x)
      /\ \A x : Dead(u, x) <=> Dead(s, x)
  BY <1>1, UnlinkThread
<1>3. r = [u EXCEPT !.armed = @ \ {t}]
  BY DEF ResumeUnlink
<1> HIDE DEF u, r
<1>4. /\ r \in KernelState /\ SameLists(r, u) /\ r.stat = u.stat
      /\ r.armed = u.armed \ {t} /\ r.cur = u.cur /\ r.lock = u.lock /\ r.prio = u.prio
  BY <1>2, <1>3 DEF KernelInv, ListFacts, KernelState, SameLists
<1>5. /\ ListFacts(r)
      /\ \A x : InReadyList(r, x) <=> InReadyList(u, x)
      /\ \A x : WaitsSomewhere(r, x) <=> WaitsSomewhere(u, x)
      /\ \A x : Dead(r, x) <=> Dead(u, x)
  BY <1>2, <1>4, FieldsChange DEF KernelInv
<1>6. StatFacts(r)
  BY <1>2, <1>4, <1>5 DEF KernelInv, StatFacts
<1> QED
  BY <1>2, <1>4, <1>5, <1>6 DEF KernelInv, SameFields, r

\* What waking t does to the state, before any rt_schedule.
Resumed(r, s, t) ==
  /\ KernelInv(r)
  /\ r.stat = [s.stat EXCEPT ![t] = IF t = s.cur THEN "running" ELSE "ready"]
  /\ r.armed = s.armed \ {t} /\ r.cur = s.cur /\ r.lock = s.lock
  /\ \A x : InReadyList(r, x) <=> InReadyList(s, x) \/ (x = t /\ t # s.cur)
  /\ \A x : WaitsSomewhere(r, x) => WaitsSomewhere(s, x)

\* rt_thread_resume wakes a suspended thread.
LEMMA ResumeSuspended ==
  ASSUME NEW s, KernelInv(s), NEW t \in Thread, s.stat[t] = "suspend"
  PROVE  Resumed(rt_thread_resume(s, t), s, t)
<1> DEFINE u == ResumeUnlink(s, t)
           r == rt_schedule_insert_thread(u, t)
<1>1. /\ KernelInv(u) /\ u.stat = s.stat /\ u.armed = s.armed \ {t}
      /\ u.cur = s.cur /\ u.lock = s.lock
      /\ \A x : InReadyList(u, x) <=> InReadyList(s, x)
      /\ \A x : WaitsSomewhere(u, x) => WaitsSomewhere(s, x)
  BY UnlinkSuspended
<1>2. rt_thread_resume(s, t) = r
  BY DEF rt_thread_resume
<1> HIDE DEF u
<1>3. ~InReadyList(u, t) /\ t \notin u.armed /\ ~Dead(u, t)
  BY <1>1 DEF KernelInv, StatFacts
<1>4. /\ KernelInv(r)
      /\ r.stat = [u.stat EXCEPT ![t] = IF t = u.cur THEN "running" ELSE "ready"]
      /\ r.armed = u.armed /\ r.cur = u.cur /\ r.lock = u.lock /\ r.prio = u.prio
      /\ \A x : InReadyList(r, x) <=> InReadyList(u, x) \/ (x = t /\ t # u.cur)
      /\ \A x : WaitsSomewhere(r, x) <=> WaitsSomewhere(u, x)
  BY <1>1, <1>3, WakeThread
<1> HIDE DEF r
<1> QED
  BY <1>1, <1>2, <1>4 DEF Resumed

\* _thread_timeout wakes a thread whose timer is armed and reschedules.
LEMMA TimeoutStep ==
  ASSUME NEW s, KernelInv(s), NEW t \in s.armed
  PROVE  \E w : /\ Resumed(w, s, t)
                /\ _thread_timeout(s, t) = rt_schedule(w)
<1> DEFINE late == [s EXCEPT !.armed = @ \ {t}, !.err[t] = "ETIMEOUT"]
           u    == rt_list_remove(late, t)
           w    == rt_schedule_insert_thread(u, t)
<1>1. /\ s \in KernelState /\ ListFacts(s) /\ StatFacts(s)
      /\ t \in Thread /\ s.stat[t] = "suspend"
  BY DEF KernelInv, ListFacts, StatFacts, KernelState
<1>2. /\ late \in KernelState /\ SameLists(late, s) /\ late.stat = s.stat
      /\ late.armed = s.armed \ {t} /\ late.cur = s.cur /\ late.lock = s.lock
      /\ late.prio = s.prio
  BY <1>1 DEF KernelState, SameLists, Error
<1>3. _thread_timeout(s, t) = rt_schedule(w)
  BY DEF _thread_timeout
<1> HIDE DEF late
<1>4. /\ ListFacts(late)
      /\ \A x : InReadyList(late, x) <=> InReadyList(s, x)
      /\ \A x : WaitsSomewhere(late, x) <=> WaitsSomewhere(s, x)
      /\ \A x : Dead(late, x) <=> Dead(s, x)
  BY <1>1, <1>2, FieldsChange
<1>5. KernelInv(late)
  BY <1>1, <1>2, <1>4 DEF KernelInv, StatFacts
<1>6. ~InReadyList(late, t) /\ ~Dead(late, t)
  BY <1>1, <1>4 DEF StatFacts
<1>7. /\ KernelInv(u) /\ SameFields(u, late)
      /\ \A x : InReadyList(u, x) <=> InReadyList(late, x)
      /\ \A x : WaitsSomewhere(u, x) => WaitsSomewhere(late, x)
      /\ \A x : Dead(u, x) <=> Dead(late, x)
  BY <1>1, <1>5, <1>6, UnlinkThread
<1> HIDE DEF u
<1>8. ~InReadyList(u, t) /\ t \notin u.armed /\ ~Dead(u, t)
  BY <1>2, <1>6, <1>7 DEF SameFields
<1>9. /\ KernelInv(w)
      /\ w.stat = [u.stat EXCEPT ![t] = IF t = u.cur THEN "running" ELSE "ready"]
      /\ w.armed = u.armed /\ w.cur = u.cur /\ w.lock = u.lock /\ w.prio = u.prio
      /\ \A x : InReadyList(w, x) <=> InReadyList(u, x) \/ (x = t /\ t # u.cur)
      /\ \A x : WaitsSomewhere(w, x) <=> WaitsSomewhere(u, x)
  BY <1>1, <1>7, <1>8, WakeThread
<1> HIDE DEF w
<1>10. Resumed(w, s, t)
  BY <1>2, <1>4, <1>7, <1>9 DEF Resumed, SameFields
<1> QED
  BY <1>3, <1>10

\* rt_thread_suspend on the current thread, unless it is closed or idle.
LEMMA SuspendCurrent ==
  ASSUME NEW s, KernelInv(s), s.stat[s.cur] # "close", s.cur # Idle
  PROVE  LET r == rt_thread_suspend(s, s.cur)
         IN  /\ KernelInv(r) /\ r.stat = [s.stat EXCEPT ![s.cur] = "suspend"]
             /\ r.armed \subseteq s.armed /\ r.cur = s.cur /\ r.lock = s.lock
             /\ \A x : InReadyList(r, x) <=> InReadyList(s, x)
             /\ \A x : WaitsSomewhere(r, x) => WaitsSomewhere(s, x)
<1> DEFINE t == s.cur
           u == rt_schedule_remove_thread(s, t)
           r == rt_thread_suspend(s, t)
<1>1. /\ s \in KernelState /\ StatFacts(s) /\ t \in Thread
      /\ ~InReadyList(s, t) /\ ~Dead(s, t) /\ s.stat[t] \in {"running", "suspend"}
  BY DEF KernelInv, ListFacts, StatFacts, KernelState
<1>2. CASE s.stat[t] = "suspend"
  <2>1. r = s
    BY <1>2 DEF rt_thread_suspend
  <2>2. s.stat = [s.stat EXCEPT ![t] = "suspend"]
    BY <1>1, <1>2 DEF KernelState
  <2> QED BY <2>1, <2>2
<1>3. CASE s.stat[t] = "running"
  <2>1. /\ KernelInv(u) /\ SameFields(u, s)
        /\ \A x : InReadyList(u, x) <=> InReadyList(s, x) /\ x # t
        /\ \A x : WaitsSomewhere(u, x) => WaitsSomewhere(s, x)
        /\ \A x : Dead(u, x) <=> Dead(s, x)
    BY <1>1, UnqueueThread
  <2>2. r = [u EXCEPT !.stat[t] = "suspend", !.armed = @ \ {t}]
    BY <1>3 DEF rt_thread_suspend
  <2> HIDE DEF u, r
  <2>3. /\ r \in KernelState /\ SameLists(r, u)
        /\ r.stat = [u.stat EXCEPT ![t] = "suspend"]
        /\ r.armed = u.armed \ {t} /\ r.cur = u.cur /\ r.lock = u.lock /\ r.prio = u.prio
    BY <1>1, <2>1, <2>2 DEF KernelInv, ListFacts, KernelState, SameLists, Stat
  <2>4. /\ ListFacts(r)
        /\ \A x : InReadyList(r, x) <=> InReadyList(u, x)
        /\ \A x : WaitsSomewhere(r, x) <=> WaitsSomewhere(u, x)
        /\ \A x : Dead(r, x) <=> Dead(u, x)
    BY <2>1, <2>3, FieldsChange DEF KernelInv
  <2>5. u.stat = s.stat /\ u.armed = s.armed /\ u.cur = s.cur /\ u.lock = s.lock
    BY <2>1 DEF SameFields
  <2>6. \A x \in Thread : r.stat[x] = IF x = t THEN "suspend" ELSE s.stat[x]
    BY <1>1, <2>3, <2>5 DEF KernelState
  <2>7. StatFacts(r)
    BY <1>1, <2>1, <2>3, <2>4, <2>5, <2>6 DEF StatFacts, KernelState
  <2> QED BY <1>1, <2>1, <2>3, <2>4, <2>5, <2>7 DEF KernelInv, r
<1> QED
  BY <1>1, <1>2, <1>3

\* CloseThread on an unqueued thread that is alive and not the idle thread.
LEMMA CloseUnqueued ==
  ASSUME NEW s, KernelInv(s), NEW t \in Thread, t # Idle, ~InReadyList(s, t), ~Dead(s, t)
  PROVE  LET r == CloseThread(s, t)
         IN  /\ KernelInv(r) /\ r.stat = [s.stat EXCEPT ![t] = "close"]
             /\ r.armed = s.armed \ {t} /\ r.cur = s.cur /\ r.lock = s.lock
             /\ \A x : InReadyList(r, x) <=> InReadyList(s, x)
             /\ \A x : WaitsSomewhere(r, x) <=> WaitsSomewhere(s, x)
<1> DEFINE c == [s EXCEPT !.armed = @ \ {t}, !.stat[t] = "close", !.yield = @ \ {t}]
           r == CloseThread(s, t)
<1>1. /\ s \in KernelState /\ ListFacts(s) /\ StatFacts(s)
      /\ s.cur \in Thread /\ s.armed \subseteq Thread
  BY DEF KernelInv, ListFacts, KernelState
<1>2. /\ c \in KernelState /\ SameLists(c, s)
      /\ c.stat = [s.stat EXCEPT ![t] = "close"]
      /\ c.armed = s.armed \ {t} /\ c.cur = s.cur /\ c.lock = s.lock /\ c.prio = s.prio
  BY <1>1 DEF KernelState, SameLists, Stat
<1>3. r = rt_thread_defunct_enqueue(c, t)
  BY DEF CloseThread
<1> HIDE DEF c, r
<1>4. /\ ListFacts(c)
      /\ \A x : InReadyList(c, x) <=> InReadyList(s, x)
      /\ \A x : WaitsSomewhere(c, x) <=> WaitsSomewhere(s, x)
      /\ \A x : Dead(c, x) <=> Dead(s, x)
  BY <1>1, <1>2, FieldsChange
<1>5. /\ ListFacts(r) /\ SameFields(r, c)
      /\ \A x : InReadyList(r, x) <=> InReadyList(c, x)
      /\ \A x : WaitsSomewhere(r, x) <=> WaitsSomewhere(c, x)
      /\ \A x : Dead(r, x) <=> Dead(c, x) \/ x = t
  BY <1>3, <1>4, DefunctEnqueue
<1>6. \A x \in Thread : r.stat[x] = IF x = t THEN "close" ELSE s.stat[x]
  BY <1>1, <1>2, <1>5 DEF KernelState, SameFields
<1>7. r.armed = s.armed \ {t} /\ r.cur = s.cur /\ r.lock = s.lock
  BY <1>2, <1>5 DEF SameFields
<1>8. StatFacts(r)
  BY <1>1, <1>4, <1>5, <1>6, <1>7, ThreadAssumption DEF StatFacts
<1> QED
  BY <1>2, <1>4, <1>5, <1>7, <1>8 DEF KernelInv, SameFields, r

\* ChangePriority keeps the lists sound; a ready thread stays ready, queued.
LEMMA ChangePriorityStep ==
  ASSUME NEW s, KernelInv(s), NEW t \in Thread, t # Idle, NEW q \in Prio
  PROVE  LET r == ChangePriority(s, t, q)
         IN  /\ KernelInv(r) /\ r.stat = s.stat /\ r.armed = s.armed
             /\ r.cur = s.cur /\ r.lock = s.lock
             /\ \A x : InReadyList(r, x) <=> InReadyList(s, x) \/ (x = t /\ s.stat[t] = "ready")
             /\ \A x : WaitsSomewhere(r, x) => WaitsSomewhere(s, x)
<1> DEFINE r == ChangePriority(s, t, q)
<1>1. s \in KernelState /\ ListFacts(s) /\ StatFacts(s)
  BY DEF KernelInv, ListFacts
<1>2. CASE s.stat[t] # "ready"
  <2>1. r = [s EXCEPT !.prio[t] = q] /\ ~InReadyList(s, t)
    BY <1>1, <1>2 DEF ChangePriority, StatFacts
  <2> HIDE DEF r
  <2>2. /\ ListFacts(r) /\ SameLists(r, s)
        /\ r.stat = s.stat /\ r.yield = s.yield /\ r.err = s.err
        /\ r.armed = s.armed /\ r.cur = s.cur /\ r.lock = s.lock
        /\ \A x : InReadyList(r, x) <=> InReadyList(s, x)
        /\ \A x : WaitsSomewhere(r, x) <=> WaitsSomewhere(s, x)
        /\ \A x : Dead(r, x) <=> Dead(s, x)
    BY <1>1, <2>1, PriorityChange
  <2>3. StatFacts(r)
    BY <1>1, <2>2 DEF StatFacts
  <2> QED BY <1>2, <2>2, <2>3 DEF KernelInv, r
<1>3. CASE s.stat[t] = "ready"
  <2> DEFINE u == rt_schedule_remove_thread(s, t)
             v == [u EXCEPT !.prio[t] = q]
  <2>1. ~Dead(s, t) /\ t # s.cur /\ t \notin s.armed
    BY <1>1, <1>3 DEF StatFacts
  <2>2. /\ KernelInv(u) /\ SameFields(u, s)
        /\ \A x : InReadyList(u, x) <=> InReadyList(s, x) /\ x # t
        /\ \A x : WaitsSomewhere(u, x) => WaitsSomewhere(s, x)
        /\ \A x : Dead(u, x) <=> Dead(s, x)
    BY <2>1, UnqueueThread
  <2>3. r = rt_schedule_insert_thread(v, t)
    BY <1>3 DEF ChangePriority
  <2>4. v = [u EXCEPT !.prio[t] = q]
    OBVIOUS
  <2> HIDE DEF u, v, r
  <2>5. /\ ListFacts(v) /\ SameLists(v, u)
        /\ v.stat = u.stat /\ v.yield = u.yield /\ v.err = u.err
        /\ v.armed = u.armed /\ v.cur = u.cur /\ v.lock = u.lock
        /\ \A x : InReadyList(v, x) <=> InReadyList(u, x)
        /\ \A x : WaitsSomewhere(v, x) <=> WaitsSomewhere(u, x)
        /\ \A x : Dead(v, x) <=> Dead(u, x)
    BY <2>2, <2>4, PriorityChange DEF KernelInv
  <2>6. KernelInv(v)
    BY <2>2, <2>5 DEF KernelInv, StatFacts
  <2>7. ~InReadyList(v, t) /\ t \notin v.armed /\ ~Dead(v, t) /\ t # v.cur
    BY <2>1, <2>2, <2>5 DEF SameFields
  <2>8. /\ KernelInv(r)
        /\ r.stat = [v.stat EXCEPT ![t] = IF t = v.cur THEN "running" ELSE "ready"]
        /\ r.armed = v.armed /\ r.cur = v.cur /\ r.lock = v.lock /\ r.prio = v.prio
        /\ \A x : InReadyList(r, x) <=> InReadyList(v, x) \/ (x = t /\ t # v.cur)
        /\ \A x : WaitsSomewhere(r, x) <=> WaitsSomewhere(v, x)
    BY <2>3, <2>6, <2>7, WakeThread
  <2>9. r.stat = s.stat
    <3>1. v.stat = s.stat /\ s.stat \in [Thread -> Stat]
      BY <1>1, <2>2, <2>5 DEF SameFields, KernelState
    <3> QED BY <1>3, <2>7, <2>8, <3>1
  <2> QED BY <1>3, <2>1, <2>2, <2>5, <2>7, <2>8, <2>9 DEF SameFields, r
<1> QED
  BY <1>2, <1>3

\* The idle thread frees a closed thread that is not the current one.
LEMMA ReapStep ==
  ASSUME NEW s, KernelInv(s), NEW t \in Thread, s.stat[t] = "close", t # s.cur
  PROVE  LET r == [rt_list_remove(s, t) EXCEPT !.stat[t] = "none"]
         IN  /\ KernelInv(r) /\ r.stat = [s.stat EXCEPT ![t] = "none"]
             /\ r.armed = s.armed /\ r.cur = s.cur /\ r.lock = s.lock /\ r.prio = s.prio
             /\ \A x : InReadyList(r, x) <=> InReadyList(s, x)
             /\ \A x : WaitsSomewhere(r, x) => WaitsSomewhere(s, x)
<1> DEFINE u == rt_list_remove(s, t)
           r == [u EXCEPT !.stat[t] = "none"]
<1>1. /\ s \in KernelState /\ ListFacts(s) /\ StatFacts(s) /\ ~InReadyList(s, t)
      /\ s.cur \in Thread /\ s.armed \subseteq Thread
  BY DEF KernelInv, ListFacts, StatFacts, KernelState
<1>2. /\ ListFacts(u) /\ SameFields(u, s)
      /\ \A x : InReadyList(u, x) <=> InReadyList(s, x)
      /\ \A x : WaitsSomewhere(u, x) <=> WaitsSomewhere(s, x) /\ x # t
      /\ \A x : Dead(u, x) <=> Dead(s, x) /\ x # t
  BY <1>1, UnlinkUnqueued
<1> HIDE DEF u
<1>3. /\ r \in KernelState /\ SameLists(r, u)
      /\ r.stat = [u.stat EXCEPT ![t] = "none"]
      /\ r.armed = u.armed /\ r.cur = u.cur /\ r.lock = u.lock /\ r.prio = u.prio
  BY <1>2 DEF ListFacts, KernelState, SameLists, Stat
<1> HIDE DEF r
<1>4. /\ ListFacts(r)
      /\ \A x : InReadyList(r, x) <=> InReadyList(u, x)
      /\ \A x : WaitsSomewhere(r, x) <=> WaitsSomewhere(u, x)
      /\ \A x : Dead(r, x) <=> Dead(u, x)
  BY <1>2, <1>3, FieldsChange
<1>5. \A x \in Thread : r.stat[x] = IF x = t THEN "none" ELSE s.stat[x]
  BY <1>1, <1>2, <1>3 DEF KernelState, SameFields
<1>6. r.armed = s.armed /\ r.cur = s.cur /\ r.lock = s.lock /\ r.prio = s.prio
  BY <1>2, <1>3 DEF SameFields
<1>7. StatFacts(r)
  BY <1>1, <1>2, <1>4, <1>5, <1>6, ThreadAssumption DEF StatFacts
<1> QED
  BY <1>2, <1>3, <1>4, <1>6, <1>7 DEF KernelInv, SameFields, r, u

-----------------------------------------------------------------------------
(* The suspend lists of IPC objects. *)

\* Thread t waits on list w.
On(s, w, t) == Contains(s.wait[w], t)

\* A thread on a suspend list is suspended, and on no second list.
WaitFacts(s) ==
  /\ \A w \in WaitList, t \in Thread : On(s, w, t) => s.stat[t] = "suspend"
  /\ \A v, w \in WaitList, t \in Thread : On(s, v, t) /\ On(s, w, t) => v = w

\* The kernel as the calls on IPC objects leave it: a thread that has locked
\* the scheduler goes on running.
IpcInv(s) == KernelInv(s) /\ WaitFacts(s) /\ (s.lock # 0 => s.stat[s.cur] = "running")

\* All the lists of such a state are as they should be.
LEMMA IpcInvLists ==
  ASSUME NEW s, IpcInv(s)
  PROVE  ListsOK(s)
<1>1. s \in KernelState /\ ListFacts(s) /\ StatFacts(s)
  BY DEF IpcInv, KernelInv, ListFacts
<1>2. ReadyListsOK(s)
  <2> SUFFICES ASSUME NEW p \in Prio, NEW i \in 1..Len(s.ready[p])
               PROVE  LET t == s.ready[p][i]
                      IN  s.stat[t] = "ready" /\ s.prio[t] = p /\ t # s.cur
    BY <1>1 DEF ReadyListsOK, ListFacts
  <2> DEFINE t == s.ready[p][i]
  <2>1. t \in Thread /\ Contains(s.ready[p], t)
    BY <1>1, ElementOfSeq DEF KernelState, Contains
  <2> QED BY <1>1, <2>1 DEF ListFacts, StatFacts, InReadyList
<1>3. ASSUME NEW w \in WaitList, NEW i \in 1..Len(s.wait[w])
      PROVE  s.wait[w][i] \in Thread /\ On(s, w, s.wait[w][i])
  BY <1>1, ElementOfSeq DEF KernelState, Contains, On
<1>4. WaitListsOK(s)
  <2>1. ASSUME NEW w \in WaitList
        PROVE  NoRepeat(s.wait[w]) /\ \A i \in 1..Len(s.wait[w]) :
                                         s.stat[s.wait[w][i]] = "suspend"
    BY <1>1, <1>3 DEF ListFacts, IpcInv, WaitFacts
  <2>2. ASSUME NEW w \in WaitList, NEW x \in WaitList,
               NEW i \in 1..Len(s.wait[w]), NEW j \in 1..Len(s.wait[x]),
               s.wait[w][i] = s.wait[x][j]
        PROVE  w = x
    <3>1. s.wait[w][i] \in Thread /\ On(s, w, s.wait[w][i]) /\ On(s, x, s.wait[w][i])
      BY <1>3, <2>2
    <3> QED BY <3>1 DEF IpcInv, WaitFacts
  <2> QED BY <2>1, <2>2 DEF WaitListsOK
<1>5. DefunctOK(s)
  <2> SUFFICES ASSUME NEW i \in 1..Len(s.defunct)
               PROVE  s.stat[s.defunct[i]] = "close"
    BY <1>1 DEF DefunctOK, ListFacts
  <2>1. s.defunct[i] \in Thread /\ Contains(s.defunct, s.defunct[i])
    BY <1>1, ElementOfSeq DEF KernelState, Contains
  <2> QED BY <1>1, <2>1 DEF StatFacts, Dead
<1> QED
  BY <1>1, <1>2, <1>4, <1>5 DEF ListsOK, ListFacts

\* Stopped timers, and fields that say nothing about lists, change no fact.
LEMMA IpcFieldsChange ==
  ASSUME NEW s, IpcInv(s), NEW r \in KernelState, SameLists(r, s), r.stat = s.stat,
         r.armed \subseteq s.armed, r.cur = s.cur, r.prio = s.prio,
         r.lock = s.lock \/ s.stat[s.cur] = "running"
  PROVE  IpcInv(r)
<1>1. KernelInv(s) /\ ListFacts(s) /\ StatFacts(s)
  BY DEF IpcInv, KernelInv
<1>2. /\ ListFacts(r)
      /\ \A x : InReadyList(r, x) <=> InReadyList(s, x)
      /\ \A x : WaitsSomewhere(r, x) <=> WaitsSomewhere(s, x)
      /\ \A x : Dead(r, x) <=> Dead(s, x)
  BY <1>1, FieldsChange
<1>3. KernelInv(r)
  BY <1>1, <1>2 DEF KernelInv, StatFacts
<1>4. WaitFacts(r)
  BY DEF IpcInv, WaitFacts, On, SameLists
<1> QED
  BY <1>3, <1>4 DEF IpcInv

\* r differs from s in the error field of t only.
GivenError(r, s, t, e) == r = [s EXCEPT !.err[t] = e]

LEMMA ErrorGiven ==
  ASSUME NEW s, IpcInv(s), NEW t \in Thread, NEW e \in Error,
         NEW r, GivenError(r, s, t, e)
  PROVE  /\ IpcInv(r) /\ SameLists(r, s) /\ r.stat = s.stat /\ r.armed = s.armed
         /\ r.cur = s.cur /\ r.prio = s.prio /\ r.err = [s.err EXCEPT ![t] = e]
         /\ r.lock = s.lock
<1>1. s \in KernelState
  BY DEF IpcInv, KernelInv, ListFacts
<1>2. /\ r \in KernelState /\ SameLists(r, s) /\ r.stat = s.stat /\ r.armed = s.armed
      /\ r.cur = s.cur /\ r.prio = s.prio /\ r.lock = s.lock
      /\ r.err = [s.err EXCEPT ![t] = e]
  BY <1>1 DEF GivenError, KernelState, SameLists
<1>3. IpcInv(r)
  BY <1>2, IpcFieldsChange
<1> QED
  BY <1>2, <1>3

\* A thread that waits nowhere leaves the suspend lists as they are.
LEMMA RemoveKeepsWaits ==
  ASSUME NEW s, ListFacts(s), NEW t \in Thread, ~WaitsSomewhere(s, t)
  PROVE  rt_schedule_remove_thread(s, t).wait = s.wait
<1>1. s.wait \in [WaitList -> Seq(Thread)]
  BY DEF ListFacts, KernelState
<1>2. \A w \in WaitList : RemoveFirst(s.wait[w], t) = s.wait[w]
  BY DEF RemoveFirst, Contains, WaitsSomewhere
<1>3. rt_schedule_remove_thread(s, t).wait = [w \in WaitList |-> RemoveFirst(s.wait[w], t)]
  BY DEF rt_schedule_remove_thread, rt_list_remove, ListFacts, KernelState
<1> QED
  BY <1>1, <1>2, <1>3

\* Nor does the thread that gets the processor, which is ready.
LEMMA SwitchKeepsWaits ==
  ASSUME NEW s, KernelInv(s),
         NEW to \in Thread, to # s.cur, ~WaitsSomewhere(s, to), ~InReadyList(s, s.cur)
  PROVE  SwitchTo(s, to).wait = s.wait /\ SwitchTo(s, to).err = s.err
<1> DEFINE from   == s.cur
           moved  == [s EXCEPT !.cur = to]
           queued == IF s.stat[from] = "running"
                     THEN rt_schedule_insert_thread(moved, from) ELSE moved
           taken  == rt_schedule_remove_thread(queued, to)
<1>1. s \in KernelState /\ ListFacts(s) /\ from \in Thread
  BY DEF KernelInv, ListFacts, KernelState
<1>2. SwitchTo(s, to) = [taken EXCEPT !.stat[to] = "running"]
  BY DEF SwitchTo
<1> HIDE DEF from
<1>3. /\ moved \in KernelState /\ SameLists(moved, s) /\ moved.prio = s.prio
      /\ moved.err = s.err /\ moved.cur = to
  BY <1>1 DEF KernelState, SameLists
<1> HIDE DEF moved
<1>4. /\ ListFacts(moved)
      /\ \A x : InReadyList(moved, x) <=> InReadyList(s, x)
      /\ \A x : WaitsSomewhere(moved, x) <=> WaitsSomewhere(s, x)
  BY <1>1, <1>3, FieldsChange
<1>5. /\ ListFacts(queued) /\ queued.err = s.err /\ queued.wait = s.wait
  <2>1. CASE s.stat[from] = "running"
    <3>1. ~InReadyList(moved, from) /\ from # moved.cur
      BY <1>3, <1>4 DEF from
    <3>2. /\ ListFacts(rt_schedule_insert_thread(moved, from))
          /\ rt_schedule_insert_thread(moved, from).err = moved.err
      BY <1>1, <1>4, <3>1, ScheduleInsert
    <3>3. rt_schedule_insert_thread(moved, from).wait = moved.wait
      BY <1>3, <3>1 DEF rt_schedule_insert_thread, KernelState
    <3> QED BY <1>3, <2>1, <3>2, <3>3 DEF SameLists
  <2>2. CASE s.stat[from] # "running"
    BY <1>3, <1>4, <2>2 DEF SameLists
  <2> QED BY <2>1, <2>2
<1> HIDE DEF queued
<1>6. ~WaitsSomewhere(queued, to)
  BY <1>5 DEF WaitsSomewhere
<1>7. taken.wait = s.wait /\ taken.err = s.err /\ taken \in KernelState
  <2>1. taken.wait = queued.wait
    BY <1>5, <1>6, RemoveKeepsWaits
  <2>2. ListFacts(taken) /\ SameFields(taken, queued)
    BY <1>5, ScheduleRemove
  <2> QED BY <1>5, <2>1, <2>2 DEF SameFields, ListFacts
<1> HIDE DEF taken
<1> QED
  BY <1>2, <1>7 DEF KernelState

\* What the user of an IPC object sees of rt_schedule: the thread that runs
\* behind it is a running one.
Rescheduled(r, s) ==
  /\ IpcInv(r)
  /\ r.wait = s.wait /\ r.err = s.err /\ r.armed = s.armed /\ r.prio = s.prio
  /\ r.lock = s.lock /\ (s.lock # 0 => r.cur = s.cur)
  /\ r.stat[r.cur] = "running"
  /\ \A t \in Thread : r.stat[t] = "suspend" <=> s.stat[t] = "suspend"

\* rt_schedule moves no thread on or off a suspend list.
LEMMA Reschedules ==
  ASSUME NEW s, IpcInv(s)
  PROVE  Rescheduled(rt_schedule(s), s)
<1> DEFINE c == [s EXCEPT !.yield = IF s.stat[s.cur] = "running"
                                    THEN @ \ {s.cur} ELSE @]
           to == Head(s.ready[HighestPrio(s)])
           r  == rt_schedule(s)
<1>1. /\ s \in KernelState /\ ListFacts(s) /\ StatFacts(s) /\ KernelInv(s)
      /\ s.cur \in Thread /\ WaitFacts(s)
  BY DEF IpcInv, KernelInv, ListFacts, KernelState
<1>2. /\ c \in KernelState /\ SameLists(c, s) /\ c.stat = s.stat /\ c.err = s.err
      /\ c.armed = s.armed /\ c.cur = s.cur /\ c.lock = s.lock /\ c.prio = s.prio
  BY <1>1 DEF KernelState, SameLists
<1>3. r = IF s.lock # 0 \/ s.group = {} THEN s
          ELSE IF KeepsCpu(s) THEN rt_schedule_remove_thread(c, s.cur)
          ELSE SwitchTo(c, to)
  BY <1>1 DEF rt_schedule
<1> HIDE DEF c
<1>4. /\ ListFacts(c)
      /\ \A x : InReadyList(c, x) <=> InReadyList(s, x)
      /\ \A x : WaitsSomewhere(c, x) <=> WaitsSomewhere(s, x)
      /\ \A x : Dead(c, x) <=> Dead(s, x)
  BY <1>1, <1>2, FieldsChange
<1>5. KernelInv(c)
  BY <1>1, <1>2, <1>4 DEF KernelInv, StatFacts
<1>6. KernelInv(r) /\ Scheduled(r, s) /\ r.stat[r.cur] = "running"
  <2>1. s.lock # 0 => r = s /\ s.stat[s.cur] = "running"
    BY <1>3 DEF IpcInv
  <2> QED BY <1>1, <2>1, ScheduleStep, ScheduleUnbeaten DEF Unbeaten
<1>7. \A x \in Thread : s.stat[x] # "suspend" => ~WaitsSomewhere(s, x)
  BY <1>1 DEF WaitFacts, On, WaitsSomewhere
<1>8. r.wait = s.wait /\ r.err = s.err
  <2>1. CASE s.lock # 0 \/ s.group = {}
    BY <1>3, <2>1
  <2>2. CASE s.lock = 0 /\ s.group # {} /\ KeepsCpu(s)
    <3>1. ~WaitsSomewhere(c, s.cur)
      BY <1>1, <1>4, <1>7, <2>2 DEF KeepsCpu
    <3>2. rt_schedule_remove_thread(c, s.cur).wait = c.wait
      BY <1>1, <1>4, <3>1, RemoveKeepsWaits
    <3>3. SameFields(rt_schedule_remove_thread(c, s.cur), c)
      BY <1>1, <1>4, ScheduleRemove
    <3> QED BY <1>2, <1>3, <2>2, <3>2, <3>3 DEF SameFields, SameLists
  <2>3. CASE s.lock = 0 /\ s.group # {} /\ ~KeepsCpu(s)
    <3>1. to \in Thread /\ InReadyList(s, to)
      BY <1>1, <2>3, HighestReady
    <3> HIDE DEF to
    <3>2. s.stat[to] = "ready" /\ to # s.cur /\ ~InReadyList(s, s.cur)
      BY <1>1, <3>1 DEF StatFacts
    <3>3. ~WaitsSomewhere(c, to) /\ to # c.cur /\ ~InReadyList(c, c.cur)
      BY <1>2, <1>4, <1>7, <3>1, <3>2
    <3>4. SwitchTo(c, to).wait = c.wait /\ SwitchTo(c, to).err = c.err
      BY <1>5, <3>1, <3>3, SwitchKeepsWaits
    <3> QED BY <1>2, <1>3, <2>3, <3>4 DEF SameLists
  <2> QED BY <2>1, <2>2, <2>3
<1> HIDE DEF r
<1>9. \A x \in Thread : r.stat[x] = "suspend" <=> s.stat[x] = "suspend"
  BY <1>6 DEF Scheduled
<1>10. WaitFacts(r)
  BY <1>1, <1>8, <1>9 DEF WaitFacts, On
<1>11. s.lock # 0 => r.cur = s.cur
  BY <1>3 DEF r
<1> QED
  BY <1>1, <1>6, <1>8, <1>9, <1>10, <1>11 DEF Rescheduled, Scheduled, IpcInv, r

\* The same when the slice of the current thread has been used up.
LEMMA SliceEnds ==
  ASSUME NEW s, IpcInv(s)
  PROVE  Rescheduled(rt_schedule([s EXCEPT !.yield = @ \union {s.cur}]), s)
<1> DEFINE u == [s EXCEPT !.yield = @ \union {s.cur}]
<1>1. s \in KernelState
  BY DEF IpcInv, KernelInv, ListFacts
<1>2. /\ u \in KernelState /\ SameLists(u, s) /\ u.stat = s.stat /\ u.armed = s.armed
      /\ u.cur = s.cur /\ u.prio = s.prio /\ u.lock = s.lock /\ u.err = s.err
  BY <1>1 DEF KernelState, SameLists
<1> HIDE DEF u
<1>3. IpcInv(u)
  BY <1>2, IpcFieldsChange
<1>4. Rescheduled(rt_schedule(u), u)
  BY <1>3, Reschedules
<1> QED
  BY <1>2, <1>4 DEF Rescheduled, SameLists, u

\* Thread t has been woken with error e: it waits nowhere and has no timer.
Woke(r, s, t, e) ==
  /\ IpcInv(r)
  /\ r.err = [s.err EXCEPT ![t] = e] /\ r.armed = s.armed \ {t} /\ r.cur = s.cur
  /\ r.stat = [s.stat EXCEPT ![t] = IF t = s.cur THEN "running" ELSE "ready"]
  /\ r.prio = s.prio /\ r.lock = s.lock
  /\ r.wait = [w \in WaitList |-> RemoveFirst(s.wait[w], t)]
  /\ \A w \in WaitList, x \in Thread : On(r, w, x) <=> On(s, w, x) /\ x # t

\* A suspended thread with an error in its error field is unlinked and queued.
LEMMA UnlinkAndWake ==
  ASSUME NEW s, IpcInv(s), NEW t \in Thread, s.stat[t] = "suspend", t \notin s.armed,
         NEW r, r = rt_schedule_insert_thread(rt_list_remove(s, t), t)
  PROVE  Woke(r, s, t, s.err[t])
<1> DEFINE u == rt_list_remove(s, t)
<1>1. /\ s \in KernelState /\ KernelInv(s) /\ ListFacts(s) /\ StatFacts(s)
      /\ WaitFacts(s)
  BY DEF IpcInv, KernelInv, ListFacts
<1>2. ~InReadyList(s, t) /\ ~Dead(s, t)
  BY <1>1 DEF StatFacts
<1>3. /\ KernelInv(u) /\ SameFields(u, s)
      /\ \A x : InReadyList(u, x) <=> InReadyList(s, x)
      /\ \A x : Dead(u, x) <=> Dead(s, x)
  BY <1>1, <1>2, UnlinkThread
<1>4. u.wait = [w \in WaitList |-> RemoveFirst(s.wait[w], t)]
  BY <1>1 DEF rt_list_remove, KernelState
<1>5. \A w \in WaitList : \A x : On(u, w, x) <=> On(s, w, x) /\ x # t
  BY <1>1, ListRemove DEF On
<1>6. r = rt_schedule_insert_thread(u, t)
  OBVIOUS
<1> HIDE DEF u
<1>7. ~InReadyList(u, t) /\ t \notin u.armed /\ ~Dead(u, t)
  BY <1>2, <1>3 DEF SameFields
<1>8. /\ KernelInv(r)
      /\ r.stat = [u.stat EXCEPT ![t] = IF t = u.cur THEN "running" ELSE "ready"]
      /\ r.armed = u.armed /\ r.cur = u.cur /\ r.lock = u.lock /\ r.prio = u.prio
  BY <1>3, <1>6, <1>7, WakeThread
<1>9. r.wait = u.wait /\ r.err = u.err
  BY <1>3, <1>6 DEF rt_schedule_insert_thread, KernelInv, ListFacts, KernelState
<1>10. /\ r.err = s.err /\ r.armed = s.armed /\ r.cur = s.cur /\ r.prio = s.prio
       /\ r.lock = s.lock
       /\ r.stat = [s.stat EXCEPT ![t] = IF t = s.cur THEN "running" ELSE "ready"]
  BY <1>1, <1>3, <1>8, <1>9 DEF SameFields
<1>11. \A w \in WaitList, x \in Thread : On(r, w, x) <=> On(s, w, x) /\ x # t
  BY <1>5, <1>9 DEF On
<1>12. WaitFacts(r)
  <2>1. \A x \in Thread : x # t => r.stat[x] = s.stat[x]
    BY <1>1, <1>10 DEF KernelState
  <2> QED BY <1>1, <1>11, <2>1 DEF WaitFacts
<1>13. r.err = [s.err EXCEPT ![t] = s.err[t]] /\ r.armed = s.armed \ {t}
  BY <1>1, <1>10 DEF KernelState
<1>14. r.lock # 0 => r.stat[r.cur] = "running"
  BY <1>1, <1>10 DEF IpcInv, KernelState
<1> QED
  BY <1>4, <1>8, <1>9, <1>10, <1>11, <1>12, <1>13, <1>14 DEF Woke, IpcInv

\* rt_thread_resume on a suspended thread that has been told error e.
LEMMA ResumeWakes ==
  ASSUME NEW s, IpcInv(s), NEW t \in Thread, s.stat[t] = "suspend", NEW e \in Error
  PROVE  Woke(rt_thread_resume([s EXCEPT !.err[t] = e], t), s, t, e)
<1> DEFINE m == [s EXCEPT !.err[t] = e]
           v == [s EXCEPT !.armed = @ \ {t}, !.err[t] = e]
           r == rt_thread_resume(m, t)
<1>1. s \in KernelState
  BY DEF IpcInv, KernelInv, ListFacts
<1>2. r = rt_schedule_insert_thread(ResumeUnlink(m, t), t)
  BY <1>1 DEF rt_thread_resume, KernelState
<1>3. ResumeUnlink(m, t) = rt_list_remove(v, t)
  BY <1>1 DEF ResumeUnlink, rt_list_remove, KernelState
<1>4. v = [s EXCEPT !.armed = @ \ {t}, !.err[t] = e]
  OBVIOUS
<1> HIDE DEF m, v, r
<1>5. /\ v \in KernelState /\ SameLists(v, s) /\ v.stat = s.stat
       /\ v.armed = s.armed \ {t} /\ v.cur = s.cur /\ v.prio = s.prio /\ v.lock = s.lock
       /\ v.err = [s.err EXCEPT ![t] = e]
  BY <1>1, <1>4 DEF KernelState, SameLists
<1>6. IpcInv(v)
  BY <1>5, IpcFieldsChange
<1>7. Woke(r, v, t, v.err[t])
  BY <1>6, <1>2, <1>3, <1>5, UnlinkAndWake
<1>8. v.err[t] = e
  BY <1>1, <1>5 DEF KernelState
<1>9. [v.err EXCEPT ![t] = e] = [s.err EXCEPT ![t] = e]
  BY <1>1, <1>5 DEF KernelState
<1>10. v.wait = s.wait
  BY <1>5 DEF SameLists
<1> QED
  BY <1>7, <1>8, <1>9, <1>10, <1>5 DEF Woke, On, r, m

\* _thread_timeout wakes a thread with a timeout error and reschedules.
LEMMA TimeoutWakes ==
  ASSUME NEW s, IpcInv(s), NEW t \in s.armed
  PROVE  /\ t \in Thread
         /\ \E w : /\ Woke(w, s, t, "ETIMEOUT")
                   /\ Rescheduled(_thread_timeout(s, t), w)
<1> DEFINE v == [s EXCEPT !.armed = @ \ {t}, !.err[t] = "ETIMEOUT"]
           w == rt_schedule_insert_thread(rt_list_remove(v, t), t)
<1>1. /\ s \in KernelState /\ t \in Thread /\ s.stat[t] = "suspend" /\ "ETIMEOUT" \in Error
  BY DEF IpcInv, KernelInv, ListFacts, StatFacts, KernelState, Error
<1>2. _thread_timeout(s, t) = rt_schedule(w)
  BY DEF _thread_timeout
<1>3. v = [s EXCEPT !.armed = @ \ {t}, !.err[t] = "ETIMEOUT"]
  OBVIOUS
<1> HIDE DEF v
<1>4. /\ v \in KernelState /\ SameLists(v, s) /\ v.stat = s.stat
       /\ v.armed = s.armed \ {t} /\ v.cur = s.cur /\ v.prio = s.prio /\ v.lock = s.lock
       /\ v.err = [s.err EXCEPT ![t] = "ETIMEOUT"]
  BY <1>1, <1>3 DEF KernelState, SameLists
<1>5. IpcInv(v)
  BY <1>4, IpcFieldsChange
<1>6. Woke(w, v, t, v.err[t])
  BY <1>1, <1>5, <1>4, UnlinkAndWake
<1> HIDE DEF w
<1>7. v.err[t] = "ETIMEOUT"
  BY <1>1, <1>4 DEF KernelState
<1>8. [v.err EXCEPT ![t] = "ETIMEOUT"] = [s.err EXCEPT ![t] = "ETIMEOUT"]
  BY <1>1, <1>4 DEF KernelState
<1>9. v.wait = s.wait
  BY <1>4 DEF SameLists
<1>10. Woke(w, s, t, "ETIMEOUT")
  BY <1>6, <1>7, <1>8, <1>9, <1>4 DEF Woke, On
<1>11. Rescheduled(rt_schedule(w), w)
  BY <1>10, Reschedules DEF Woke
<1> QED
  BY <1>1, <1>2, <1>10, <1>11

\* ResumeHead wakes the first thread of a list that is not empty.
LEMMA ResumeHeadWakes ==
  ASSUME NEW s, IpcInv(s), NEW w \in WaitList, s.wait[w] # <<>>, NEW e \in Error
  PROVE  /\ Head(s.wait[w]) \in Thread /\ On(s, w, Head(s.wait[w]))
         /\ Woke(ResumeHead(s, w, e), s, Head(s.wait[w]), e)
<1> DEFINE h == Head(s.wait[w])
<1>1. s.wait[w] \in Seq(Thread)
  BY DEF IpcInv, KernelInv, ListFacts, KernelState
<1>2. h \in Thread /\ On(s, w, h)
  BY <1>1, HeadList DEF On
<1>3. ResumeHead(s, w, e) = rt_thread_resume([s EXCEPT !.err[h] = e], h)
  BY DEF ResumeHead
<1> HIDE DEF h
<1>4. s.stat[h] = "suspend"
  BY <1>2 DEF IpcInv, WaitFacts
<1>5. Woke(ResumeHead(s, w, e), s, h, e)
  BY <1>2, <1>3, <1>4, ResumeWakes
<1> QED
  BY <1>2, <1>5 DEF h

\* So does ResumeFirst, as the calls use it.
LEMMA ResumeFirstWakes ==
  ASSUME NEW s, IpcInv(s), NEW w \in WaitList, s.wait[w] # <<>>
  PROVE  \E h \in Thread : /\ On(s, w, h) /\ h = Head(s.wait[w])
                           /\ Woke(ResumeFirst(s, w), s, h, "EOK")
<1>1. "EOK" \in Error /\ ResumeFirst(s, w) = ResumeHead(s, w, "EOK")
  BY DEF Error, ResumeFirst
<1> QED
  BY <1>1, ResumeHeadWakes

\* The threads that have left list w are awake and have been told error e; the
\* others are as they were.
PartlyWoke(r, s, w, e) ==
  /\ IpcInv(r) /\ r.cur = s.cur /\ r.prio = s.prio /\ r.lock = s.lock
  /\ \A v \in WaitList \ {w} : r.wait[v] = s.wait[v]
  /\ \A x \in Thread :
       /\ On(r, w, x) => On(s, w, x)
       /\ IF On(s, w, x) /\ ~On(r, w, x)
          THEN /\ r.err[x] = e /\ x \notin r.armed
               /\ r.stat[x] = IF x = s.cur THEN "running" ELSE "ready"
          ELSE /\ r.err[x] = s.err[x] /\ (x \in r.armed <=> x \in s.armed)
               /\ r.stat[x] = s.stat[x]

\* All threads that waited on w are awake.
AllWoke(r, s, w, e) == PartlyWoke(r, s, w, e) /\ r.wait[w] = <<>>

\* One more thread is woken.
LEMMA PartlyWokeStep ==
  ASSUME NEW s, IpcInv(s), NEW w \in WaitList, NEW e \in Error,
         NEW r, PartlyWoke(r, s, w, e),
         NEW h \in Thread, On(r, w, h), NEW n, Woke(n, r, h, e)
  PROVE  /\ PartlyWoke(n, s, w, e)
         /\ Len(n.wait[w]) = Len(r.wait[w]) - 1
<1>1. IpcInv(r)
  BY DEF PartlyWoke
<1>2. /\ r \in KernelState /\ r.wait[w] \in Seq(Thread) /\ NoRepeat(r.wait[w])
      /\ \A v \in WaitList : On(r, v, h) => v = w
  BY <1>1 DEF IpcInv, KernelInv, ListFacts, KernelState, WaitFacts
<1>3. Len(n.wait[w]) = Len(r.wait[w]) - 1
  <2>1. n.wait[w] = RemoveFirst(r.wait[w], h)
    BY <1>1 DEF Woke
  <2> QED BY <1>1, <1>2, <2>1, RemoveFirstOrder DEF On
<1>4. ASSUME NEW v \in WaitList \ {w} PROVE n.wait[v] = s.wait[v]
  <2>1. ~Contains(r.wait[v], h)
    BY <1>2 DEF On
  <2>2. RemoveFirst(r.wait[v], h) = r.wait[v]
    BY <2>1 DEF RemoveFirst, Contains
  <2> QED BY <1>1, <2>2 DEF Woke, PartlyWoke
<1>5. ASSUME NEW x \in Thread
      PROVE  /\ On(n, w, x) <=> On(r, w, x) /\ x # h
             /\ x = h => n.err[x] = e /\ x \notin n.armed
                         /\ n.stat[x] = IF x = r.cur THEN "running" ELSE "ready"
             /\ x # h => n.err[x] = r.err[x] /\ (x \in n.armed <=> x \in r.armed)
                         /\ n.stat[x] = r.stat[x]
  <2>1. r.err \in [Thread -> Error] /\ r.stat \in [Thread -> Stat]
    BY <1>2 DEF KernelState
  <2> QED BY <1>1, <2>1 DEF Woke
<1>6. On(s, w, h) /\ r.cur = s.cur
  BY <1>1 DEF PartlyWoke
<1>7. ASSUME NEW x \in Thread
      PROVE  /\ On(n, w, x) => On(s, w, x)
             /\ IF On(s, w, x) /\ ~On(n, w, x)
                THEN /\ n.err[x] = e /\ x \notin n.armed
                     /\ n.stat[x] = IF x = s.cur THEN "running" ELSE "ready"
                ELSE /\ n.err[x] = s.err[x] /\ (x \in n.armed <=> x \in s.armed)
                     /\ n.stat[x] = s.stat[x]
  <2>1. CASE x = h
    BY <1>5, <1>6, <2>1
  <2>2. CASE x # h
    BY <1>5, <2>2 DEF PartlyWoke
  <2> QED BY <2>1, <2>2
<1>8. IpcInv(n) /\ n.cur = s.cur /\ n.prio = s.prio /\ n.lock = s.lock
  BY <1>1 DEF Woke, PartlyWoke
<1>9. PartlyWoke(n, s, w, e)
  BY <1>4, <1>7, <1>8 DEF PartlyWoke
<1> QED
  BY <1>3, <1>9

\* The turns of the loop in ResumeEach, as a function.
LEMMA TurnsExist ==
  ASSUME NEW s, NEW w, NEW error, NEW n \in Nat
  PROVE  \E g : g = [i \in 0..n |-> IF i = 0 THEN s ELSE ResumeHead(g[i - 1], w, error)]
<1> DEFINE IsTurns(g, m) ==
             g = [i \in 0..m |-> IF i = 0 THEN s ELSE ResumeHead(g[i - 1], w, error)]
           Missing == {m \in Nat : ~ \E g : IsTurns(g, m)}
<1> SUFFICES ASSUME Missing # {} PROVE FALSE
  OBVIOUS
<1> DEFINE m == Min(Missing)
<1>1. m \in Nat /\ m \in Missing /\ \A j \in Missing : m <= j
  BY MinProperties
<1> HIDE DEF m
<1>2. m # 0
  <2>1. IsTurns([i \in 0..0 |-> s], 0)
    OBVIOUS
  <2> QED BY <1>1, <2>1
<1>3. m - 1 \in Nat /\ m - 1 \notin Missing
  <2> HIDE DEF Missing
  <2> QED BY <1>1, <1>2
<1>4. PICK g : IsTurns(g, m - 1)
  BY <1>3
<1> DEFINE h == [i \in 0..m |-> IF i = m THEN ResumeHead(g[m - 1], w, error) ELSE g[i]]
<1>5. \A i \in 0..(m-1) : h[i] = g[i]
  BY <1>1
<1>6. \A i \in 0..m : h[i] = IF i = 0 THEN s ELSE ResumeHead(h[i - 1], w, error)
  <2> TAKE i \in 0..m
  <2>1. CASE i = m
    <3>1. h[i] = ResumeHead(g[m - 1], w, error) /\ h[m - 1] = g[m - 1]
      BY <1>1, <1>2, <2>1
    <3> QED BY <1>2, <2>1, <3>1
  <2>2. CASE i # m /\ i # 0
    <3>1. i \in 0..(m-1) /\ i - 1 \in 0..(m-1)
      BY <1>1, <2>2
    <3>2. g[i] = ResumeHead(g[i - 1], w, error)
      BY <1>4, <2>2, <3>1
    <3> HIDE DEF h
    <3> QED BY <1>5, <2>2, <3>1, <3>2
  <2>3. CASE i # m /\ i = 0
    <3>1. i \in 0..(m-1) /\ g[i] = s
      BY <1>1, <1>4, <2>3
    <3> HIDE DEF h
    <3> QED BY <1>5, <2>3, <3>1
  <2> QED BY <2>1, <2>2, <2>3
<1>7. IsTurns(h, m)
  <2>1. h = [i \in 0..m |-> h[i]]
    OBVIOUS
  <2> HIDE DEF h
  <2> QED BY <1>6, <2>1
<1> QED
  BY <1>1, <1>7

\* ResumeEach is the last of its turns.
LEMMA EachIsLast ==
  ASSUME NEW s, NEW w, NEW error, Len(s.wait[w]) \in Nat
  PROVE  \E g : /\ ResumeEach(s, w, error) = g[Len(s.wait[w])]
                /\ g[0] = s
                /\ \A i \in 1..Len(s.wait[w]) : g[i] = ResumeHead(g[i - 1], w, error)
<1> DEFINE n == Len(s.wait[w])
           After == CHOOSE g : g = [i \in 0..n |-> IF i = 0 THEN s
                                                   ELSE ResumeHead(g[i - 1], w, error)]
<1>1. ResumeEach(s, w, error) = After[n]
  BY DEF ResumeEach
<1>2. After = [i \in 0..n |-> IF i = 0 THEN s ELSE ResumeHead(After[i - 1], w, error)]
  BY TurnsExist
<1>3. n \in Nat
  OBVIOUS
<1> HIDE DEF After, n
<1>4. After[0] = s /\ \A i \in 1..n : After[i] = ResumeHead(After[i - 1], w, error)
  BY <1>2, <1>3
<1> QED
  BY <1>1, <1>4 DEF n

\* ResumeEach leaves nobody on the list.
LEMMA ResumeEachWakes ==
  ASSUME NEW s, IpcInv(s), NEW w \in WaitList, NEW e \in Error
  PROVE  AllWoke(ResumeEach(s, w, e), s, w, e)
<1> DEFINE n == Len(s.wait[w])
<1>1. s.wait[w] \in Seq(Thread) /\ n \in Nat
  BY LenProperties DEF IpcInv, KernelInv, ListFacts, KernelState
<1>2. PICK g : /\ ResumeEach(s, w, e) = g[n] /\ g[0] = s
               /\ \A i \in 1..n : g[i] = ResumeHead(g[i - 1], w, e)
  BY <1>1, EachIsLast
<1> DEFINE Good(i) == PartlyWoke(g[i], s, w, e) /\ Len(g[i].wait[w]) = n - i
           Bad == {i \in 0..n : ~Good(i)}
<1> HIDE DEF n
<1>3. Good(0)
  <2>1. PartlyWoke(s, s, w, e)
    BY DEF PartlyWoke
  <2> QED BY <1>1, <1>2, <2>1 DEF n
<1>4. \A i \in 1..n : Good(i - 1) => Good(i)
  <2> SUFFICES ASSUME NEW i \in 1..n, Good(i - 1) PROVE Good(i)
    OBVIOUS
  <2> DEFINE r == g[i - 1]
  <2>1. PartlyWoke(r, s, w, e) /\ Len(r.wait[w]) = n - (i - 1)
    OBVIOUS
  <2>2. g[i] = ResumeHead(r, w, e)
    BY <1>2
  <2> HIDE DEF r
  <2>3. Len(r.wait[w]) # 0
    BY <1>1, <2>1
  <2>4. r.wait[w] # <<>>
    BY <2>3
  <2>5. PartlyWoke(g[i], s, w, e) /\ Len(g[i].wait[w]) = Len(r.wait[w]) - 1
    <3> DEFINE h == Head(r.wait[w])
    <3>1. h \in Thread /\ On(r, w, h) /\ Woke(g[i], r, h, e)
      BY <2>1, <2>2, <2>4, ResumeHeadWakes DEF PartlyWoke
    <3> HIDE DEF h
    <3> QED BY <2>1, <3>1, PartlyWokeStep
  <2> QED BY <1>1, <2>1, <2>5
<1>5. Bad = {}
  <2> SUFFICES ASSUME Bad # {} PROVE FALSE
    OBVIOUS
  <2> DEFINE m == Min(Bad)
  <2>1. Bad \in SUBSET Nat
    BY <1>1
  <2>2. m \in Bad /\ \A j \in Bad : m <= j
    <3> HIDE DEF Bad
    <3> QED BY <2>1, MinProperties
  <2> HIDE DEF m
  <2>3. m \in 0..n /\ ~Good(m)
    BY <2>2
  <2> HIDE DEF Good
  <2>4. m # 0
    BY <1>3, <2>3
  <2>5. m \in 1..n /\ m - 1 \in 0..n /\ m - 1 \notin Bad
    <3> HIDE DEF Bad
    <3> QED BY <1>1, <2>2, <2>3, <2>4
  <2>6. Good(m - 1)
    BY <2>5
  <2> QED BY <1>4, <2>3, <2>5, <2>6
<1>6. Good(n)
  BY <1>1, <1>5
<1>7. g[n].wait[w] = <<>>
  <2>1. Len(g[n].wait[w]) = 0
    BY <1>1, <1>6
  <2>2. g[n].wait[w] \in Seq(Thread)
    BY <1>6 DEF PartlyWoke, IpcInv, KernelInv, ListFacts, KernelState
  <2> QED BY <2>1, <2>2, EmptySeq
<1> QED
  BY <1>2, <1>6, <1>7 DEF AllWoke

\* The turns of the loop in ResumeChosen.
ChosenTurn(r, x, chosen) ==
  IF x \in chosen THEN [rt_thread_resume(r, x) EXCEPT !.err[x] = "EOK"] ELSE r

LEMMA WalkExists ==
  ASSUME NEW s, NEW list, NEW chosen, NEW n \in Nat
  PROVE  \E g : g = [i \in 0..n |-> IF i = 0 THEN s ELSE ChosenTurn(g[i - 1], list[i], chosen)]
<1> DEFINE IsWalk(g, m) ==
             g = [i \in 0..m |-> IF i = 0 THEN s ELSE ChosenTurn(g[i - 1], list[i], chosen)]
           Missing == {m \in Nat : ~ \E g : IsWalk(g, m)}
<1> SUFFICES ASSUME Missing # {} PROVE FALSE
  OBVIOUS
<1> DEFINE m == Min(Missing)
<1>1. m \in Nat /\ m \in Missing /\ \A j \in Missing : m <= j
  BY MinProperties
<1> HIDE DEF m
<1>2. m # 0
  <2>1. IsWalk([i \in 0..0 |-> s], 0)
    OBVIOUS
  <2> QED BY <1>1, <2>1
<1>3. m - 1 \in Nat /\ m - 1 \notin Missing
  <2> HIDE DEF Missing
  <2> QED BY <1>1, <1>2
<1>4. PICK g : IsWalk(g, m - 1)
  BY <1>3
<1> DEFINE h == [i \in 0..m |-> IF i = m THEN ChosenTurn(g[m - 1], list[m], chosen) ELSE g[i]]
<1>5. \A i \in 0..(m-1) : h[i] = g[i]
  BY <1>1
<1>6. \A i \in 0..m : h[i] = IF i = 0 THEN s ELSE ChosenTurn(h[i - 1], list[i], chosen)
  <2> TAKE i \in 0..m
  <2>1. CASE i = m
    <3>1. h[i] = ChosenTurn(g[m - 1], list[m], chosen) /\ h[m - 1] = g[m - 1]
      BY <1>1, <1>2, <2>1
    <3> QED BY <1>2, <2>1, <3>1
  <2>2. CASE i # m /\ i # 0
    <3>1. i \in 0..(m-1) /\ i - 1 \in 0..(m-1)
      BY <1>1, <2>2
    <3>2. g[i] = ChosenTurn(g[i - 1], list[i], chosen)
      BY <1>4, <2>2, <3>1
    <3> HIDE DEF h
    <3> QED BY <1>5, <2>2, <3>1, <3>2
  <2>3. CASE i # m /\ i = 0
    <3>1. i \in 0..(m-1) /\ g[i] = s
      BY <1>1, <1>4, <2>3
    <3> HIDE DEF h
    <3> QED BY <1>5, <2>3, <3>1
  <2> QED BY <2>1, <2>2, <2>3
<1>7. IsWalk(h, m)
  <2>1. h = [i \in 0..m |-> h[i]]
    OBVIOUS
  <2> HIDE DEF h
  <2> QED BY <1>6, <2>1
<1> QED
  BY <1>1, <1>7

\* ResumeChosen is the last of its turns.
LEMMA ChosenIsLast ==
  ASSUME NEW s, NEW w, NEW chosen, Len(s.wait[w]) \in Nat
  PROVE  \E g : /\ ResumeChosen(s, w, chosen) = g[Len(s.wait[w])] /\ g[0] = s
                /\ \A i \in 1..Len(s.wait[w]) :
                     g[i] = ChosenTurn(g[i - 1], s.wait[w][i], chosen)
<1> DEFINE list == s.wait[w]
           n == Len(list)
           After == CHOOSE g : g = [i \in 0..n |-> IF i = 0 THEN s
                                                   ELSE ChosenTurn(g[i - 1], list[i], chosen)]
<1>1. ResumeChosen(s, w, chosen) = After[n]
  BY DEF ResumeChosen, ChosenTurn
<1>2. After = [i \in 0..n |-> IF i = 0 THEN s ELSE ChosenTurn(After[i - 1], list[i], chosen)]
  BY WalkExists
<1>3. n \in Nat
  OBVIOUS
<1> HIDE DEF After, n
<1>4. After[0] = s /\ \A i \in 1..n : After[i] = ChosenTurn(After[i - 1], list[i], chosen)
  BY <1>2, <1>3
<1> QED
  BY <1>1, <1>4 DEF n

\* One turn wakes a chosen thread, the others it passes by.
LEMMA ChosenTurnWakes ==
  ASSUME NEW s, IpcInv(s), NEW x \in Thread, s.stat[x] = "suspend", NEW chosen, x \in chosen
  PROVE  Woke(ChosenTurn(s, x, chosen), s, x, "EOK")
<1> DEFINE u == rt_thread_resume(s, x)
           r == ChosenTurn(s, x, chosen)
<1>1. s \in KernelState /\ s.err[x] \in Error /\ "EOK" \in Error
  BY DEF IpcInv, KernelInv, ListFacts, KernelState, Error
<1>2. [s EXCEPT !.err[x] = s.err[x]] = s
  BY <1>1 DEF KernelState
<1>3. Woke(u, s, x, s.err[x])
  BY <1>1, <1>2, ResumeWakes
<1>4. GivenError(r, u, x, "EOK")
  BY DEF ChosenTurn, GivenError
<1> HIDE DEF u, r
<1>5. /\ IpcInv(r) /\ SameLists(r, u) /\ r.stat = u.stat /\ r.armed = u.armed
      /\ r.cur = u.cur /\ r.prio = u.prio /\ r.err = [u.err EXCEPT ![x] = "EOK"]
      /\ r.lock = u.lock
  BY <1>1, <1>3, <1>4, ErrorGiven DEF Woke
<1>6. r.err = [s.err EXCEPT ![x] = "EOK"]
  BY <1>1, <1>3, <1>5 DEF Woke, KernelState
<1>7. r.wait = u.wait /\ \A v \in WaitList, y \in Thread : On(r, v, y) <=> On(u, v, y)
  BY <1>5 DEF SameLists, On
<1> QED
  BY <1>3, <1>5, <1>6, <1>7 DEF Woke, r

\* The chosen threads among the first i of the list have been woken.
Walked(r, s, w, chosen, i) ==
  /\ PartlyWoke(r, s, w, "EOK")
  /\ \A x \in Thread : On(r, w, x) <=>
       On(s, w, x) /\ ~ \E j \in 1..i : s.wait[w][j] = x /\ x \in chosen

LEMMA WalkStep ==
  ASSUME NEW s, IpcInv(s), NEW w \in WaitList, NEW chosen, NEW list, list = s.wait[w],
         NEW i \in 1..Len(list), NEW r, Walked(r, s, w, chosen, i - 1)
  PROVE  Walked(ChosenTurn(r, list[i], chosen), s, w, chosen, i)
<1> DEFINE h == list[i]
           n == ChosenTurn(r, h, chosen)
<1>0. /\ PartlyWoke(r, s, w, "EOK")
      /\ \A x \in Thread : On(r, w, x) <=>
           On(s, w, x) /\ ~ \E j \in 1..(i-1) : list[j] = x /\ x \in chosen
  BY DEF Walked
<1>1. /\ list \in Seq(Thread) /\ NoRepeat(list) /\ Len(list) \in Nat
      /\ IpcInv(r) /\ "EOK" \in Error
  BY <1>0, LenProperties DEF IpcInv, KernelInv, ListFacts, KernelState, PartlyWoke, Error
<1>2. h \in Thread /\ On(s, w, h) /\ \A j \in 1..(i-1) : list[j] # h
  BY <1>1 DEF On, Contains, NoRepeat
<1>3. On(r, w, h)
  BY <1>0, <1>2
<1>4. CASE h \in chosen
  <2>1. r.stat[h] = "suspend"
    BY <1>1, <1>2, <1>3 DEF IpcInv, WaitFacts
  <2> HIDE DEF n, h
  <2>2. Woke(n, r, h, "EOK")
    BY <1>1, <1>2, <1>4, <2>1, ChosenTurnWakes DEF n
  <2>3. PartlyWoke(n, s, w, "EOK")
    BY <1>0, <1>1, <1>2, <1>3, <2>2, PartlyWokeStep
  <2>4. \A x \in Thread : On(n, w, x) <=> On(r, w, x) /\ x # h
    BY <2>2 DEF Woke
  <2>5. \A x : (\E j \in 1..i : list[j] = x /\ x \in chosen) <=>
               (\E j \in 1..(i-1) : list[j] = x /\ x \in chosen) \/ x = h
    BY <1>1, <1>4 DEF h
  <2> QED BY <1>0, <2>3, <2>4, <2>5 DEF n, h, Walked
<1>5. CASE h \notin chosen
  <2>1. n = r
    BY <1>5 DEF ChosenTurn
  <2>2. \A x : (\E j \in 1..i : list[j] = x /\ x \in chosen) <=>
               (\E j \in 1..(i-1) : list[j] = x /\ x \in chosen)
    BY <1>1, <1>5
  <2> QED BY <1>0, <2>1, <2>2 DEF Walked
<1> QED
  BY <1>4, <1>5

\* ResumeChosen wakes the chosen threads that are on the list, and no other one.
LEMMA ResumeChosenWakes ==
  ASSUME NEW s, IpcInv(s), NEW w \in WaitList, NEW chosen
  PROVE  /\ PartlyWoke(ResumeChosen(s, w, chosen), s, w, "EOK")
         /\ \A x \in Thread : On(ResumeChosen(s, w, chosen), w, x) <=> On(s, w, x) /\ x \notin chosen
<1>1. PICK list : list = s.wait[w]
  OBVIOUS
<1>2. list \in Seq(Thread) /\ Len(list) \in Nat /\ Len(s.wait[w]) \in Nat
  BY <1>1, LenProperties DEF IpcInv, KernelInv, ListFacts, KernelState
<1>3. PICK g : /\ ResumeChosen(s, w, chosen) = g[Len(list)] /\ g[0] = s
               /\ \A i \in 1..Len(list) : g[i] = ChosenTurn(g[i - 1], list[i], chosen)
  <2>1. \E g : /\ ResumeChosen(s, w, chosen) = g[Len(s.wait[w])] /\ g[0] = s
               /\ \A i \in 1..Len(s.wait[w]) :
                    g[i] = ChosenTurn(g[i - 1], s.wait[w][i], chosen)
    BY <1>2, ChosenIsLast
  <2> QED BY <1>1, <2>1
<1> DEFINE n == Len(list)
           Bad == {i \in 0..n : ~Walked(g[i], s, w, chosen, i)}
<1>4. Walked(g[0], s, w, chosen, 0)
  BY <1>3 DEF Walked, PartlyWoke
<1>5. ASSUME NEW i \in 1..n, Walked(g[i - 1], s, w, chosen, i - 1)
      PROVE  Walked(g[i], s, w, chosen, i)
  <2> DEFINE r == g[i - 1]
  <2>1. Walked(r, s, w, chosen, i - 1) /\ g[i] = ChosenTurn(r, list[i], chosen)
    BY <1>3, <1>5
  <2>2. i \in 1..Len(list)
    OBVIOUS
  <2> HIDE DEF r, n
  <2> QED BY <1>1, <2>1, <2>2, WalkStep
<1>6. Bad = {}
  <2> SUFFICES ASSUME Bad # {} PROVE FALSE
    OBVIOUS
  <2> DEFINE m == Min(Bad)
  <2>1. Bad \in SUBSET Nat
    BY <1>2
  <2>2. m \in Bad /\ \A j \in Bad : m <= j
    <3> HIDE DEF Bad
    <3> QED BY <2>1, MinProperties
  <2> HIDE DEF m
  <2>3. m \in 0..n /\ ~Walked(g[m], s, w, chosen, m)
    BY <2>2
  <2>4. m # 0
    BY <1>4, <2>3
  <2>5. m \in 1..n /\ m - 1 \in 0..n /\ m - 1 \notin Bad
    <3>1. n \in Nat
      BY <1>2
    <3> HIDE DEF Bad, n
    <3> QED BY <2>2, <2>3, <2>4, <3>1
  <2>6. Walked(g[m - 1], s, w, chosen, m - 1)
    BY <2>5
  <2> QED BY <1>5, <2>3, <2>5, <2>6
<1>7. Walked(g[n], s, w, chosen, n)
  BY <1>2, <1>6
<1>8. \A x \in Thread : On(s, w, x) /\ x \notin chosen <=>
        On(s, w, x) /\ ~ \E j \in 1..n : s.wait[w][j] = x /\ x \in chosen
  BY <1>1, <1>2 DEF On, Contains
<1> QED
  BY <1>3, <1>7, <1>8 DEF Walked

-----------------------------------------------------------------------------
(* A thread begins to wait. *)

\* The running thread t has been suspended on list w with error e, its timer
\* started when the wait is finite.
Waits(r, s, w, t, e, finite) ==
  /\ IpcInv(r) /\ r.cur = s.cur /\ r.prio = s.prio /\ r.lock = s.lock
  /\ r.err = [s.err EXCEPT ![t] = e]
  /\ r.stat = [s.stat EXCEPT ![t] = "suspend"]
  /\ r.armed = IF finite THEN s.armed \union {t} ELSE s.armed
  /\ \A v \in WaitList, x \in Thread : On(r, v, x) <=> On(s, v, x) \/ (v = w /\ x = t)

\* rt_thread_suspend on the running thread.
LEMMA SuspendThread ==
  ASSUME NEW s, IpcInv(s), s.stat[s.cur] = "running", s.cur # Idle, s.lock = 0
  PROVE  LET r == rt_thread_suspend(s, s.cur)
         IN  /\ IpcInv(r) /\ r.cur = s.cur /\ r.prio = s.prio /\ r.err = s.err /\ r.lock = 0
             /\ r.stat = [s.stat EXCEPT ![s.cur] = "suspend"]
             /\ r.armed = s.armed /\ r.wait = s.wait
<1> DEFINE t == s.cur
           u == rt_schedule_remove_thread(s, t)
           r == rt_thread_suspend(s, t)
<1>1. /\ s \in KernelState /\ KernelInv(s) /\ ListFacts(s) /\ StatFacts(s) /\ t \in Thread
      /\ WaitFacts(s) /\ s.lock = 0 /\ s.stat \in [Thread -> Stat]
  BY DEF IpcInv, KernelInv, ListFacts, KernelState
<1>2. t \notin s.armed /\ ~WaitsSomewhere(s, t) /\ ~InReadyList(s, t) /\ ~Dead(s, t)
  BY <1>1 DEF StatFacts, WaitFacts, On, WaitsSomewhere
<1>3. r = [u EXCEPT !.stat[t] = "suspend", !.armed = @ \ {t}]
  BY DEF rt_thread_suspend
<1>4. u.wait = s.wait
  BY <1>1, <1>2, RemoveKeepsWaits
<1>5. SameFields(u, s) /\ u \in KernelState
  BY <1>1, ScheduleRemove DEF ListFacts
<1>6. /\ KernelInv(r) /\ r.stat = [s.stat EXCEPT ![t] = "suspend"]
      /\ r.cur = s.cur /\ r.lock = s.lock
  BY <1>1, SuspendCurrent
<1> HIDE DEF u, r, t
<1>7. r.wait = u.wait /\ r.err = u.err /\ r.armed = u.armed \ {t} /\ r.prio = u.prio
  BY <1>3, <1>5 DEF KernelState
<1>8. r.wait = s.wait /\ r.err = s.err /\ r.armed = s.armed /\ r.prio = s.prio
  BY <1>2, <1>4, <1>5, <1>7 DEF SameFields
<1>9. WaitFacts(r)
  <2>1. \A x \in Thread : s.stat[x] = "suspend" => r.stat[x] = "suspend"
    BY <1>1, <1>6
  <2> QED BY <1>1, <1>8, <2>1 DEF WaitFacts, On
<1> QED
  BY <1>1, <1>6, <1>8, <1>9 DEF IpcInv, r, t

\* List q is list `old' with thread t put somewhere.
GrownBy(q, old, t) ==
  /\ q \in Seq(Thread) /\ NoRepeat(q)
  /\ \A x : Contains(q, x) <=> Contains(old, x) \/ x = t

\* r has t linked on w.
LinkedOn(r, u, w, t) ==
  \A v \in WaitList, x \in Thread : On(r, v, x) <=> On(u, v, x) \/ (v = w /\ x = t)

\* r is u with q as the list w, and perhaps the timer of thread t started.
NowHas(r, u, w, q, t) ==
  /\ r \in KernelState /\ r.wait = [u.wait EXCEPT ![w] = q]
  /\ r.stat = u.stat /\ r.prio = u.prio /\ r.ready = u.ready /\ r.group = u.group
  /\ r.defunct = u.defunct /\ r.cur = u.cur /\ r.lock = u.lock
  /\ r.armed \subseteq u.armed \union {t}

\* A suspended thread that waits nowhere is linked, and its timer is started.
LEMMA LinkSuspended ==
  ASSUME NEW u, IpcInv(u), NEW t \in Thread, u.stat[t] = "suspend",
         ~WaitsSomewhere(u, t), NEW w \in WaitList, NEW q, GrownBy(q, u.wait[w], t),
         NEW r, NowHas(r, u, w, q, t)
  PROVE  IpcInv(r) /\ LinkedOn(r, u, w, t)
<1>1. /\ \A v \in WaitList : ~On(u, v, t)
      /\ q \in Seq(Thread) /\ NoRepeat(q)
      /\ \A x : Contains(q, x) <=> Contains(u.wait[w], x) \/ x = t
  BY DEF GrownBy, On, WaitsSomewhere
<1> USE DEF NowHas
<1>2. /\ u \in KernelState /\ ListFacts(u) /\ StatFacts(u) /\ WaitFacts(u)
      /\ u.wait \in [WaitList -> Seq(Thread)]
  BY DEF IpcInv, KernelInv, ListFacts, KernelState
<1>3. r.wait[w] = q /\ \A v \in WaitList \ {w} : r.wait[v] = u.wait[v]
  BY <1>2
<1>4. \A v \in WaitList, x \in Thread : On(r, v, x) <=> On(u, v, x) \/ (v = w /\ x = t)
  <2> TAKE v \in WaitList, x \in Thread
  <2>1. CASE v = w
    BY <1>1, <1>3, <2>1 DEF On
  <2>2. CASE v # w
    BY <1>3, <2>2 DEF On
  <2> QED BY <2>1, <2>2
<1>5. ListFacts(r)
  <2>1. \A v \in WaitList : NoRepeat(r.wait[v])
    BY <1>1, <1>2, <1>3 DEF ListFacts
  <2> QED BY <1>2, <2>1 DEF ListFacts, GroupOK
<1>6. StatFacts(r)
  BY <1>2 DEF StatFacts, InReadyList, Dead
<1>7. WaitFacts(r)
  <2>1. \A v \in WaitList : ~On(u, v, t)
    BY <1>1
  <2>2. r.stat = u.stat
    OBVIOUS
  <2> HIDE DEF NowHas
  <2>3. \A v \in WaitList, x \in Thread : On(r, v, x) => r.stat[x] = "suspend"
    BY <1>2, <1>4, <2>2 DEF WaitFacts
  <2>4. \A v \in WaitList, y \in WaitList, x \in Thread : On(r, v, x) /\ On(r, y, x) => v = y
    BY <1>2, <1>4, <2>1 DEF WaitFacts
  <2> QED BY <2>3, <2>4 DEF WaitFacts
<1> QED
  BY <1>2, <1>4, <1>5, <1>6, <1>7 DEF IpcInv, KernelInv, LinkedOn

\* The place of a thread in a list by priority.
LEMMA PrioPlace ==
  ASSUME NEW q \in Seq(Thread), NEW t \in Thread, NEW prio \in [Thread -> Prio]
  PROVE  PrioPosition(q, t, prio) \in 1..(Len(q) + 1)
<1> DEFINE lower == {i \in 1..Len(q) : prio[t] < prio[q[i]]}
<1>1. Len(q) \in Nat
  BY LenProperties
<1>2. lower \in SUBSET Nat
  BY <1>1
<1>3. lower # {} => Min(lower) \in lower
  <2> HIDE DEF lower
  <2> QED BY <1>2, MinProperties
<1> QED
  BY <1>1, <1>3 DEF PrioPosition

\* SuspendTimed, with the error a call gives its thread first, makes the running
\* thread wait.
LEMMA SuspendWaits ==
  ASSUME NEW s, IpcInv(s), NEW t \in Thread, t = s.cur, s.stat[t] = "running", t # Idle,
         NEW w \in WaitList, NEW flag \in {"FIFO", "PRIO"}, NEW finite \in BOOLEAN,
         NEW e \in Error, s.lock = 0
  PROVE  Waits(SuspendTimed([s EXCEPT !.err[t] = e], w, flag, t, finite), s, w, t, e, finite)
<1> DEFINE m == [s EXCEPT !.err[t] = e]
           u == rt_thread_suspend(m, t)
           q == IF flag = "FIFO" THEN Append(u.wait[w], t)
                ELSE InsertAt(u.wait[w], PrioPosition(u.wait[w], t, u.prio), t)
           l == [u EXCEPT !.wait[w] = q]
           r == IF finite THEN [l EXCEPT !.armed = @ \union {t}] ELSE l
<1>1. SuspendTimed(m, w, flag, t, finite) = r
  <2>1. flag = "FIFO" => SuspendOnFifo(m, w, t) = l
    BY DEF SuspendOnFifo
  <2>2. flag = "PRIO" => SuspendOnPrio(m, w, t) = l
    BY DEF SuspendOnPrio
  <2> HIDE DEF l
  <2> QED BY <2>1, <2>2 DEF SuspendTimed
<1>2. /\ IpcInv(m) /\ SameLists(m, s) /\ m.stat = s.stat /\ m.armed = s.armed
      /\ m.cur = s.cur /\ m.prio = s.prio /\ m.err = [s.err EXCEPT ![t] = e]
      /\ m.lock = s.lock
  <2>1. GivenError(m, s, t, e)
    BY DEF GivenError
  <2> HIDE DEF m
  <2> QED BY <2>1, ErrorGiven
<1> HIDE DEF m
<1>3. /\ IpcInv(u) /\ u.cur = m.cur /\ u.prio = m.prio /\ u.err = m.err /\ u.lock = 0
      /\ u.stat = [m.stat EXCEPT ![t] = "suspend"]
      /\ u.armed = m.armed /\ u.wait = m.wait
  BY <1>2, SuspendThread
<1> HIDE DEF u
<1>4. /\ u \in KernelState /\ u.stat[t] = "suspend" /\ u.wait[w] \in Seq(Thread)
      /\ u.prio \in [Thread -> Prio] /\ NoRepeat(u.wait[w]) /\ m.stat \in [Thread -> Stat]
  BY <1>2, <1>3 DEF IpcInv, KernelInv, ListFacts, KernelState
<1>5. ~WaitsSomewhere(u, t)
  <2>1. m.stat[t] = "running"
    BY <1>2
  <2> QED BY <1>2, <1>3, <2>1 DEF On, IpcInv, WaitFacts, WaitsSomewhere
<1>6. GrownBy(q, u.wait[w], t)
  <2> DEFINE old == u.wait[w]
             i == PrioPosition(old, t, u.prio)
  <2>1. ~Contains(old, t) /\ old \in Seq(Thread) /\ NoRepeat(old)
    BY <1>4, <1>5 DEF WaitsSomewhere
  <2>2. i \in 1..(Len(old) + 1)
    BY <1>4, PrioPlace
  <2> HIDE DEF old, i
  <2>3. GrownBy(Append(old, t), old, t)
    BY <2>1, AppendList DEF GrownBy
  <2>4. GrownBy(InsertAt(old, i, t), old, t)
    <3>1. InsertAt(old, i, t) \in Seq(Thread)
      BY <2>1, <2>2, InsertAtProperties
    <3>2. /\ NoRepeat(InsertAt(old, i, t))
          /\ \A x : Contains(InsertAt(old, i, t), x) <=> Contains(old, x) \/ x = t
      BY <2>1, <2>2, InsertAtMembers
    <3> QED BY <3>1, <3>2 DEF GrownBy
  <2>5. q = IF flag = "FIFO" THEN Append(old, t) ELSE InsertAt(old, i, t)
    BY DEF old, i
  <2> QED BY <2>3, <2>4, <2>5 DEF old
<1> HIDE DEF q
<1>7. q \in Seq(Thread)
  BY <1>6 DEF GrownBy
<1>8. /\ l \in KernelState /\ l.wait = [u.wait EXCEPT ![w] = q]
      /\ l.stat = u.stat /\ l.prio = u.prio /\ l.ready = u.ready /\ l.group = u.group
      /\ l.defunct = u.defunct /\ l.cur = u.cur /\ l.lock = u.lock /\ l.err = u.err
      /\ l.armed = u.armed
  BY <1>4, <1>7 DEF KernelState
<1> HIDE DEF l
<1>9. /\ r \in KernelState /\ r.wait = [u.wait EXCEPT ![w] = q]
      /\ r.stat = u.stat /\ r.prio = u.prio /\ r.ready = u.ready /\ r.group = u.group
      /\ r.defunct = u.defunct /\ r.cur = u.cur /\ r.lock = u.lock /\ r.err = u.err
      /\ r.armed = IF finite THEN u.armed \union {t} ELSE u.armed
  BY <1>8 DEF KernelState
<1> HIDE DEF r
<1>10. IpcInv(r) /\ LinkedOn(r, u, w, t)
  <2>1. NowHas(r, u, w, q, t)
    BY <1>9 DEF NowHas
  <2> QED BY <1>3, <1>4, <1>5, <1>6, <2>1, LinkSuspended
<1>11. \A v \in WaitList, x \in Thread : On(u, v, x) <=> On(s, v, x)
  BY <1>2, <1>3 DEF On, SameLists
<1>12. Waits(r, s, w, t, e, finite)
  BY <1>2, <1>3, <1>9, <1>10, <1>11 DEF Waits, LinkedOn
<1> QED
  BY <1>1, <1>12 DEF m

\* From s to r the current thread t has gone to sleep, told e.
Slept(r, s, t, e) ==
  /\ IpcInv(r) /\ r.cur = s.cur /\ r.prio = s.prio /\ r.lock = s.lock
  /\ r.err = [s.err EXCEPT ![t] = e] /\ r.stat = [s.stat EXCEPT ![t] = "suspend"]
  /\ r.armed = s.armed \union {t} /\ r.wait = s.wait

\* rt_thread_suspend, the timer of the thread is started, and it is told e.
LEMMA SleepWaits ==
  ASSUME NEW s, IpcInv(s), NEW t, t = s.cur, s.stat[t] = "running", t # Idle, s.lock = 0,
         NEW e \in Error,
         NEW r, r = [rt_thread_suspend(s, t) EXCEPT !.armed = @ \union {t}, !.err[t] = e]
  PROVE  Slept(r, s, t, e)
<1> DEFINE u == rt_thread_suspend(s, t)
<1>1. t \in Thread /\ r = [u EXCEPT !.armed = @ \union {t}, !.err[t] = e]
  BY DEF IpcInv, KernelInv, ListFacts, KernelState
<1>2. /\ IpcInv(u) /\ u.cur = s.cur /\ u.prio = s.prio /\ u.err = s.err /\ u.lock = 0
      /\ u.stat = [s.stat EXCEPT ![t] = "suspend"]
      /\ u.armed = s.armed /\ u.wait = s.wait
  BY SuspendThread
<1> HIDE DEF u
<1>3. u \in KernelState /\ s.stat \in [Thread -> Stat] /\ u.stat[t] = "suspend"
  BY <1>1, <1>2 DEF IpcInv, KernelInv, ListFacts, KernelState
<1>4. /\ r \in KernelState /\ SameLists(r, u) /\ r.stat = u.stat /\ r.prio = u.prio
      /\ r.cur = u.cur /\ r.lock = u.lock /\ r.armed = u.armed \union {t}
      /\ r.err = [u.err EXCEPT ![t] = e]
  <2> DEFINE a == u.armed \union {t}
             f == [u.err EXCEPT ![t] = e]
  <2>1. a \subseteq Thread /\ f \in [Thread -> Error] /\ r = [u EXCEPT !.armed = a, !.err = f]
    BY <1>1, <1>3 DEF KernelState
  <2> HIDE DEF a, f
  <2>2. /\ r \in KernelState /\ SameLists(r, u) /\ r.stat = u.stat /\ r.prio = u.prio
        /\ r.cur = u.cur /\ r.lock = u.lock /\ r.armed = a /\ r.err = f
    BY <1>3, <2>1 DEF KernelState, SameLists
  <2> QED BY <2>2 DEF a, f
<1>5. IpcInv(r)
  <2>1. \A x \in r.armed : x \in u.armed \/ r.stat[x] = "suspend"
    BY <1>3, <1>4
  <2>2. ListFacts(r)
    BY <1>2, <1>4 DEF IpcInv, KernelInv, ListFacts, SameLists, GroupOK
  <2>3. StatFacts(r)
    <3>1. \A x \in Thread : (InReadyList(r, x) <=> InReadyList(u, x)) /\ (Dead(r, x) <=> Dead(u, x))
      BY <1>4 DEF SameLists, InReadyList, Dead
    <3>2. StatFacts(u) /\ Idle \in Thread
      BY <1>2, ThreadAssumption DEF IpcInv, KernelInv
    <3> QED BY <1>4, <2>1, <3>1, <3>2 DEF StatFacts
  <2>4. WaitFacts(r)
    <3>1. \A x \in Thread : r.stat[x] = u.stat[x] /\ \A w \in WaitList : On(r, w, x) <=> On(u, w, x)
      BY <1>4 DEF On, SameLists
    <3> QED BY <1>2, <1>4, <3>1 DEF IpcInv, WaitFacts, SameLists
  <2> QED BY <1>2, <1>4, <2>2, <2>3, <2>4 DEF IpcInv, KernelInv
<1> QED
  BY <1>2, <1>4, <1>5 DEF SameLists, Slept

-----------------------------------------------------------------------------
(* The kernel the modules about IPC objects start from. *)

\* SetToSeq lists the members of a finite set, each once.
LEMMA ListOfSet ==
  ASSUME NEW S, IsFiniteSet(S)
  PROVE  /\ SetToSeq(S) \in Seq(S) /\ NoRepeat(SetToSeq(S))
         /\ \A x : Contains(SetToSeq(S), x) <=> x \in S
<1> DEFINE n == Cardinality(S)
           q == SetToSeq(S)
<1>1. n \in Nat /\ \E f : f \in Bijection(1..n, S)
  BY FS_CardinalityType DEF ExistsBijection
<1>2. \E f \in [1..n -> S] : IsInjective(f)
  BY <1>1 DEF Bijection, Injection
<1>3. q \in [1..n -> S] /\ IsInjective(q)
  BY <1>2 DEF SetToSeq
<1> HIDE DEF n, q
<1>4. q \in Seq(S) /\ Len(q) = n /\ DOMAIN q = 1..n
  BY <1>1, <1>3
<1>5. NoRepeat(q)
  BY <1>3, <1>4 DEF NoRepeat, IsInjective
<1>6. q \in Surjection(1..n, S)
  <2>1. IsFiniteSet(1..n) /\ Cardinality(1..n) = n
    <3>1. 1 \in Int /\ n \in Int /\ (1 > n => n = 0)
      BY <1>1
    <3>2. /\ IsFiniteSet(1..n)
          /\ Cardinality(1..n) = IF 1 > n THEN 0 ELSE n - 1 + 1
      BY <3>1, FS_Interval
    <3> QED BY <1>1, <3>1, <3>2
  <2>2. q \in Injection(1..n, S)
    BY <1>3 DEF Injection
  <2>3. Cardinality(1..n) = Cardinality(S) <=> q \in Surjection(1..n, S)
    BY <2>2, FS_Injection
  <2> QED BY <2>1, <2>3 DEF n
<1>7. \A x : Contains(q, x) <=> x \in S
  BY <1>3, <1>4, <1>6 DEF Surjection, Contains
<1> QED
  BY <1>4, <1>5, <1>7 DEF q

\* The kernel after rt_system_scheduler_start, no thread on a suspend list.
LEMMA StartedInv ==
  ASSUME NEW main \in Thread, NEW prio \in [Thread -> Prio]
  PROVE  /\ IpcInv(Started(main, prio))
         /\ \A w \in WaitList, t \in Thread : ~On(Started(main, prio), w, t)
         /\ \A t \in Thread : InReadyList(Started(main, prio), t) <=> t # main
<1> DEFINE s == Started(main, prio)
           At(p) == {t \in Thread \ {main} : prio[t] = p}
<1>1. \A p \in Prio : /\ s.ready[p] \in Seq(Thread) /\ NoRepeat(s.ready[p])
                      /\ \A t : Contains(s.ready[p], t) <=> t \in At(p)
  <2> TAKE p \in Prio
  <2>1. s.ready[p] = SetToSeq(At(p))
    BY DEF Started
  <2>2. IsFiniteSet(At(p))
    BY ThreadAssumption, FS_Subset
  <2>3. /\ SetToSeq(At(p)) \in Seq(At(p)) /\ NoRepeat(SetToSeq(At(p)))
        /\ \A t : Contains(SetToSeq(At(p)), t) <=> t \in At(p)
    <3> HIDE DEF At
    <3> QED BY <2>2, ListOfSet
  <2>4. Seq(At(p)) \subseteq Seq(Thread)
    OBVIOUS
  <2> QED BY <2>1, <2>3, <2>4
<1>2. /\ s.stat = [t \in Thread |-> IF t = main THEN "running" ELSE "ready"]
      /\ s.prio = prio /\ s.group = {p \in Prio : At(p) # {}} /\ s.armed = {}
      /\ s.wait = [w \in WaitList |-> <<>>] /\ s.defunct = <<>>
      /\ s.cur = main /\ s.lock = 0 /\ s.yield = {} /\ s.ready \in [Prio -> Seq(Thread)]
      /\ s.err = [t \in Thread |-> "EOK"]
  BY <1>1 DEF Started
<1>3. s \in KernelState
  <2>1. /\ s = [ stat |-> s.stat, yield |-> s.yield, prio |-> s.prio,
                 err |-> s.err, armed |-> s.armed, ready |-> s.ready,
                 group |-> s.group, wait |-> s.wait, defunct |-> s.defunct,
                 cur |-> s.cur, lock |-> s.lock ]
    BY DEF Started
  <2>2. /\ s.stat \in [Thread -> Stat] /\ s.err \in [Thread -> Error]
        /\ s.wait \in [WaitList -> Seq(Thread)] /\ s.defunct \in Seq(Thread)
        /\ s.group \in SUBSET Prio /\ s.yield \in SUBSET Thread
        /\ s.armed \in SUBSET Thread /\ s.lock \in Nat
    BY <1>2 DEF Stat, Error
  <2> QED BY <1>2, <2>1, <2>2, KernelStateFields
<1> HIDE DEF s
<1>4. \A x : ~Contains(s.defunct, x) /\ \A w \in WaitList : ~Contains(s.wait[w], x)
  BY <1>2 DEF Contains
<1>5. \A p \in Prio : s.ready[p] # <<>> <=> At(p) # {}
  <2> TAKE p \in Prio
  <2>1. s.ready[p] \in Seq(Thread) /\ \A t : Contains(s.ready[p], t) <=> t \in At(p)
    BY <1>1
  <2>2. s.ready[p] = <<>> => \A t : ~Contains(s.ready[p], t)
    BY DEF Contains
  <2>3. s.ready[p] # <<>> => Contains(s.ready[p], s.ready[p][1])
    BY <2>1 DEF Contains
  <2> QED BY <2>1, <2>2, <2>3
<1>6. ListFacts(s)
  <2>1. \A w \in WaitList : NoRepeat(s.wait[w])
    BY <1>2 DEF NoRepeat
  <2>2. NoRepeat(s.defunct)
    BY <1>2 DEF NoRepeat
  <2>3. GroupOK(s)
    BY <1>2, <1>5 DEF GroupOK
  <2> QED BY <1>1, <1>2, <1>3, <2>1, <2>2, <2>3 DEF ListFacts
<1>7. \A t \in Thread : InReadyList(s, t) <=> t # main
  BY <1>1, <1>2 DEF InReadyList
<1>8. StatFacts(s)
  <2>1. /\ \A t \in Thread : s.stat[t] = IF t = main THEN "running" ELSE "ready"
        /\ s.armed = {} /\ s.cur = main
    BY <1>2
  <2>2. \A t \in Thread : ~Dead(s, t)
    BY <1>4 DEF Dead
  <2> QED BY ThreadAssumption, <1>7, <2>1, <2>2 DEF StatFacts
<1>9. WaitFacts(s)
  BY <1>4 DEF WaitFacts, On
<1> QED
  BY <1>2, <1>4, <1>6, <1>7, <1>8, <1>9 DEF IpcInv, KernelInv, On, s

-----------------------------------------------------------------------------
(* Threads that were woken and have not looked yet.  A thread is in a call that
   may wait on list w while it is at a label of ls.                            *)

Alert(s, at, w, ls) ==
  {t \in Thread : at[t] \in ls /\ s.err[t] = "EOK" /\ ~On(s, w, t)}

\* Who is on list w is in such a call, and the timer of a thread in such a call
\* has not been left running by its wake-up.
ListFits(s, at, w, ls) ==
  /\ \A t \in Thread : On(s, w, t) => at[t] \in ls
  /\ \A t \in s.armed : at[t] \in ls /\ s.err[t] = "EOK" => On(s, w, t)

\* While a thread waits on w, n threads at least are on their way.
Enough(s, at, w, ls, n) ==
  s.wait[w] # <<>> => Cardinality(Alert(s, at, w, ls)) >= n

\* No thread has come to list w; those that are still there were told nothing, and
\* no timer of theirs was started.
Fewer(r, s, w) ==
  \A x \in Thread : On(r, w, x) =>
    On(s, w, x) /\ r.err[x] = s.err[x] /\ (x \in r.armed => x \in s.armed)

\* Nobody but the timer of a thread took it off list w.
Stay(r, s, w) == \A x \in Thread : On(s, w, x) => On(r, w, x) \/ x \in s.armed

\* From s and `at' to r and `to', the threads on their way to what w is about are
\* the same, the same although some may have been told an error, one more, or all
\* but one.
AsMany(r, to, s, at, w, ls) ==
  /\ ListFits(r, to, w, ls) /\ Fewer(r, s, w)
  /\ Alert(r, to, w, ls) = Alert(s, at, w, ls)

Calm(r, to, s, at, w, ls) == AsMany(r, to, s, at, w, ls) /\ Stay(r, s, w)

Joins(r, to, s, at, w, ls, h) ==
  /\ ListFits(r, to, w, ls) /\ Fewer(r, s, w)
  /\ h \notin Alert(s, at, w, ls) /\ Alert(r, to, w, ls) = Alert(s, at, w, ls) \union {h}

Leaves(r, to, s, at, w, ls, t) ==
  /\ ListFits(r, to, w, ls) /\ Fewer(r, s, w) /\ Stay(r, s, w)
  /\ Alert(r, to, w, ls) = Alert(s, at, w, ls) \ {t}

\* These sets are finite.
LEMMA AlertFinite ==
  ASSUME NEW s, NEW at, NEW w, NEW ls
  PROVE  /\ IsFiniteSet(Alert(s, at, w, ls))
         /\ Cardinality(Alert(s, at, w, ls)) \in Nat
<1>1. Alert(s, at, w, ls) \subseteq Thread
  BY DEF Alert
<1>2. IsFiniteSet(Alert(s, at, w, ls))
  BY <1>1, ThreadAssumption, FS_Subset
<1> QED
  BY <1>2, FS_CardinalityType

\* A list that has become no longer is not empty only if it was not.
LEMMA FewerEmpty ==
  ASSUME NEW s, IpcInv(s), NEW r, IpcInv(r), NEW w \in WaitList, Fewer(r, s, w),
         r.wait[w] # <<>>
  PROVE  s.wait[w] # <<>>
<1>1. r.wait[w] \in Seq(Thread) /\ s.wait[w] \in Seq(Thread)
  BY DEF IpcInv, KernelInv, ListFacts, KernelState
<1>2. Head(r.wait[w]) \in Thread /\ On(r, w, Head(r.wait[w]))
  BY <1>1, HeadList DEF On
<1>3. On(s, w, Head(r.wait[w]))
  BY <1>2 DEF Fewer
<1>4. s.wait[w] = <<>> => ~On(s, w, Head(r.wait[w]))
  BY DEF On, Contains
<1> QED
  BY <1>3, <1>4

\* No thread more is needed than were on their way.
LEMMA EnoughKept ==
  ASSUME NEW s, IpcInv(s), NEW r, IpcInv(r), NEW at, NEW to, NEW w \in WaitList, NEW ls,
         NEW n \in Int, NEW m \in Int, m <= n, Enough(s, at, w, ls, n),
         AsMany(r, to, s, at, w, ls)
  PROVE  Enough(r, to, w, ls, m)
<1>1. Cardinality(Alert(s, at, w, ls)) \in Nat
  BY AlertFinite
<1>2. r.wait[w] # <<>> => s.wait[w] # <<>>
  BY FewerEmpty DEF Calm, AsMany, Stay
<1> QED
  BY <1>1, <1>2 DEF Enough, Calm, AsMany, Stay

\* One thread more is on its way.
LEMMA EnoughMore ==
  ASSUME NEW s, IpcInv(s), NEW r, IpcInv(r), NEW at, NEW to, NEW w \in WaitList, NEW ls,
         NEW n \in Int, NEW m \in Int, m <= n + 1, Enough(s, at, w, ls, n),
         NEW h, Joins(r, to, s, at, w, ls, h)
  PROVE  Enough(r, to, w, ls, m)
<1> DEFINE A == Alert(s, at, w, ls)
<1>1. IsFiniteSet(A) /\ Cardinality(A) \in Nat
  BY AlertFinite
<1>2. Cardinality(A \union {h}) = Cardinality(A) + 1
  BY <1>1, FS_AddElement DEF Joins
<1>3. r.wait[w] # <<>> => s.wait[w] # <<>>
  BY FewerEmpty DEF Joins
<1> QED
  BY <1>1, <1>2, <1>3 DEF Enough, Joins

\* One thread less is on its way, and one less is needed.
LEMMA EnoughLess ==
  ASSUME NEW s, IpcInv(s), NEW r, IpcInv(r), NEW at, NEW to, NEW w \in WaitList, NEW ls,
         NEW n \in Int, NEW m \in Int, m <= n - 1, Enough(s, at, w, ls, n),
         NEW t, Leaves(r, to, s, at, w, ls, t)
  PROVE  Enough(r, to, w, ls, m)
<1> DEFINE A == Alert(s, at, w, ls)
<1>1. IsFiniteSet(A) /\ Cardinality(A) \in Nat
  BY AlertFinite
<1>2. Cardinality(A \ {t}) >= Cardinality(A) - 1
  <2>1. Cardinality(A \ {t}) = IF t \in A THEN Cardinality(A) - 1 ELSE Cardinality(A)
    BY <1>1, FS_RemoveElement
  <2> QED BY <1>1, <2>1
<1>3. Cardinality(A \ {t}) \in Nat
  BY AlertFinite DEF Leaves, Stay
<1>4. r.wait[w] # <<>> => s.wait[w] # <<>>
  BY FewerEmpty DEF Leaves, Stay
<1> QED
  BY <1>1, <1>2, <1>3, <1>4 DEF Enough, Leaves, Stay

\* None is needed.
LEMMA EnoughNone ==
  ASSUME NEW s, NEW at, NEW w, NEW ls, NEW n \in Int, n <= 0
  PROVE  Enough(s, at, w, ls, n)
<1>1. Cardinality(Alert(s, at, w, ls)) \in Nat
  BY AlertFinite
<1> QED
  BY <1>1 DEF Enough

\* rt_schedule, behind which the thread that called it goes on in the same call.
LEMMA ScheduleCalm ==
  ASSUME NEW s, IpcInv(s), NEW r, Rescheduled(r, s), NEW at, NEW to, NEW w \in WaitList, NEW ls,
         \A x \in Thread : at[x] \in ls <=> to[x] \in ls, ListFits(s, at, w, ls)
  PROVE  Calm(r, to, s, at, w, ls)
<1>1. \A x \in Thread : On(r, w, x) <=> On(s, w, x)
  BY DEF Rescheduled, On
<1>2. r.armed = s.armed /\ r.err = s.err /\ s.armed \subseteq Thread
  BY DEF Rescheduled, IpcInv, KernelInv, ListFacts, KernelState
<1> QED
  BY <1>1, <1>2 DEF Calm, AsMany, Stay, ListFits, Alert, Fewer

\* A thread is woken with an error, or while it is in another call.
LEMMA WokeCalm ==
  ASSUME NEW s, IpcInv(s), NEW r, NEW h \in Thread, NEW e \in Error, Woke(r, s, h, e),
         NEW at, NEW w \in WaitList, NEW ls, ListFits(s, at, w, ls),
         at[h] \in ls => e # "EOK" /\ h \notin Alert(s, at, w, ls)
  PROVE  /\ AsMany(r, at, s, at, w, ls)
         /\ ~On(s, w, h) \/ h \in s.armed => Calm(r, at, s, at, w, ls)
<1>1. /\ \A x \in Thread : On(r, w, x) <=> On(s, w, x) /\ x # h
      /\ r.armed = s.armed \ {h} /\ r.err = [s.err EXCEPT ![h] = e]
      /\ s.armed \subseteq Thread /\ s.err \in [Thread -> Error]
  BY DEF Woke, IpcInv, KernelInv, ListFacts, KernelState
<1>2. \A x \in Thread : r.err[x] = IF x = h THEN e ELSE s.err[x]
  BY <1>1
<1>3. ListFits(r, at, w, ls)
  BY <1>1, <1>2 DEF ListFits
<1>4. \A x \in Thread : x \in Alert(r, at, w, ls) <=> x \in Alert(s, at, w, ls)
  BY <1>1, <1>2 DEF Alert, ListFits
<1>5. Alert(r, at, w, ls) = Alert(s, at, w, ls)
  BY <1>4 DEF Alert
<1> QED
  BY <1>1, <1>3, <1>5 DEF Calm, AsMany, Stay, Fewer

\* A thread on list w is woken for what w is about.
LEMMA WokeJoins ==
  ASSUME NEW s, IpcInv(s), NEW r, NEW h \in Thread, Woke(r, s, h, "EOK"),
         NEW at, NEW w \in WaitList, NEW ls, ListFits(s, at, w, ls), On(s, w, h)
  PROVE  Joins(r, at, s, at, w, ls, h)
<1>1. /\ \A x \in Thread : On(r, w, x) <=> On(s, w, x) /\ x # h
      /\ r.armed = s.armed \ {h} /\ r.err = [s.err EXCEPT ![h] = "EOK"]
      /\ s.armed \subseteq Thread /\ s.err \in [Thread -> Error]
  BY DEF Woke, IpcInv, KernelInv, ListFacts, KernelState
<1>2. \A x \in Thread : r.err[x] = IF x = h THEN "EOK" ELSE s.err[x]
  BY <1>1
<1>3. ListFits(r, at, w, ls)
  BY <1>1, <1>2 DEF ListFits
<1>4. \A x \in Thread : x \in Alert(r, at, w, ls) <=> x \in Alert(s, at, w, ls) \/ x = h
  BY <1>1, <1>2 DEF Alert, ListFits
<1>5. Alert(r, at, w, ls) = Alert(s, at, w, ls) \union {h}
  BY <1>4 DEF Alert
<1>6. h \notin Alert(s, at, w, ls)
  BY DEF Alert
<1> QED
  BY <1>1, <1>3, <1>5, <1>6 DEF Joins, Fewer

\* The timer of a thread expires.
LEMMA TimeoutCalm ==
  ASSUME NEW s, IpcInv(s), NEW t \in s.armed, NEW at, NEW w \in WaitList, NEW ls,
         ListFits(s, at, w, ls)
  PROVE  Calm(_thread_timeout(s, t), at, s, at, w, ls)
<1>1. t \in Thread
  BY TimeoutWakes
<1>2. PICK u : Woke(u, s, t, "ETIMEOUT") /\ Rescheduled(_thread_timeout(s, t), u)
  BY TimeoutWakes
<1>3. t \notin Alert(s, at, w, ls) /\ "ETIMEOUT" \in Error
  BY DEF Alert, ListFits, Error
<1>4. Calm(u, at, s, at, w, ls)
  BY <1>1, <1>2, <1>3, WokeCalm
<1>5. Calm(_thread_timeout(s, t), at, u, at, w, ls)
  BY <1>2, <1>4, ScheduleCalm DEF Woke, Calm, AsMany, Stay
<1> QED
  BY <1>4, <1>5 DEF Calm, AsMany, Stay, Fewer

\* A thread that waits nowhere and has no timer goes on elsewhere; only its own
\* error may change.
MovesOn(r, to, s, at, t, l) ==
  /\ r.wait = s.wait /\ r.armed \subseteq s.armed \union {t}
  /\ \A x \in Thread \ {t} : r.err[x] = s.err[x]
  /\ to = [at EXCEPT ![t] = l]

\* Outside the calls that may wait on w.
LEMMA MoveLeaves ==
  ASSUME NEW s, NEW r, NEW t \in Thread, ~WaitsSomewhere(s, t), NEW at, NEW X, at \in [Thread -> X],
         NEW l, NEW to, MovesOn(r, to, s, at, t, l),
         NEW w \in WaitList, NEW ls, ListFits(s, at, w, ls), l \notin ls,
         r.armed \subseteq Thread
  PROVE  Leaves(r, to, s, at, w, ls, t)
<1>1. \A x \in Thread : to[x] = IF x = t THEN l ELSE at[x]
  BY DEF MovesOn
<1>2. \A x \in Thread : On(r, w, x) <=> On(s, w, x)
  BY DEF MovesOn, On
<1>3. ~On(s, w, t)
  BY DEF On, WaitsSomewhere
<1>4. /\ \A x \in Thread \ {t} : r.err[x] = s.err[x]
      /\ \A x \in r.armed : x \in s.armed \/ x = t
  BY DEF MovesOn
<1>5. ListFits(r, to, w, ls)
  BY <1>1, <1>2, <1>3, <1>4 DEF ListFits
<1>6. \A x \in Thread : x \in Alert(r, to, w, ls) <=> x \in Alert(s, at, w, ls) /\ x # t
  BY <1>1, <1>2, <1>4 DEF Alert
<1>7. Alert(r, to, w, ls) = Alert(s, at, w, ls) \ {t}
  BY <1>6 DEF Alert
<1> QED
  BY <1>2, <1>3, <1>4, <1>5, <1>7 DEF Leaves, Stay, Fewer

\* One that was not on its way changes nothing by leaving.
LEMMA LeavesCalm ==
  ASSUME NEW s, NEW r, NEW at, NEW to, NEW w, NEW ls, NEW t, Leaves(r, to, s, at, w, ls, t),
         t \notin Alert(s, at, w, ls)
  PROVE  Calm(r, to, s, at, w, ls)
BY DEF Leaves, Calm, AsMany, Stay

\* Thread t is at l now, the others where they were.
Moved(to, at, t, l) == \A x \in Thread : to[x] = IF x = t THEN l ELSE at[x]

\* From s to r thread t has been linked on list w, for some time.
Waited(r, s, w, t) ==
  \E e \in Error, finite \in BOOLEAN : Waits(r, s, w, t, e, finite)

\* The running thread begins to wait on list w, or on another one.
LEMMA WaitsListed ==
  ASSUME NEW s, IpcInv(s), NEW t \in Thread, NEW v \in WaitList,
         NEW r, Waited(r, s, v, t), NEW at, NEW l, NEW to, Moved(to, at, t, l),
         NEW w \in WaitList, NEW ls, ListFits(s, at, w, ls), ~WaitsSomewhere(s, t),
         w = v <=> l \in ls
  PROVE  /\ ListFits(r, to, w, ls)
         /\ w # v => Leaves(r, to, s, at, w, ls, t)
<1> PICK e \in Error, finite \in BOOLEAN : Waits(r, s, v, t, e, finite)
  BY DEF Waited
<1>1. \A x \in Thread : to[x] = IF x = t THEN l ELSE at[x]
  BY DEF Moved
<1>2. \A x \in Thread : On(r, w, x) <=> On(s, w, x) \/ (w = v /\ x = t)
  BY DEF Waits
<1>3. /\ s.err \in [Thread -> Error] /\ s.armed \subseteq Thread
      /\ r.err = [s.err EXCEPT ![t] = e]
      /\ r.armed = IF finite THEN s.armed \union {t} ELSE s.armed
  BY DEF Waits, IpcInv, KernelInv, ListFacts, KernelState
<1>4. /\ \A x \in Thread : r.err[x] = IF x = t THEN e ELSE s.err[x]
      /\ \A x \in r.armed : x \in Thread /\ (x \in s.armed \/ x = t)
  BY <1>3
<1>5. ~On(s, w, t)
  BY DEF On, WaitsSomewhere
<1>6. ListFits(r, to, w, ls)
  <2>1. ASSUME NEW x \in Thread, On(r, w, x) PROVE to[x] \in ls
    BY <1>1, <1>2, <1>5, <2>1 DEF ListFits
  <2>2. ASSUME NEW x \in r.armed, to[x] \in ls, r.err[x] = "EOK" PROVE On(r, w, x)
    <3>1. CASE x = t
      BY <1>1, <1>2, <1>4, <2>2, <3>1
    <3>2. CASE x # t
      BY <1>1, <1>2, <1>4, <2>2, <3>2 DEF ListFits
    <3> QED BY <3>1, <3>2
  <2> QED BY <2>1, <2>2 DEF ListFits
<1>7. ASSUME w # v PROVE Leaves(r, to, s, at, w, ls, t)
  <2>1. \A x \in Thread : x \in Alert(r, to, w, ls) <=> x \in Alert(s, at, w, ls) /\ x # t
    BY <1>1, <1>2, <1>4, <1>7 DEF Alert
  <2>2. Alert(r, to, w, ls) = Alert(s, at, w, ls) \ {t}
    BY <2>1 DEF Alert
  <2>3. Fewer(r, s, w) /\ Stay(r, s, w)
    BY <1>2, <1>4, <1>5, <1>7 DEF Fewer, Stay
  <2> QED BY <1>6, <2>2, <2>3 DEF Leaves
<1> QED
  BY <1>6, <1>7

\* Threads of list v have been woken.
LEMMA PartlyWokeFits ==
  ASSUME NEW s, IpcInv(s), NEW v \in WaitList, NEW e, NEW r, PartlyWoke(r, s, v, e),
         NEW at, NEW ls, ListFits(s, at, v, ls)
  PROVE  ListFits(r, at, v, ls) /\ Fewer(r, s, v)
<1>1. ASSUME NEW x \in Thread
      PROVE  /\ On(r, v, x) => On(s, v, x)
             /\ IF On(s, v, x) /\ ~On(r, v, x)
                THEN r.err[x] = e /\ x \notin r.armed
                ELSE r.err[x] = s.err[x] /\ (x \in r.armed <=> x \in s.armed)
  BY DEF PartlyWoke
<1>2. s.armed \subseteq Thread /\ r.armed \subseteq Thread
  BY DEF PartlyWoke, IpcInv, KernelInv, ListFacts, KernelState
<1>3. ListFits(r, at, v, ls)
  BY <1>1, <1>2 DEF ListFits
<1> QED
  BY <1>1, <1>3 DEF Fewer

\* Nothing changes for the other lists.
LEMMA PartlyWokeCalm ==
  ASSUME NEW s, IpcInv(s), NEW v \in WaitList, NEW e, NEW r, PartlyWoke(r, s, v, e),
         NEW at, NEW w \in WaitList, w # v, NEW ls, ListFits(s, at, w, ls),
         \A x \in Thread : On(s, v, x) => at[x] \notin ls
  PROVE  Calm(r, at, s, at, w, ls)
<1>1. ASSUME NEW x \in Thread
      PROVE  /\ On(r, w, x) <=> On(s, w, x)
             /\ IF On(s, v, x) /\ ~On(r, v, x)
                THEN r.err[x] = e /\ x \notin r.armed
                ELSE r.err[x] = s.err[x] /\ (x \in r.armed <=> x \in s.armed)
  BY DEF PartlyWoke, On
<1>2. s.armed \subseteq Thread /\ r.armed \subseteq Thread
  BY DEF PartlyWoke, IpcInv, KernelInv, ListFacts, KernelState
<1>3. ListFits(r, at, w, ls)
  BY <1>1, <1>2 DEF ListFits
<1>4. \A x \in Thread : x \in Alert(r, at, w, ls) <=> x \in Alert(s, at, w, ls)
  BY <1>1 DEF Alert
<1>5. Alert(r, at, w, ls) = Alert(s, at, w, ls)
  BY <1>4 DEF Alert
<1>6. \A x \in Thread : On(s, w, x) => ~On(s, v, x)
  BY DEF IpcInv, WaitFacts, On
<1>7. Fewer(r, s, w) /\ Stay(r, s, w)
  BY <1>1, <1>6 DEF Fewer, Stay
<1> QED
  BY <1>3, <1>5, <1>7 DEF Calm, AsMany

\* Nor for the list itself, when its threads were woken with an error.
LEMMA ErrorsAsMany ==
  ASSUME NEW s, IpcInv(s), NEW v \in WaitList, NEW e, e # "EOK", NEW r, PartlyWoke(r, s, v, e),
         NEW at, NEW ls, ListFits(s, at, v, ls)
  PROVE  AsMany(r, at, s, at, v, ls)
<1>1. ListFits(r, at, v, ls) /\ Fewer(r, s, v)
  BY PartlyWokeFits
<1>2. ASSUME NEW x \in Thread
      PROVE  /\ On(r, v, x) => On(s, v, x)
             /\ IF On(s, v, x) /\ ~On(r, v, x) THEN r.err[x] = e ELSE r.err[x] = s.err[x]
  BY DEF PartlyWoke
<1>3. \A x \in Thread : x \in Alert(r, at, v, ls) <=> x \in Alert(s, at, v, ls)
  BY <1>2 DEF Alert
<1>4. Alert(r, at, v, ls) = Alert(s, at, v, ls)
  BY <1>3 DEF Alert
<1> QED
  BY <1>1, <1>4 DEF Calm, AsMany, Stay

-----------------------------------------------------------------------------
(* The calls of an application on its IPC objects.  c names the labels of its
   threads (labels), those of the calls that may wait on each list (lists), those
   where rt_schedule is next, whether the thread runs or not (out), and those with
   the scheduler locked (locked).                                              *)

CallsOK(c) ==
  /\ "run" \in c.labels \ (c.out \union c.locked) /\ "resched" \in c.labels \ c.locked
  /\ "resched" \in c.out /\ c.out \intersect c.locked = {}
  /\ \A w \in WaitList : "run" \notin c.lists[w] /\ "resched" \notin c.lists[w]
  /\ \A v, w \in WaitList : v # w => c.lists[v] \intersect c.lists[w] = {}

\* Nobody but the current thread is where the scheduler is locked.
LockFits(s, at, c) ==
  /\ \A t \in Thread : at[t] \in c.locked => t = s.cur
  /\ s.lock = IF at[s.cur] \in c.locked THEN 1 ELSE 0

\* The threads are where the kernel has them.
Sound(s, at, c) ==
  /\ IpcInv(s) /\ at \in [Thread -> c.labels] /\ at[Idle] = "run"
  /\ at[s.cur] \notin c.out => s.stat[s.cur] = "running"
  /\ LockFits(s, at, c)
  /\ \A w \in WaitList : ListFits(s, at, w, c.lists[w])

\* A thread that is given the processor, and is not about to give it away, is
\* running: it waits nowhere and has no timer.
LEMMA CallerRuns ==
  ASSUME NEW s, NEW at, NEW c, Sound(s, at, c), at[s.cur] \notin c.out
  PROVE  /\ s.cur \in Thread /\ s.stat[s.cur] = "running"
         /\ ~WaitsSomewhere(s, s.cur) /\ s.cur \notin s.armed
         /\ at[s.cur] \notin c.locked => s.lock = 0
<1>1. /\ IpcInv(s) /\ s.stat[s.cur] = "running" /\ s.cur \in Thread
  BY DEF Sound, IpcInv, KernelInv, ListFacts, KernelState
<1>2. \A w \in WaitList : ~On(s, w, s.cur)
  BY <1>1 DEF IpcInv, WaitFacts
<1>3. s.cur \notin s.armed
  BY <1>1 DEF IpcInv, KernelInv, StatFacts
<1>4. at[s.cur] \notin c.locked => s.lock = 0
  BY DEF Sound, LockFits
<1> QED
  BY <1>1, <1>2, <1>3, <1>4 DEF WaitsSomewhere, On

\* rt_schedule from an interrupt.
LEMMA SoundSchedules ==
  ASSUME NEW s, NEW at, NEW c, Sound(s, at, c), NEW r, Rescheduled(r, s)
  PROVE  /\ Sound(r, at, c)
         /\ \A w \in WaitList : Calm(r, at, s, at, w, c.lists[w])
<1>1. IpcInv(s) /\ at \in [Thread -> c.labels] /\ LockFits(s, at, c)
  BY DEF Sound
<1>2. \A w \in WaitList : Calm(r, at, s, at, w, c.lists[w])
  <2> TAKE w \in WaitList
  <2> DEFINE ls == c.lists[w]
  <2>1. ListFits(s, at, w, ls)
    BY DEF Sound
  <2>2. \A x \in Thread : at[x] \in ls <=> at[x] \in ls
    OBVIOUS
  <2> HIDE DEF ls
  <2>3. Calm(r, at, s, at, w, ls)
    BY <1>1, <2>1, <2>2, ScheduleCalm
  <2> QED BY <2>3 DEF ls
<1>3. IpcInv(r) /\ r.stat[r.cur] = "running" /\ r.cur \in Thread /\ s.cur \in Thread
  BY <1>1 DEF Rescheduled, IpcInv, KernelInv, ListFacts, KernelState
<1>4. r.lock = s.lock /\ (s.lock # 0 => r.cur = s.cur)
  BY DEF Rescheduled
<1>5. LockFits(r, at, c)
  BY <1>1, <1>3, <1>4 DEF LockFits
<1>6. \A w \in WaitList : ListFits(r, at, w, c.lists[w])
  BY <1>2 DEF Calm, AsMany, Stay
<1> QED
  BY <1>2, <1>3, <1>5, <1>6 DEF Sound

\* The current thread calls rt_schedule, and goes on in the same call.
LEMMA SoundGoesOn ==
  ASSUME NEW s, NEW at, NEW c, CallsOK(c), Sound(s, at, c), NEW t, t = s.cur, at[t] \in c.out,
         NEW l \in c.labels \ c.locked, NEW to, to = [at EXCEPT ![t] = l],
         \A w \in WaitList : at[t] \in c.lists[w] <=> l \in c.lists[w],
         NEW r, Rescheduled(r, s)
  PROVE  /\ Sound(r, to, c)
         /\ \A w \in WaitList : Calm(r, to, s, at, w, c.lists[w])
<1>1. IpcInv(s) /\ at \in [Thread -> c.labels] /\ LockFits(s, at, c) /\ at[Idle] = "run"
  BY DEF Sound
<1>2. IpcInv(r) /\ r.stat[r.cur] = "running" /\ r.cur \in Thread /\ t \in Thread
  BY <1>1 DEF Rescheduled, IpcInv, KernelInv, ListFacts, KernelState
<1>3. to \in [Thread -> c.labels] /\ \A x \in Thread : to[x] = IF x = t THEN l ELSE at[x]
  BY <1>1
<1>4. \A w \in WaitList : Calm(r, to, s, at, w, c.lists[w])
  <2> TAKE w \in WaitList
  <2> DEFINE ls == c.lists[w]
  <2>1. ListFits(s, at, w, ls)
    BY DEF Sound
  <2>2. \A x \in Thread : at[x] \in ls <=> to[x] \in ls
    BY <1>3
  <2> HIDE DEF ls
  <2>3. Calm(r, to, s, at, w, ls)
    BY <1>1, <2>1, <2>2, ScheduleCalm
  <2> QED BY <2>3 DEF ls
<1>5. at[t] \notin c.locked /\ s.lock = 0 /\ t # Idle
  BY <1>1 DEF CallsOK, LockFits
<1>6. LockFits(r, to, c)
  <2>1. r.lock = 0
    BY <1>5 DEF Rescheduled
  <2>2. \A x \in Thread : at[x] \notin c.locked
    BY <1>1, <1>5 DEF LockFits
  <2> QED BY <1>2, <1>3, <2>1, <2>2 DEF LockFits
<1>7. \A w \in WaitList : ListFits(r, to, w, c.lists[w])
  BY <1>4 DEF Calm, AsMany, Stay
<1>8. to[Idle] = "run"
  BY <1>1, <1>3, <1>5, ThreadAssumption
<1> QED
  BY <1>2, <1>3, <1>4, <1>6, <1>7, <1>8 DEF Sound

\* The timer of a thread expires.
LEMMA SoundTimeout ==
  ASSUME NEW s, NEW at, NEW c, Sound(s, at, c), NEW t \in s.armed
  PROVE  /\ Sound(_thread_timeout(s, t), at, c)
         /\ \A w \in WaitList : Calm(_thread_timeout(s, t), at, s, at, w, c.lists[w])
<1> DEFINE r == _thread_timeout(s, t)
<1>1. IpcInv(s) /\ at \in [Thread -> c.labels] /\ LockFits(s, at, c)
  BY DEF Sound
<1>2. PICK u : Woke(u, s, t, "ETIMEOUT") /\ Rescheduled(r, u)
  BY <1>1, TimeoutWakes
<1>3. \A w \in WaitList : Calm(r, at, s, at, w, c.lists[w])
  BY <1>1, TimeoutCalm DEF Sound
<1> HIDE DEF r
<1>4. IpcInv(r) /\ r.stat[r.cur] = "running" /\ r.cur \in Thread /\ s.cur \in Thread
  BY <1>1, <1>2 DEF Rescheduled, IpcInv, KernelInv, ListFacts, KernelState
<1>5. r.lock = s.lock /\ (s.lock # 0 => r.cur = s.cur)
  BY <1>2 DEF Rescheduled, Woke
<1>6. LockFits(r, at, c)
  BY <1>1, <1>4, <1>5 DEF LockFits
<1>7. \A w \in WaitList : ListFits(r, at, w, c.lists[w])
  BY <1>3 DEF Calm, AsMany, Stay
<1>8. Sound(r, at, c)
  BY <1>1, <1>4, <1>6, <1>7 DEF Sound
<1> QED
  BY <1>3, <1>8 DEF r

\* The slice of the current thread ends.
LEMMA SoundSlice ==
  ASSUME NEW s, NEW at, NEW c, Sound(s, at, c), NEW r,
         r = rt_schedule([s EXCEPT !.yield = @ \union {s.cur}])
  PROVE  /\ Sound(r, at, c)
         /\ \A w \in WaitList : Calm(r, at, s, at, w, c.lists[w])
<1>1. Rescheduled(r, s)
  BY SliceEnds DEF Sound
<1> QED
  BY <1>1, SoundSchedules

\* The current thread goes on; at most its own error changes.
LEMMA SoundMoves ==
  ASSUME NEW s, NEW at, NEW c, CallsOK(c), Sound(s, at, c), NEW t, t = s.cur,
         at[t] \notin c.out, NEW l \in c.labels, at[t] \in c.locked <=> l \in c.locked,
         l = "run" \/ t # Idle, NEW to, to = [at EXCEPT ![t] = l],
         NEW r, r = s \/ \E e \in Error : GivenError(r, s, t, e)
  PROVE  /\ Sound(r, to, c)
         /\ \A w \in WaitList : l \notin c.lists[w] => Leaves(r, to, s, at, w, c.lists[w], t)
         /\ \A w \in WaitList : l \notin c.lists[w] /\ at[t] \notin c.lists[w]
                                  => Calm(r, to, s, at, w, c.lists[w])
<1>1. IpcInv(s) /\ at \in [Thread -> c.labels] /\ LockFits(s, at, c) /\ at[Idle] = "run"
  BY DEF Sound
<1>2. t \in Thread /\ s.stat[t] = "running" /\ ~WaitsSomewhere(s, t) /\ t \notin s.armed
  BY CallerRuns
<1>3. /\ IpcInv(r) /\ r.wait = s.wait /\ r.stat = s.stat /\ r.armed = s.armed /\ r.cur = s.cur
      /\ r.lock = s.lock /\ \A x \in Thread \ {t} : r.err[x] = s.err[x]
  <2>1. CASE r = s
    BY <1>1, <2>1
  <2>2. CASE \E e \in Error : GivenError(r, s, t, e)
    <3>1. PICK e \in Error : GivenError(r, s, t, e)
      BY <2>2
    <3>2. /\ IpcInv(r) /\ SameLists(r, s) /\ r.stat = s.stat /\ r.armed = s.armed
          /\ r.cur = s.cur /\ r.lock = s.lock /\ r.err = [s.err EXCEPT ![t] = e]
      BY <1>1, <1>2, <3>1, ErrorGiven
    <3>3. s.err \in [Thread -> Error]
      BY <1>1 DEF IpcInv, KernelInv, ListFacts, KernelState
    <3> QED BY <3>2, <3>3 DEF SameLists
  <2> QED BY <2>1, <2>2
<1>4. to \in [Thread -> c.labels] /\ \A x \in Thread : to[x] = IF x = t THEN l ELSE at[x]
  BY <1>1
<1>5. MovesOn(r, to, s, at, t, l) /\ r.armed \subseteq Thread
  BY <1>1, <1>3 DEF MovesOn, IpcInv, KernelInv, ListFacts, KernelState
<1>6. \A w \in WaitList : ListFits(r, to, w, c.lists[w])
  <2> TAKE w \in WaitList
  <2>1. ListFits(s, at, w, c.lists[w]) /\ ~On(s, w, t) /\ t \notin s.armed
    BY <1>2 DEF Sound, On, WaitsSomewhere
  <2>2. \A x \in Thread : On(r, w, x) <=> On(s, w, x)
    BY <1>3 DEF On
  <2>3. r.armed = s.armed /\ s.armed \subseteq Thread
    BY <1>3, <1>5
  <2> QED BY <1>3, <1>4, <2>1, <2>2, <2>3 DEF ListFits
<1>7. ASSUME NEW w \in WaitList, l \notin c.lists[w]
      PROVE  Leaves(r, to, s, at, w, c.lists[w], t)
  <2> DEFINE ls == c.lists[w]
             X == c.labels
  <2>1. ListFits(s, at, w, ls) /\ l \notin ls /\ at \in [Thread -> X]
    BY <1>1, <1>7 DEF Sound
  <2> HIDE DEF ls, X
  <2>2. Leaves(r, to, s, at, w, ls, t)
    BY <1>2, <1>5, <2>1, MoveLeaves
  <2> QED BY <2>2 DEF ls
<1>8. ASSUME NEW w \in WaitList, l \notin c.lists[w], at[t] \notin c.lists[w]
      PROVE  Calm(r, to, s, at, w, c.lists[w])
  <2>1. t \notin Alert(s, at, w, c.lists[w])
    BY <1>8 DEF Alert
  <2> QED BY <1>7, <1>8, <2>1, LeavesCalm
<1>9. LockFits(r, to, c)
  BY <1>1, <1>2, <1>3, <1>4 DEF LockFits
<1>10. to[Idle] = "run"
  BY <1>1, <1>4, ThreadAssumption
<1>11. Sound(r, to, c)
  BY <1>2, <1>3, <1>4, <1>6, <1>9, <1>10 DEF Sound
<1> QED
  BY <1>7, <1>8, <1>11

\* The current thread is suspended, and is on no list.
Stopped(r, s, t) ==
  /\ IpcInv(r) /\ r.cur = s.cur /\ r.lock = s.lock /\ r.wait = s.wait
  /\ r.armed \subseteq s.armed \union {t}
  /\ \A x \in Thread \ {t} : r.err[x] = s.err[x]

GoesTo(to, at, t, l) == to = [at EXCEPT ![t] = l]

\* The current thread leaves the processor, at a place of no list.
LEMMA SoundStops ==
  ASSUME NEW s, NEW at, NEW c, CallsOK(c), Sound(s, at, c), NEW t, t = s.cur,
         at[t] \notin c.out \union c.locked, t # Idle,
         NEW l \in c.labels, l \in c.out, \A v \in WaitList : {at[t], l} \intersect c.lists[v] = {},
         NEW to, GoesTo(to, at, t, l), NEW r, Stopped(r, s, t)
  PROVE  /\ Sound(r, to, c)
         /\ \A w \in WaitList : Calm(r, to, s, at, w, c.lists[w])
<1>1. IpcInv(s) /\ at \in [Thread -> c.labels] /\ LockFits(s, at, c) /\ at[Idle] = "run"
  BY DEF Sound
<1>2. at[t] \notin c.out /\ at[t] \notin c.locked /\ l \notin c.locked
  BY DEF CallsOK
<1>3. t \in Thread /\ ~WaitsSomewhere(s, t) /\ t \notin s.armed
  BY <1>2, CallerRuns
<1>4. s.lock = 0 /\ \A x \in Thread : at[x] \notin c.locked
  BY <1>1, <1>2 DEF LockFits
<1>5. IpcInv(r) /\ r.cur = s.cur /\ r.lock = s.lock
  BY DEF Stopped
<1>6. to \in [Thread -> c.labels] /\ \A x \in Thread : to[x] = IF x = t THEN l ELSE at[x]
  BY <1>1 DEF GoesTo
<1>7. MovesOn(r, to, s, at, t, l) /\ r.armed \subseteq Thread
  BY <1>5 DEF GoesTo, MovesOn, Stopped, IpcInv, KernelInv, ListFacts, KernelState
<1>8. \A w \in WaitList : Calm(r, to, s, at, w, c.lists[w])
  <2> TAKE w \in WaitList
  <2> DEFINE ls == c.lists[w]
             X == c.labels
  <2>1. ListFits(s, at, w, ls) /\ l \notin ls /\ at \in [Thread -> X] /\ at[t] \notin ls
    BY <1>1 DEF Sound
  <2> HIDE DEF ls, X
  <2>2. Leaves(r, to, s, at, w, ls, t)
    BY <1>3, <1>7, <2>1, MoveLeaves
  <2>3. t \notin Alert(s, at, w, ls)
    BY <2>1 DEF Alert
  <2>4. Calm(r, to, s, at, w, ls)
    BY <2>2, <2>3, LeavesCalm
  <2> QED BY <2>4 DEF ls
<1>9. LockFits(r, to, c)
  <2>1. \A x \in Thread : to[x] \notin c.locked
    BY <1>2, <1>4, <1>6
  <2> QED BY <1>3, <1>4, <1>5, <2>1 DEF LockFits
<1>10. to[Idle] = "run" /\ to[r.cur] \in c.out
  BY <1>1, <1>3, <1>5, <1>6, ThreadAssumption
<1>11. Sound(r, to, c)
  <2>1. \A w \in WaitList : ListFits(r, to, w, c.lists[w])
    BY <1>8 DEF Calm, AsMany, Stay
  <2> QED BY <1>5, <1>6, <1>9, <1>10, <2>1 DEF Sound
<1> QED
  BY <1>8, <1>11

\* A sleep is such a stop.
LEMMA SleptStopped ==
  ASSUME NEW s, IpcInv(s), NEW t, NEW e, NEW r, Slept(r, s, t, e)
  PROVE  Stopped(r, s, t)
<1>1. s.err \in [Thread -> Error]
  BY DEF IpcInv, KernelInv, ListFacts, KernelState
<1> QED
  BY <1>1 DEF Slept, Stopped

\* The current thread sleeps.
LEMMA SoundSleeps ==
  ASSUME NEW s, NEW at, NEW c, CallsOK(c), Sound(s, at, c), NEW t, t = s.cur,
         at[t] = "run", t # Idle, NEW to, to = [at EXCEPT ![t] = "resched"], NEW e \in Error,
         NEW r, Slept(r, s, t, e)
  PROVE  /\ Sound(r, to, c)
         /\ \A w \in WaitList : Calm(r, to, s, at, w, c.lists[w])
<1>1. Stopped(r, s, t)
  BY SleptStopped DEF Sound
<1>2. /\ at[t] \notin c.out \union c.locked /\ "resched" \in c.labels /\ "resched" \in c.out
      /\ \A v \in WaitList : {at[t], "resched"} \intersect c.lists[v] = {}
  BY DEF CallsOK
<1> DEFINE l == "resched"
<1>3. /\ l \in c.labels /\ l \in c.out /\ GoesTo(to, at, t, l)
      /\ \A v \in WaitList : {at[t], l} \intersect c.lists[v] = {}
  BY <1>2 DEF GoesTo
<1> HIDE DEF l
<1> QED
  BY <1>1, <1>2, <1>3, SoundStops

\* The first thread of list w is woken.
LEMMA SoundWakes ==
  ASSUME NEW s, NEW at, NEW c, CallsOK(c), Sound(s, at, c), NEW w \in WaitList,
         NEW h \in Thread, On(s, w, h), NEW e \in Error, NEW r, Woke(r, s, h, e)
  PROVE  /\ Sound(r, at, c) /\ r.cur = s.cur
         /\ \A v \in WaitList : v # w => Calm(r, at, s, at, v, c.lists[v])
         /\ IF e = "EOK" THEN Joins(r, at, s, at, w, c.lists[w], h)
                         ELSE AsMany(r, at, s, at, w, c.lists[w])
<1>1. IpcInv(s) /\ at \in [Thread -> c.labels] /\ LockFits(s, at, c) /\ at[Idle] = "run"
  BY DEF Sound
<1>2. IpcInv(r) /\ r.cur = s.cur /\ r.lock = s.lock
  BY DEF Woke
<1>3. at[h] \in c.lists[w] /\ \A v \in WaitList : v # w => at[h] \notin c.lists[v]
  BY DEF Sound, ListFits, CallsOK
<1>4. ASSUME NEW v \in WaitList, v # w \/ e # "EOK"
      PROVE  /\ AsMany(r, at, s, at, v, c.lists[v])
             /\ v # w => Calm(r, at, s, at, v, c.lists[v])
  <2> DEFINE ls == c.lists[v]
  <2>1. ListFits(s, at, v, ls)
    BY DEF Sound
  <2>2. at[h] \in ls => e # "EOK" /\ h \notin Alert(s, at, v, ls)
    BY <1>3, <1>4 DEF Alert
  <2>4. v # w => ~On(s, v, h)
    BY <1>3, <2>1 DEF ListFits
  <2> HIDE DEF ls
  <2>3. AsMany(r, at, s, at, v, ls) /\ (v # w => Calm(r, at, s, at, v, ls))
    BY <1>1, <2>1, <2>2, <2>4, WokeCalm
  <2> QED BY <2>3 DEF ls
<1>5. ASSUME e = "EOK" PROVE Joins(r, at, s, at, w, c.lists[w], h)
  <2> DEFINE ls == c.lists[w]
  <2>1. ListFits(s, at, w, ls)
    BY DEF Sound
  <2> HIDE DEF ls
  <2>2. Joins(r, at, s, at, w, ls, h)
    BY <1>1, <1>5, <2>1, WokeJoins
  <2> QED BY <2>2 DEF ls
<1>6. \A v \in WaitList : ListFits(r, at, v, c.lists[v])
  BY <1>4, <1>5 DEF Calm, AsMany, Stay, Joins
<1>7. at[r.cur] \notin c.out => r.stat[r.cur] = "running"
  <2>1. s.stat \in [Thread -> Stat] /\ s.cur \in Thread
    BY <1>1 DEF IpcInv, KernelInv, ListFacts, KernelState
  <2>2. r.stat = [s.stat EXCEPT ![h] = IF h = s.cur THEN "running" ELSE "ready"]
    BY DEF Woke
  <2>3. at[s.cur] \notin c.out => s.stat[s.cur] = "running"
    BY DEF Sound
  <2>4. s.stat[s.cur] = "running" => r.stat[s.cur] = "running"
    BY <2>1, <2>2
  <2> QED BY <1>2, <2>3, <2>4
<1>8. LockFits(r, at, c)
  BY <1>1, <1>2 DEF LockFits
<1>9. Sound(r, at, c)
  BY <1>1, <1>2, <1>6, <1>7, <1>8 DEF Sound
<1> QED
  BY <1>2, <1>4, <1>5, <1>9

\* A thread that is on no list, and at a place of none, is woken.
LEMMA SoundWakesElse ==
  ASSUME NEW s, NEW at, NEW c, CallsOK(c), Sound(s, at, c), NEW h \in Thread,
         \A v \in WaitList : at[h] \notin c.lists[v], NEW e \in Error, NEW r, Woke(r, s, h, e)
  PROVE  /\ Sound(r, at, c)
         /\ \A v \in WaitList : Calm(r, at, s, at, v, c.lists[v])
<1>1. IpcInv(s) /\ at \in [Thread -> c.labels] /\ LockFits(s, at, c) /\ at[Idle] = "run"
  BY DEF Sound
<1>2. IpcInv(r) /\ r.cur = s.cur /\ r.lock = s.lock
  BY DEF Woke
<1>3. \A v \in WaitList : Calm(r, at, s, at, v, c.lists[v])
  <2> TAKE v \in WaitList
  <2> DEFINE ls == c.lists[v]
  <2>1. ListFits(s, at, v, ls) /\ at[h] \notin ls /\ ~On(s, v, h)
    BY DEF Sound, ListFits
  <2> HIDE DEF ls
  <2>2. Calm(r, at, s, at, v, ls)
    BY <1>1, <2>1, WokeCalm
  <2> QED BY <2>2 DEF ls
<1>4. at[r.cur] \notin c.out => r.stat[r.cur] = "running"
  <2>1. s.stat \in [Thread -> Stat] /\ s.cur \in Thread
    BY <1>1 DEF IpcInv, KernelInv, ListFacts, KernelState
  <2>2. r.stat = [s.stat EXCEPT ![h] = IF h = s.cur THEN "running" ELSE "ready"]
    BY DEF Woke
  <2>3. at[s.cur] \notin c.out => s.stat[s.cur] = "running"
    BY DEF Sound
  <2>4. s.stat[s.cur] = "running" => r.stat[s.cur] = "running"
    BY <2>1, <2>2
  <2> QED BY <1>2, <2>3, <2>4
<1>5. \A v \in WaitList : ListFits(r, at, v, c.lists[v])
  BY <1>3 DEF Calm, AsMany, Stay
<1>6. LockFits(r, at, c)
  BY <1>1, <1>2 DEF LockFits
<1> QED
  BY <1>1, <1>2, <1>3, <1>4, <1>5, <1>6 DEF Sound

\* The current thread begins to wait on list w.
LEMMA SoundWaits ==
  ASSUME NEW s, NEW at, NEW c, CallsOK(c), Sound(s, at, c), NEW t, t = s.cur,
         at[t] \notin c.out, at[t] \notin c.locked, t # Idle, NEW w \in WaitList,
         NEW l \in c.labels, l \in c.lists[w], l \in c.out,
         NEW to, to = [at EXCEPT ![t] = l], NEW r, Waited(r, s, w, t)
  PROVE  /\ Sound(r, to, c)
         /\ \A v \in WaitList : v # w => Leaves(r, to, s, at, v, c.lists[v], t)
         /\ \A v \in WaitList : v # w /\ at[t] \notin c.lists[v]
                                  => Calm(r, to, s, at, v, c.lists[v])
<1>1. IpcInv(s) /\ at \in [Thread -> c.labels] /\ LockFits(s, at, c) /\ at[Idle] = "run"
  BY DEF Sound
<1>2. t \in Thread /\ s.stat[t] = "running" /\ ~WaitsSomewhere(s, t) /\ t \notin s.armed
  BY CallerRuns
<1>3. s.lock = 0 /\ \A x \in Thread : at[x] \notin c.locked
  BY <1>1 DEF LockFits
<1>4. IpcInv(r) /\ r.cur = s.cur /\ r.lock = s.lock
  BY DEF Waited, Waits
<1>5. to \in [Thread -> c.labels] /\ \A x \in Thread : to[x] = IF x = t THEN l ELSE at[x]
  BY <1>1
<1>6. ASSUME NEW v \in WaitList
      PROVE  /\ ListFits(r, to, v, c.lists[v])
             /\ v # w => Leaves(r, to, s, at, v, c.lists[v], t)
  <2> DEFINE ls == c.lists[v]
  <2>1. ListFits(s, at, v, ls) /\ Moved(to, at, t, l)
    BY <1>5 DEF Sound, Moved
  <2>2. v = w <=> l \in ls
    BY DEF CallsOK
  <2> HIDE DEF ls
  <2>3. ListFits(r, to, v, ls) /\ (v # w => Leaves(r, to, s, at, v, ls, t))
    BY <1>1, <1>2, <2>1, <2>2, WaitsListed
  <2> QED BY <2>3 DEF ls
<1>7. LockFits(r, to, c)
  <2>1. \A x \in Thread : to[x] \notin c.locked
    BY <1>3, <1>5 DEF CallsOK
  <2> QED BY <1>2, <1>3, <1>4, <2>1 DEF LockFits
<1>8. to[Idle] = "run" /\ to[r.cur] \in c.out
  BY <1>1, <1>2, <1>4, <1>5, ThreadAssumption
<1>9. Sound(r, to, c)
  BY <1>4, <1>5, <1>6, <1>7, <1>8 DEF Sound
<1>10. ASSUME NEW v \in WaitList, v # w, at[t] \notin c.lists[v]
       PROVE  Calm(r, to, s, at, v, c.lists[v])
  <2>1. t \notin Alert(s, at, v, c.lists[v])
    BY <1>10 DEF Alert
  <2> QED BY <1>6, <1>10, <2>1, LeavesCalm
<1> QED
  BY <1>6, <1>9, <1>10

\* Threads of list w are woken together.
LEMMA SoundPartlyWoke ==
  ASSUME NEW s, NEW at, NEW c, CallsOK(c), Sound(s, at, c), NEW w \in WaitList, NEW e,
         NEW r, PartlyWoke(r, s, w, e)
  PROVE  /\ Sound(r, at, c) /\ r.cur = s.cur /\ Fewer(r, s, w)
         /\ \A v \in WaitList : v # w => Calm(r, at, s, at, v, c.lists[v])
         /\ e # "EOK" => AsMany(r, at, s, at, w, c.lists[w])
<1>1. IpcInv(s) /\ at \in [Thread -> c.labels] /\ LockFits(s, at, c) /\ at[Idle] = "run"
  BY DEF Sound
<1>2. IpcInv(r) /\ r.cur = s.cur /\ r.lock = s.lock
  BY DEF PartlyWoke
<1>3. ASSUME NEW v \in WaitList, v # w PROVE Calm(r, at, s, at, v, c.lists[v])
  <2> DEFINE ls == c.lists[v]
  <2>1. ListFits(s, at, v, ls)
    BY DEF Sound
  <2>2. \A x \in Thread : On(s, w, x) => at[x] \notin ls
    BY <1>3 DEF Sound, ListFits, CallsOK
  <2> HIDE DEF ls
  <2>3. Calm(r, at, s, at, v, ls)
    BY <1>1, <1>3, <2>1, <2>2, PartlyWokeCalm
  <2> QED BY <2>3 DEF ls
<1>4. /\ ListFits(r, at, w, c.lists[w]) /\ Fewer(r, s, w)
      /\ e # "EOK" => AsMany(r, at, s, at, w, c.lists[w])
  <2> DEFINE ls == c.lists[w]
  <2>1. ListFits(s, at, w, ls)
    BY DEF Sound
  <2> HIDE DEF ls
  <2>2. ListFits(r, at, w, ls) /\ Fewer(r, s, w)
    BY <1>1, <2>1, PartlyWokeFits
  <2>3. e # "EOK" => AsMany(r, at, s, at, w, ls)
    BY <1>1, <2>1, ErrorsAsMany
  <2> QED BY <2>2, <2>3 DEF ls
<1>5. at[r.cur] \notin c.out => r.stat[r.cur] = "running"
  <2>1. s.cur \in Thread
    BY <1>1 DEF IpcInv, KernelInv, ListFacts, KernelState
  <2>2. s.stat[s.cur] = "running" => r.stat[s.cur] = "running"
    BY <2>1 DEF PartlyWoke
  <2> QED BY <1>2, <2>2 DEF Sound
<1>6. LockFits(r, at, c)
  BY <1>1, <1>2 DEF LockFits
<1>7. Sound(r, at, c)
  <2>1. \A v \in WaitList : ListFits(r, at, v, c.lists[v])
    BY <1>3, <1>4 DEF Calm, AsMany, Stay
  <2> QED BY <1>1, <1>2, <1>5, <1>6, <2>1 DEF Sound
<1> QED
  BY <1>2, <1>3, <1>4, <1>7

\* Everybody is woken from list w with an error.
LEMMA SoundWakesAll ==
  ASSUME NEW s, NEW at, NEW c, CallsOK(c), Sound(s, at, c), NEW w \in WaitList
  PROVE  /\ Sound(ResumeAll(s, w), at, c) /\ ResumeAll(s, w).cur = s.cur
         /\ ResumeAll(s, w).wait[w] = <<>>
         /\ \A v \in WaitList : v # w => ResumeAll(s, w).wait[v] = s.wait[v]
         /\ \A v \in WaitList : v # w => Calm(ResumeAll(s, w), at, s, at, v, c.lists[v])
         /\ AsMany(ResumeAll(s, w), at, s, at, w, c.lists[w])
<1> DEFINE r == ResumeAll(s, w)
<1>1. AllWoke(r, s, w, "ERROR")
  BY ResumeEachWakes DEF ResumeAll, Error, Sound
<1> HIDE DEF r
<1>2. /\ r.wait[w] = <<>> /\ PartlyWoke(r, s, w, "ERROR")
      /\ \A v \in WaitList : v # w => r.wait[v] = s.wait[v]
  BY <1>1 DEF AllWoke, PartlyWoke
<1>3. /\ Sound(r, at, c) /\ r.cur = s.cur
      /\ \A v \in WaitList : v # w => Calm(r, at, s, at, v, c.lists[v])
      /\ AsMany(r, at, s, at, w, c.lists[w])
  BY <1>2, SoundPartlyWoke
<1> QED
  BY <1>2, <1>3 DEF r

\* The application starts with every thread outside the calls.
LEMMA SoundStarts ==
  ASSUME NEW main \in Thread, NEW prio \in [Thread -> Prio], NEW c, CallsOK(c),
         NEW at, at = [t \in Thread |-> "run"]
  PROVE  Sound(Started(main, prio), at, c)
<1> DEFINE s == Started(main, prio)
<1>1. IpcInv(s) /\ \A w \in WaitList, t \in Thread : ~On(s, w, t)
  BY StartedInv
<1>2. s.cur = main /\ s.armed = {} /\ s.lock = 0 /\ s.stat[main] = "running"
  BY DEF Started
<1> HIDE DEF s
<1>3. /\ at \in [Thread -> c.labels] /\ at[Idle] = "run" /\ at[main] = "run"
      /\ \A t \in Thread : at[t] \notin c.locked
  BY ThreadAssumption DEF CallsOK
<1>4. LockFits(s, at, c)
  BY <1>2, <1>3 DEF LockFits
<1>5. \A w \in WaitList : ListFits(s, at, w, c.lists[w])
  BY <1>1, <1>2 DEF ListFits
<1>6. Sound(s, at, c)
  BY <1>1, <1>2, <1>3, <1>4, <1>5 DEF Sound
<1> QED
  BY <1>6 DEF s

\* Enough threads are on their way when nobody waits, or when one more is.
OneMore(r, to, s, at, w, ls) ==
  (s.wait[w] = <<>> /\ r.wait[w] = <<>>) \/ \E h \in Thread : Joins(r, to, s, at, w, ls, h)

LEMMA EnoughWithOneMore ==
  ASSUME NEW s, IpcInv(s), NEW r, IpcInv(r), NEW at, NEW to, NEW w \in WaitList, NEW ls,
         NEW n \in Int, NEW m \in Int, m <= n + 1, Enough(s, at, w, ls, n),
         OneMore(r, to, s, at, w, ls)
  PROVE  Enough(r, to, w, ls, m)
<1>1. CASE r.wait[w] = <<>>
  BY <1>1 DEF Enough
<1>2. CASE \E h \in Thread : Joins(r, to, s, at, w, ls, h)
  BY <1>2, EnoughMore
<1> QED
  BY <1>1, <1>2 DEF OneMore

\* Thread t wakes the first thread of list w, if there is one, and leaves its
\* call, through rt_schedule or not.
WakesFirst(r, to, s, at, w, t) ==
  IF s.wait[w] = <<>> THEN r = s /\ to = [at EXCEPT ![t] = "run"]
                      ELSE r = ResumeFirst(s, w) /\ to = [at EXCEPT ![t] = "resched"]

LEMMA SoundWakesOne ==
  ASSUME NEW s, NEW at, NEW c, CallsOK(c), Sound(s, at, c), NEW t, t = s.cur, t # Idle,
         at[t] \notin c.out, at[t] \notin c.locked, NEW w \in WaitList, at[t] \notin c.lists[w],
         NEW r, NEW to, WakesFirst(r, to, s, at, w, t)
  PROVE  /\ Sound(r, to, c)
         /\ OneMore(r, to, s, at, w, c.lists[w])
         /\ \A v \in WaitList : v # w => Leaves(r, to, s, at, v, c.lists[v], t)
         /\ \A v \in WaitList : v # w /\ at[t] \notin c.lists[v]
                                  => Calm(r, to, s, at, v, c.lists[v])
<1> DEFINE l == IF s.wait[w] = <<>> THEN "run" ELSE "resched"
<1>1. /\ l \in c.labels /\ l \notin c.locked
      /\ \A v \in WaitList : l \notin c.lists[v]
      /\ to = [at EXCEPT ![t] = l]
  BY DEF CallsOK, WakesFirst
<1> HIDE DEF l
<1>2. /\ Sound(s, to, c)
      /\ \A v \in WaitList : Leaves(s, to, s, at, v, c.lists[v], t)
      /\ Calm(s, to, s, at, w, c.lists[w])
  BY <1>1, SoundMoves
<1>3. ASSUME NEW v \in WaitList, at[t] \notin c.lists[v]
      PROVE  Leaves(r, to, s, at, v, c.lists[v], t) => Calm(r, to, s, at, v, c.lists[v])
  <2>1. t \notin Alert(s, at, v, c.lists[v])
    BY <1>3 DEF Alert
  <2> QED BY <2>1, LeavesCalm
<1>4. CASE s.wait[w] = <<>>
  BY <1>2, <1>3, <1>4 DEF OneMore, WakesFirst
<1>5. CASE s.wait[w] # <<>>
  <2>1. PICK h \in Thread : On(s, w, h) /\ Woke(r, s, h, "EOK")
    BY <1>5, ResumeFirstWakes DEF Sound, WakesFirst
  <2>2. /\ Sound(r, to, c)
        /\ \A v \in WaitList : v # w => Calm(r, to, s, to, v, c.lists[v])
        /\ Joins(r, to, s, to, w, c.lists[w], h)
    <3>1. "EOK" \in Error
      BY DEF Error
    <3> QED BY <1>2, <2>1, <3>1, SoundWakes
  <2>3. Joins(r, to, s, at, w, c.lists[w], h)
    BY <1>2, <2>2 DEF Joins, Calm, AsMany, Stay, Fewer
  <2>4. \A v \in WaitList : v # w => Leaves(r, to, s, at, v, c.lists[v], t)
    BY <1>2, <2>2 DEF Leaves, Calm, AsMany, Stay, Fewer
  <2> QED BY <1>3, <2>2, <2>3, <2>4 DEF OneMore
<1> QED
  BY <1>4, <1>5

\* The current thread suspends itself on list w, its timer started or not.
Suspended(r, s, w, t) ==
  \E flag \in {"FIFO", "PRIO"}, finite \in BOOLEAN, e \in Error :
    r = SuspendTimed([s EXCEPT !.err[t] = e], w, flag, t, finite)

LEMMA SoundSuspends ==
  ASSUME NEW s, NEW at, NEW c, CallsOK(c), Sound(s, at, c), NEW t, t = s.cur, t # Idle,
         at[t] \notin c.out, at[t] \notin c.locked, NEW w \in WaitList,
         NEW l \in c.labels, l \in c.lists[w], l \in c.out, NEW to, to = [at EXCEPT ![t] = l],
         NEW r, Suspended(r, s, w, t)
  PROVE  /\ Sound(r, to, c)
         /\ \A v \in WaitList : v # w => Leaves(r, to, s, at, v, c.lists[v], t)
         /\ \A v \in WaitList : v # w /\ at[t] \notin c.lists[v]
                                  => Calm(r, to, s, at, v, c.lists[v])
<1>1. IpcInv(s) /\ t \in Thread /\ s.stat[t] = "running" /\ s.lock = 0
  BY CallerRuns DEF Sound
<1>2. Waited(r, s, w, t)
  BY <1>1, SuspendWaits DEF Suspended, Waited
<1> QED
  BY <1>2, SoundWaits, ZenonT(90)

\* The current thread was not woken for what it waited for, and leaves its call.
LEMMA SoundFails ==
  ASSUME NEW s, NEW at, NEW c, CallsOK(c), Sound(s, at, c), NEW t, t = s.cur, t # Idle,
         at[t] \notin c.out, at[t] \notin c.locked, s.err[t] # "EOK",
         NEW to, to = [at EXCEPT ![t] = "run"]
  PROVE  /\ Sound(s, to, c)
         /\ \A w \in WaitList : Calm(s, to, s, at, w, c.lists[w])
<1>1. /\ "run" \in c.labels /\ "run" \notin c.locked
      /\ \A w \in WaitList : "run" \notin c.lists[w]
  BY DEF CallsOK
<1>2. Sound(s, to, c) /\ \A w \in WaitList : Leaves(s, to, s, at, w, c.lists[w], t)
  BY <1>1, SoundMoves
<1>3. \A w \in WaitList : t \notin Alert(s, at, w, c.lists[w])
  BY DEF Alert
<1> QED
  BY <1>2, <1>3, LeavesCalm

\* The sleep of a thread outside the calls.
Sleeps(r, s, t, e) ==
  r = [rt_thread_suspend(s, t) EXCEPT !.armed = @ \union {t}, !.err[t] = e]

LEMMA SoundSleep ==
  ASSUME NEW s, NEW at, NEW c, CallsOK(c), Sound(s, at, c), NEW t, t = s.cur,
         at[t] = "run", t # Idle, NEW to, to = [at EXCEPT ![t] = "resched"], NEW e \in Error,
         NEW r, Sleeps(r, s, t, e)
  PROVE  /\ Sound(r, to, c)
         /\ \A w \in WaitList : Calm(r, to, s, at, w, c.lists[w])
<1>1. at[t] \notin c.out /\ at[t] \notin c.locked
  BY DEF CallsOK
<1>2. IpcInv(s) /\ t \in Thread /\ s.stat[t] = "running" /\ s.lock = 0
  BY <1>1, CallerRuns DEF Sound
<1>3. Slept(r, s, t, e)
  BY <1>2, SleepWaits DEF Sleeps
<1> QED
  BY <1>3, SoundSleeps

\* A step that changes neither the kernel nor where the threads are.
LEMMA CalmSame ==
  ASSUME NEW s, NEW at, NEW c, Sound(s, at, c)
  PROVE  \A w \in WaitList : Calm(s, at, s, at, w, c.lists[w])
BY DEF Sound, Calm, AsMany, Stay, Fewer

\* Those that wait on w have not been told anything yet.
Untold(s, w) == \A x \in Thread : On(s, w, x) => s.err[x] = "EOK"

LEMMA FewerUntold ==
  ASSUME NEW s, NEW r, NEW w, Fewer(r, s, w), Untold(s, w)
  PROVE  Untold(r, w)
BY DEF Fewer, Untold

\* The first thread of list w has been woken with error e.
HeadWoke(r, s, w, e) == \E h \in Thread : On(s, w, h) /\ Woke(r, s, h, e)

LEMMA HeadTold ==
  ASSUME NEW s, IpcInv(s), NEW w \in WaitList, s.wait[w] # <<>>, NEW e \in Error
  PROVE  HeadWoke(ResumeHead(s, w, e), s, w, e)
BY ResumeHeadWakes DEF HeadWoke

\* rt_thread_resume on the first thread of a list where nobody was told anything.
LEMMA HeadResumed ==
  ASSUME NEW s, IpcInv(s), NEW w \in WaitList, s.wait[w] # <<>>, Untold(s, w)
  PROVE  HeadWoke(rt_thread_resume(s, Head(s.wait[w])), s, w, "EOK")
<1> DEFINE h == Head(s.wait[w])
<1>1. s.wait[w] \in Seq(Thread) /\ s \in KernelState
  BY DEF IpcInv, KernelInv, ListFacts, KernelState
<1>2. h \in Thread /\ On(s, w, h)
  BY <1>1, HeadList DEF On
<1> HIDE DEF h
<1>3. s.stat[h] = "suspend" /\ s.err[h] = "EOK" /\ "EOK" \in Error
  BY <1>2 DEF IpcInv, WaitFacts, Untold, Error
<1>4. [s EXCEPT !.err[h] = "EOK"] = s
  BY <1>1, <1>3 DEF KernelState
<1>5. Woke(rt_thread_resume(s, h), s, h, "EOK")
  BY <1>2, <1>3, <1>4, ResumeWakes
<1> QED
  BY <1>2, <1>5 DEF HeadWoke, h

\* One that was not on its way does not matter to list w.
LEMMA ElsewhereCalm ==
  ASSUME NEW s, NEW r, NEW at, NEW to, NEW w, NEW ls, NEW t, at[t] \notin ls
  PROVE  Leaves(r, to, s, at, w, ls, t) => Calm(r, to, s, at, w, ls)
<1>1. t \notin Alert(s, at, w, ls)
  BY DEF Alert
<1> QED
  BY <1>1, LeavesCalm

\* The current thread wakes the first thread of list w with error e and goes to
\* label l, where it waits for nothing.
LEMMA SoundWakesTo ==
  ASSUME NEW s, NEW at, NEW c, CallsOK(c), Sound(s, at, c), NEW t, t = s.cur, t # Idle,
         at[t] \notin c.out, NEW l \in c.labels, at[t] \in c.locked <=> l \in c.locked,
         \A v \in WaitList : l \notin c.lists[v],
         NEW to, to = [at EXCEPT ![t] = l],
         NEW w \in WaitList, at[t] \notin c.lists[w], NEW e \in Error,
         NEW r, HeadWoke(r, s, w, e)
  PROVE  /\ Sound(r, to, c)
         /\ IF e = "EOK" THEN OneMore(r, to, s, at, w, c.lists[w])
                         ELSE AsMany(r, to, s, at, w, c.lists[w])
         /\ \A v \in WaitList : v # w => Leaves(r, to, s, at, v, c.lists[v], t)
         /\ \A v \in WaitList : v # w /\ at[t] \notin c.lists[v]
                                  => Calm(r, to, s, at, v, c.lists[v])
<1>1. PICK h \in Thread : On(s, w, h) /\ Woke(r, s, h, e)
  BY DEF HeadWoke
<1>2. /\ Sound(s, to, c)
      /\ \A v \in WaitList : Leaves(s, to, s, at, v, c.lists[v], t)
      /\ Calm(s, to, s, at, w, c.lists[w])
  BY SoundMoves, ZenonT(90)
<1>3. /\ Sound(r, to, c)
      /\ \A v \in WaitList : v # w => Calm(r, to, s, to, v, c.lists[v])
      /\ IF e = "EOK" THEN Joins(r, to, s, to, w, c.lists[w], h)
                      ELSE AsMany(r, to, s, to, w, c.lists[w])
  BY <1>1, <1>2, SoundWakes, ZenonT(90)
<1>4. IF e = "EOK" THEN Joins(r, to, s, at, w, c.lists[w], h)
                   ELSE AsMany(r, to, s, at, w, c.lists[w])
  BY <1>2, <1>3 DEF Joins, Calm, AsMany, Stay, Fewer
<1>5. \A v \in WaitList : v # w => Leaves(r, to, s, at, v, c.lists[v], t)
  BY <1>2, <1>3 DEF Leaves, Calm, AsMany, Stay, Fewer
<1>6. \A v \in WaitList : v # w /\ at[t] \notin c.lists[v]
                            => Calm(r, to, s, at, v, c.lists[v])
  BY <1>5, ElsewhereCalm
<1> QED
  BY <1>3, <1>4, <1>5, <1>6 DEF OneMore

\* An interrupt handler wakes the first thread of list w and leaves through
\* rt_schedule.
LEMMA SoundIsrWakes ==
  ASSUME NEW s, NEW at, NEW c, CallsOK(c), Sound(s, at, c), NEW w \in WaitList,
         NEW u, HeadWoke(u, s, w, "EOK"), NEW r, r = rt_schedule(u)
  PROVE  /\ Sound(r, at, c)
         /\ OneMore(r, at, s, at, w, c.lists[w])
         /\ \A v \in WaitList : v # w => Calm(r, at, s, at, v, c.lists[v])
<1>1. PICK h \in Thread : On(s, w, h) /\ Woke(u, s, h, "EOK")
  BY DEF HeadWoke
<1>2. /\ Sound(u, at, c)
      /\ \A v \in WaitList : v # w => Calm(u, at, s, at, v, c.lists[v])
      /\ Joins(u, at, s, at, w, c.lists[w], h)
  <2>1. "EOK" \in Error
    BY DEF Error
  <2> QED BY <1>1, <2>1, SoundWakes
<1>3. Rescheduled(r, u)
  BY <1>2, Reschedules DEF Sound
<1>4. Sound(r, at, c) /\ \A v \in WaitList : Calm(r, at, u, at, v, c.lists[v])
  BY <1>2, <1>3, SoundSchedules
<1>5. Joins(r, at, s, at, w, c.lists[w], h)
  BY <1>2, <1>4 DEF Joins, Calm, AsMany, Stay, Fewer
<1>6. \A v \in WaitList : v # w => Calm(r, at, s, at, v, c.lists[v])
  BY <1>2, <1>4 DEF Calm, AsMany, Stay, Fewer
<1> QED
  BY <1>4, <1>5, <1>6 DEF OneMore

\* The same from a list that may be empty.
LEMMA SoundIsrWakesOne ==
  ASSUME NEW s, NEW at, NEW c, CallsOK(c), Sound(s, at, c), NEW w \in WaitList,
         NEW r, r = IF s.wait[w] = <<>> THEN s ELSE rt_schedule(ResumeFirst(s, w))
  PROVE  /\ Sound(r, at, c)
         /\ OneMore(r, at, s, at, w, c.lists[w])
         /\ \A v \in WaitList : v # w => Calm(r, at, s, at, v, c.lists[v])
<1>1. CASE s.wait[w] = <<>>
  BY <1>1, CalmSame DEF OneMore
<1>2. CASE s.wait[w] # <<>>
  <2> DEFINE u == ResumeFirst(s, w)
  <2>1. HeadWoke(u, s, w, "EOK")
    BY <1>2, ResumeFirstWakes DEF HeadWoke, Sound
  <2>2. r = rt_schedule(u)
    BY <1>2
  <2> HIDE DEF u
  <2> QED BY <2>1, <2>2, SoundIsrWakes
<1> QED
  BY <1>1, <1>2

\* A reset wakes everybody from list w and then calls rt_schedule.
WakesEverybody(r, to, s, at, w, t) ==
  r = ResumeAll(s, w) /\ to = [at EXCEPT ![t] = "resched"]

LEMMA SoundResets ==
  ASSUME NEW s, NEW at, NEW c, CallsOK(c), Sound(s, at, c), NEW t, t = s.cur, t # Idle,
         at[t] = "run", NEW w \in WaitList, NEW r, NEW to, WakesEverybody(r, to, s, at, w, t)
  PROVE  /\ Sound(r, to, c) /\ r.wait[w] = <<>>
         /\ \A v \in WaitList : v # w => Calm(r, to, s, at, v, c.lists[v])
         /\ AsMany(r, to, s, at, w, c.lists[w])
<1>1. /\ at[t] \notin c.out /\ at[t] \notin c.locked
      /\ "resched" \in c.labels /\ "resched" \notin c.locked
      /\ \A v \in WaitList : "resched" \notin c.lists[v] /\ at[t] \notin c.lists[v]
  BY DEF CallsOK
<1>2. to = [at EXCEPT ![t] = "resched"] /\ r = ResumeAll(s, w)
  BY DEF WakesEverybody
<1>3. Sound(s, to, c) /\ \A v \in WaitList : Calm(s, to, s, at, v, c.lists[v])
  BY <1>1, <1>2, SoundMoves
<1>4. /\ Sound(r, to, c) /\ r.wait[w] = <<>>
      /\ \A v \in WaitList : v # w => Calm(r, to, s, to, v, c.lists[v])
      /\ AsMany(r, to, s, to, w, c.lists[w])
  BY <1>2, <1>3, SoundWakesAll
<1>5. /\ \A v \in WaitList : v # w => Calm(r, to, s, at, v, c.lists[v])
      /\ AsMany(r, to, s, at, w, c.lists[w])
  BY <1>3, <1>4 DEF Calm, AsMany, Stay, Fewer
<1> QED
  BY <1>4, <1>5

\* r is s with the scheduler locked the way it is at label l.
LockedAs(r, s, l, c) == r = [s EXCEPT !.lock = IF l \in c.locked THEN 1 ELSE 0]

\* The current thread locks or unlocks the scheduler on its way to label l.
LEMMA SoundLocks ==
  ASSUME NEW s, NEW at, NEW c, CallsOK(c), Sound(s, at, c), NEW t, t = s.cur, t # Idle,
         at[t] \notin c.out, NEW l \in c.labels, \A v \in WaitList : l \notin c.lists[v],
         NEW to, to = [at EXCEPT ![t] = l],
         NEW r, LockedAs(r, s, l, c)
  PROVE  /\ Sound(r, to, c) /\ r.wait = s.wait
         /\ \A v \in WaitList : at[t] \notin c.lists[v] => Calm(r, to, s, at, v, c.lists[v])
<1> DEFINE n == IF l \in c.locked THEN 1 ELSE 0
<1>1. IpcInv(s) /\ at \in [Thread -> c.labels] /\ LockFits(s, at, c) /\ at[Idle] = "run"
  BY DEF Sound
<1>2. /\ t \in Thread /\ s.stat[t] = "running" /\ ~WaitsSomewhere(s, t) /\ t \notin s.armed
      /\ s \in KernelState
  BY <1>1, CallerRuns DEF IpcInv, KernelInv, ListFacts
<1>3. /\ r \in KernelState /\ SameLists(r, s) /\ r.stat = s.stat /\ r.armed = s.armed
      /\ r.cur = s.cur /\ r.prio = s.prio /\ r.lock = n /\ r.err = s.err
  BY <1>2 DEF KernelState, SameLists, LockedAs
<1>4. IpcInv(r) /\ r.wait = s.wait
  BY <1>1, <1>2, <1>3, IpcFieldsChange DEF SameLists
<1>5. to \in [Thread -> c.labels] /\ \A x \in Thread : to[x] = IF x = t THEN l ELSE at[x]
  BY <1>1
<1>6. MovesOn(r, to, s, at, t, l) /\ r.armed \subseteq Thread
  BY <1>2, <1>3, <1>4 DEF MovesOn, KernelState
<1>7. ASSUME NEW v \in WaitList PROVE Leaves(r, to, s, at, v, c.lists[v], t)
  <2> DEFINE ls == c.lists[v]
             X == c.labels
  <2>1. ListFits(s, at, v, ls) /\ l \notin ls /\ at \in [Thread -> X]
    BY <1>1 DEF Sound
  <2> HIDE DEF ls, X
  <2>2. Leaves(r, to, s, at, v, ls, t)
    BY <1>2, <1>6, <2>1, MoveLeaves
  <2> QED BY <2>2 DEF ls
<1>8. LockFits(r, to, c)
  BY <1>1, <1>2, <1>3, <1>5 DEF LockFits
<1>9. to[Idle] = "run"
  BY <1>1, <1>5, ThreadAssumption
<1>10. Sound(r, to, c)
  <2>1. \A v \in WaitList : ListFits(r, to, v, c.lists[v])
    BY <1>7 DEF Leaves, Stay
  <2> QED BY <1>2, <1>3, <1>4, <1>5, <1>8, <1>9, <2>1 DEF Sound
<1> QED
  BY <1>4, <1>7, <1>10, ElsewhereCalm

\* rt_exit_critical, and rt_schedule.
LEMMA SoundUnlocks ==
  ASSUME NEW s, NEW at, NEW c, CallsOK(c), Sound(s, at, c), NEW t, t = s.cur, t # Idle,
         at[t] \in c.locked, NEW to, to = [at EXCEPT ![t] = "resched"],
         NEW r, r = rt_schedule([s EXCEPT !.lock = @ - 1])
  PROVE  /\ Sound(r, to, c) /\ r.wait = s.wait
         /\ \A v \in WaitList : at[t] \notin c.lists[v] => Calm(r, to, s, at, v, c.lists[v])
<1> DEFINE u == [s EXCEPT !.lock = 0]
<1>1. s \in KernelState /\ LockFits(s, at, c)
  BY DEF Sound, IpcInv, KernelInv, ListFacts
<1>2. s.lock - 1 = 0
  BY <1>1 DEF LockFits
<1>3. r = rt_schedule(u)
  BY <1>2
<1>4. /\ at[t] \notin c.out /\ "resched" \in c.labels
      /\ \A v \in WaitList : "resched" \notin c.lists[v]
      /\ LockedAs(u, s, "resched", c)
  BY DEF CallsOK, LockedAs
<1> HIDE DEF u
<1>5. /\ Sound(u, to, c) /\ u.wait = s.wait
      /\ \A v \in WaitList : at[t] \notin c.lists[v] => Calm(u, to, s, at, v, c.lists[v])
  BY <1>4, SoundLocks
<1>6. Rescheduled(r, u)
  BY <1>3, <1>5, Reschedules DEF Sound
<1>7. Sound(r, to, c) /\ \A v \in WaitList : Calm(r, to, u, to, v, c.lists[v])
  BY <1>5, <1>6, SoundSchedules
<1>8. \A v \in WaitList : at[t] \notin c.lists[v] => Calm(r, to, s, at, v, c.lists[v])
  BY <1>5, <1>7 DEF Calm, AsMany, Stay, Fewer
<1>9. r.wait = s.wait
  BY <1>5, <1>6 DEF Rescheduled
<1> QED
  BY <1>7, <1>8, <1>9

\* The current thread links itself in front of those that wait on w.
SuspendedInFront(r, s, w, t) ==
  \E finite \in BOOLEAN :
    LET u == rt_thread_suspend([s EXCEPT !.err[t] = "EOK"], t)
    IN  r = [u EXCEPT !.wait[w] = Cons(t, @), !.armed = IF finite THEN @ \union {t} ELSE @]

LEMMA FrontWaits ==
  ASSUME NEW s, IpcInv(s), NEW t \in Thread, t = s.cur, s.stat[t] = "running", t # Idle,
         s.lock = 0, NEW w \in WaitList, NEW r, SuspendedInFront(r, s, w, t)
  PROVE  Waited(r, s, w, t)
<1> DEFINE m == [s EXCEPT !.err[t] = "EOK"]
           u == rt_thread_suspend(m, t)
           q == Cons(t, u.wait[w])
<1>1. PICK finite \in BOOLEAN :
        r = [u EXCEPT !.wait[w] = Cons(t, @), !.armed = IF finite THEN @ \union {t} ELSE @]
  BY DEF SuspendedInFront
<1>2. /\ IpcInv(m) /\ SameLists(m, s) /\ m.stat = s.stat /\ m.armed = s.armed
      /\ m.cur = s.cur /\ m.prio = s.prio /\ m.err = [s.err EXCEPT ![t] = "EOK"]
      /\ m.lock = s.lock /\ "EOK" \in Error
  <2>1. GivenError(m, s, t, "EOK") /\ "EOK" \in Error
    BY DEF GivenError, Error
  <2> HIDE DEF m
  <2> QED BY <2>1, ErrorGiven
<1> HIDE DEF m
<1>3. /\ IpcInv(u) /\ u.cur = m.cur /\ u.prio = m.prio /\ u.err = m.err /\ u.lock = 0
      /\ u.stat = [m.stat EXCEPT ![t] = "suspend"]
      /\ u.armed = m.armed /\ u.wait = m.wait
  BY <1>2, SuspendThread
<1> HIDE DEF u
<1>4. /\ u \in KernelState /\ u.stat[t] = "suspend" /\ u.wait[w] \in Seq(Thread)
      /\ u.prio \in [Thread -> Prio] /\ NoRepeat(u.wait[w]) /\ m.stat \in [Thread -> Stat]
  BY <1>2, <1>3 DEF IpcInv, KernelInv, ListFacts, KernelState
<1>5. ~WaitsSomewhere(u, t)
  <2>1. m.stat[t] = "running"
    BY <1>2
  <2> QED BY <1>2, <1>3, <2>1 DEF On, IpcInv, WaitFacts, WaitsSomewhere
<1>6. GrownBy(q, u.wait[w], t)
  <2> DEFINE old == u.wait[w]
  <2>1. old \in Seq(Thread) /\ NoRepeat(old) /\ ~Contains(old, t)
    BY <1>4, <1>5 DEF WaitsSomewhere
  <2> HIDE DEF old
  <2>2. GrownBy(Cons(t, old), old, t)
    BY <2>1, ConsList DEF GrownBy
  <2> QED BY <2>2 DEF old
<1>7. q \in Seq(Thread)
  BY <1>6 DEF GrownBy
<1>8. /\ r \in KernelState /\ r.wait = [u.wait EXCEPT ![w] = q]
      /\ r.stat = u.stat /\ r.prio = u.prio /\ r.ready = u.ready /\ r.group = u.group
      /\ r.defunct = u.defunct /\ r.cur = u.cur /\ r.lock = u.lock /\ r.err = u.err
      /\ r.armed = IF finite THEN u.armed \union {t} ELSE u.armed
  <2> DEFINE a == IF finite THEN u.armed \union {t} ELSE u.armed
             x == [u.wait EXCEPT ![w] = q]
  <2>1. a \subseteq Thread /\ x \in [WaitList -> Seq(Thread)]
    BY <1>4, <1>7 DEF KernelState
  <2>2. r = [u EXCEPT !.wait = x, !.armed = a]
    BY <1>1, <1>4 DEF KernelState
  <2> HIDE DEF a, x
  <2>3. /\ r \in KernelState /\ r.wait = x /\ r.armed = a
        /\ r.stat = u.stat /\ r.prio = u.prio /\ r.ready = u.ready /\ r.group = u.group
        /\ r.defunct = u.defunct /\ r.cur = u.cur /\ r.lock = u.lock /\ r.err = u.err
    BY <1>4, <2>1, <2>2 DEF KernelState
  <2> QED BY <2>3 DEF a, x
<1> HIDE DEF q
<1>9. IpcInv(r) /\ LinkedOn(r, u, w, t)
  <2>1. NowHas(r, u, w, q, t)
    BY <1>8 DEF NowHas
  <2> QED BY <1>3, <1>4, <1>5, <1>6, <2>1, LinkSuspended
<1>10. \A v \in WaitList, x \in Thread : On(u, v, x) <=> On(s, v, x)
  BY <1>2, <1>3 DEF On, SameLists
<1>11. Waits(r, s, w, t, "EOK", finite)
  BY <1>2, <1>3, <1>8, <1>9, <1>10 DEF Waits, LinkedOn
<1> QED
  BY <1>2, <1>11 DEF Waited

\* A thread that waits with error RT_EOK has been told nothing.
LEMMA SuspendUntold ==
  ASSUME NEW s, NEW at, NEW c, Sound(s, at, c), NEW t, t = s.cur, t # Idle,
         at[t] \notin c.out, at[t] \notin c.locked, NEW w \in WaitList, Untold(s, w),
         NEW flag \in {"FIFO", "PRIO"}, NEW finite \in BOOLEAN,
         NEW r, r = SuspendTimed([s EXCEPT !.err[t] = "EOK"], w, flag, t, finite)
  PROVE  Untold(r, w)
<1>1. /\ IpcInv(s) /\ t \in Thread /\ s.stat[t] = "running" /\ s.lock = 0
      /\ "EOK" \in Error /\ s.err \in [Thread -> Error]
  BY CallerRuns DEF Sound, Error, IpcInv, KernelInv, ListFacts, KernelState
<1>2. Waits(r, s, w, t, "EOK", finite)
  BY <1>1, SuspendWaits
<1> QED
  BY <1>1, <1>2 DEF Waits, Untold

\* Those that wait on w find an error unless they are woken for what they wait for.
Unserved(s, w) == \A x \in Thread : On(s, w, x) => s.err[x] # "EOK"

LEMMA FewerUnserved ==
  ASSUME NEW s, NEW r, NEW w, Fewer(r, s, w), Unserved(s, w)
  PROVE  Unserved(r, w)
BY DEF Fewer, Unserved

\* All threads but t are where they were.
OnlyMoves(t, to, at) == \A x \in Thread : x # t => to[x] = at[x]

\* The current thread suspends itself on list w, its error field set to -RT_EINTR.
SuspendsUnserved(r, s, w, t) ==
  \E flag \in {"FIFO", "PRIO"}, finite \in BOOLEAN :
    r = SuspendTimed([s EXCEPT !.err[t] = "EINTR"], w, flag, t, finite)

LEMMA SuspendUnserved ==
  ASSUME NEW s, IpcInv(s), NEW t \in Thread, t = s.cur, t # Idle, s.stat[t] = "running",
         s.lock = 0, NEW w \in WaitList, Unserved(s, w),
         NEW at, NEW ls, at[t] \notin ls, NEW to, OnlyMoves(t, to, at),
         NEW r, SuspendsUnserved(r, s, w, t)
  PROVE  Unserved(r, w) /\ Alert(r, to, w, ls) = Alert(s, at, w, ls)
<1>1. PICK flag \in {"FIFO", "PRIO"}, finite \in BOOLEAN :
        r = SuspendTimed([s EXCEPT !.err[t] = "EINTR"], w, flag, t, finite)
  BY DEF SuspendsUnserved
<1>2. "EINTR" \in Error /\ "EINTR" # "EOK" /\ s.err \in [Thread -> Error]
  BY DEF Error, IpcInv, KernelInv, ListFacts, KernelState
<1>3. Waits(r, s, w, t, "EINTR", finite)
  BY <1>1, <1>2, SuspendWaits
<1>4. /\ \A x \in Thread : r.err[x] = IF x = t THEN "EINTR" ELSE s.err[x]
      /\ \A x \in Thread : On(r, w, x) <=> On(s, w, x) \/ x = t
  BY <1>2, <1>3 DEF Waits
<1>5. Unserved(r, w)
  BY <1>2, <1>4 DEF Unserved
<1>6. \A x \in Thread : x \in Alert(r, to, w, ls) <=> x \in Alert(s, at, w, ls)
  BY <1>2, <1>4 DEF Alert, OnlyMoves
<1> QED
  BY <1>5, <1>6 DEF Alert

\* A walk along list w wakes the chosen threads.
LEMMA SoundWakesChosen ==
  ASSUME NEW s, NEW at, NEW c, CallsOK(c), Sound(s, at, c), NEW w \in WaitList, NEW chosen,
         NEW r, r = ResumeChosen(s, w, chosen)
  PROVE  /\ Sound(r, at, c) /\ r.cur = s.cur /\ Fewer(r, s, w)
         /\ \A x \in Thread : On(r, w, x) => x \notin chosen
         /\ \A v \in WaitList : v # w => Calm(r, at, s, at, v, c.lists[v])
<1>1. /\ PartlyWoke(r, s, w, "EOK")
      /\ \A x \in Thread : On(r, w, x) => x \notin chosen
  BY ResumeChosenWakes DEF Sound
<1>2. /\ Sound(r, at, c) /\ r.cur = s.cur /\ Fewer(r, s, w)
      /\ \A v \in WaitList : v # w => Calm(r, at, s, at, v, c.lists[v])
  BY <1>1, SoundPartlyWoke
<1> QED
  BY <1>1, <1>2

\* The thread that suspends itself is the only one that comes to a list.
LEMMA SuspendJoins ==
  ASSUME NEW s, NEW at, NEW c, Sound(s, at, c), NEW t, t = s.cur, t # Idle,
         at[t] \notin c.out, at[t] \notin c.locked, NEW w \in WaitList,
         NEW r, Suspended(r, s, w, t)
  PROVE  \A x \in Thread : On(r, w, x) => On(s, w, x) \/ x = t
<1>1. /\ IpcInv(s) /\ t \in Thread /\ s.stat[t] = "running" /\ s.lock = 0
  BY CallerRuns DEF Sound, IpcInv, KernelInv, ListFacts, KernelState
<1>2. PICK flag \in {"FIFO", "PRIO"}, finite \in BOOLEAN, e \in Error :
        r = SuspendTimed([s EXCEPT !.err[t] = e], w, flag, t, finite)
  BY DEF Suspended
<1>3. Waits(r, s, w, t, e, finite)
  BY <1>1, <1>2, SuspendWaits
<1> QED
  BY <1>3 DEF Waits

\* A walk along list w by the current thread, which calls rt_schedule then if it
\* has to.
WalkedBy(r, to, s, at, w, chosen) ==
  r = ResumeChosen(s, w, chosen) /\ (to = at \/ to = [at EXCEPT ![s.cur] = "resched"])

LEMMA SoundWalks ==
  ASSUME NEW s, NEW at, NEW c, CallsOK(c), Sound(s, at, c), s.cur # Idle, at[s.cur] = "run",
         NEW w \in WaitList, NEW chosen, NEW r, NEW to, WalkedBy(r, to, s, at, w, chosen)
  PROVE  /\ Sound(r, to, c) /\ Fewer(r, s, w)
         /\ \A x \in Thread : On(r, w, x) => x \notin chosen
         /\ \A v \in WaitList : v # w => Calm(r, to, s, at, v, c.lists[v])
<1>1. r = ResumeChosen(s, w, chosen) /\ (to = at \/ to = [at EXCEPT ![s.cur] = "resched"])
  BY DEF WalkedBy
<1>2. /\ Sound(r, at, c) /\ r.cur = s.cur /\ Fewer(r, s, w)
      /\ \A x \in Thread : On(r, w, x) => x \notin chosen
      /\ \A v \in WaitList : v # w => Calm(r, at, s, at, v, c.lists[v])
  BY <1>1, SoundWakesChosen
<1>3. CASE to = at
  BY <1>2, <1>3
<1>4. CASE to = [at EXCEPT ![s.cur] = "resched"]
  <2> DEFINE t == r.cur
  <2>1. /\ t = r.cur /\ at[t] \notin c.out /\ at[t] \notin c.locked /\ t # Idle
        /\ "resched" \in c.labels /\ "resched" \notin c.locked
        /\ \A v \in WaitList : "resched" \notin c.lists[v] /\ at[t] \notin c.lists[v]
        /\ to = [at EXCEPT ![t] = "resched"]
    BY <1>2, <1>4 DEF CallsOK
  <2> HIDE DEF t
  <2>2. Sound(r, to, c) /\ \A v \in WaitList : Calm(r, to, r, at, v, c.lists[v])
    BY <1>2, <2>1, SoundMoves
  <2>3. \A v \in WaitList : v # w => Calm(r, to, s, at, v, c.lists[v])
    BY <1>2, <2>2 DEF Calm, AsMany, Stay, Fewer
  <2> QED BY <1>2, <2>2, <2>3
<1> QED
  BY <1>1, <1>3, <1>4

\* The same by an interrupt handler.
WalkedByIsr(r, s, w, chosen) ==
  LET u == ResumeChosen(s, w, chosen) IN r = u \/ r = rt_schedule(u)

LEMMA SoundIsrWalks ==
  ASSUME NEW s, NEW at, NEW c, CallsOK(c), Sound(s, at, c), NEW w \in WaitList, NEW chosen,
         NEW r, WalkedByIsr(r, s, w, chosen)
  PROVE  /\ Sound(r, at, c) /\ Fewer(r, s, w)
         /\ \A x \in Thread : On(r, w, x) => x \notin chosen
         /\ \A v \in WaitList : v # w => Calm(r, at, s, at, v, c.lists[v])
<1> DEFINE u == ResumeChosen(s, w, chosen)
<1>1. r = u \/ r = rt_schedule(u)
  BY DEF WalkedByIsr
<1>2. /\ Sound(u, at, c) /\ Fewer(u, s, w)
      /\ \A x \in Thread : On(u, w, x) => x \notin chosen
      /\ \A v \in WaitList : v # w => Calm(u, at, s, at, v, c.lists[v])
  BY SoundWakesChosen
<1> HIDE DEF u
<1>3. CASE r = u
  BY <1>2, <1>3
<1>4. CASE r = rt_schedule(u)
  <2>1. Rescheduled(r, u)
    BY <1>2, <1>4, Reschedules DEF Sound
  <2>2. Sound(r, at, c) /\ \A v \in WaitList : Calm(r, at, u, at, v, c.lists[v])
    BY <1>2, <2>1, SoundSchedules
  <2>3. Fewer(r, u, w)
    BY <2>2 DEF Calm, AsMany, Stay
  <2>4. /\ Fewer(r, s, w)
        /\ \A x \in Thread : On(r, w, x) => x \notin chosen
        /\ \A v \in WaitList : v # w => Calm(r, at, s, at, v, c.lists[v])
    BY <1>2, <2>2, <2>3 DEF Calm, AsMany, Stay, Fewer
  <2> QED BY <2>2, <2>4
<1> QED
  BY <1>1, <1>3, <1>4

\* Those that such a walk chooses leave the list, and find no error.
LEMMA ChosenServed ==
  ASSUME NEW s, IpcInv(s), NEW w \in WaitList, NEW chosen, NEW r, WalkedByIsr(r, s, w, chosen)
  PROVE  \A x \in Thread : x \in chosen /\ On(s, w, x) => ~On(r, w, x) /\ r.err[x] = "EOK"
<1> DEFINE u == ResumeChosen(s, w, chosen)
<1>1. r = u \/ r = rt_schedule(u)
  BY DEF WalkedByIsr
<1>2. /\ IpcInv(u)
      /\ \A x \in Thread : x \in chosen /\ On(s, w, x) => ~On(u, w, x) /\ u.err[x] = "EOK"
  BY ResumeChosenWakes DEF PartlyWoke
<1> HIDE DEF u
<1>3. CASE r = rt_schedule(u)
  <2>1. Rescheduled(r, u)
    BY <1>2, <1>3, Reschedules
  <2> QED BY <1>2, <2>1 DEF Rescheduled, On
<1> QED
  BY <1>1, <1>2, <1>3
=============================================================================
