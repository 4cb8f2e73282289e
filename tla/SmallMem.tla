------------------------------ MODULE SmallMem ------------------------------
(***************************************************************************)
(* The small memory heap of mem.c, the system heap of this board.          *)
(*                                                                         *)
(* The heap is a chain of items from offset 0 to an end item.  An item is  *)
(* a header and the data behind it, used or free.  An allocation takes the *)
(* first free item that fits, from the lowest free one on, and splits off  *)
(* what is left; a free merges the item with its free neighbours.          *)
(*                                                                         *)
(* rt_malloc, rt_realloc and rt_free of kservice.c hold one lock for the   *)
(* whole call, so that each call is one step here.  Offsets are in bytes.  *)
(***************************************************************************)
EXTENDS Naturals, FiniteSetsExt

CONSTANTS
  Align,      \* RT_ALIGN_SIZE
  Header,     \* SIZEOF_STRUCT_MEM
  MinSize,    \* MIN_SIZE
  Size,       \* mem_size_aligned
  Sizes       \* the sizes callers ask for

ASSUME SmallMemAssumption ==
  /\ {Align, MinSize, Size} \subseteq Nat \ {0} /\ Header \in Nat /\ Sizes \subseteq Nat
  /\ Header % Align = 0 /\ Size % Align = 0

VARIABLES
  item,       \* the items: their next and prev, and MEM_ISUSED
  lfree,      \* the lowest free item
  used        \* bytes in use, headers included

heapVars == <<item, lfree, used>>
heap == [item |-> item, lfree |-> lfree, used |-> used]

End == Size + Header
Offset == {a * Align : a \in 0..End \div Align}

HeapTypeOK ==
  /\ DOMAIN item \subseteq Offset
  /\ \A p \in DOMAIN item : item[p] \in [next : Offset, prev : Offset, used : BOOLEAN]
  /\ lfree \in DOMAIN item
  /\ used \in 0..End

\* rt_smem_init
HeapInit ==
  /\ item = [p \in {0, End} |-> [next |-> End, prev |-> p, used |-> p = End]]
  /\ lfree = 0
  /\ used = 0

-----------------------------------------------------------------------------
(* Helpers; h is a heap *)

RT_ALIGN(n) == ((n + Align - 1) \div Align) * Align

\* The size an allocation of n bytes looks for.
Wanted(n) == Max({RT_ALIGN(n), RT_ALIGN(MinSize)})

Data(h, p) == h.item[p].next - p - Header

Drop(f, p) == [q \in DOMAIN f \ {p} |-> f[q]]

\* Merge the free item p with the free item q behind it.
Merge(h, p, q) ==
  LET n == h.item[q].next
  IN  [h EXCEPT !.item = Drop([@ EXCEPT ![p].next = n, ![n].prev = p], q),
                !.lfree = IF @ = q THEN p ELSE @]

\* Mutant of plug_holes: the item in front is not looked at.
PlugForward(h, p) ==
  LET n == h.item[p].next
  IN  IF h.item[n].used \/ n = End THEN h ELSE Merge(h, p, n)

\* Merge the item p, just freed, with the free items behind and in front of it.
plug_holes(h, p) ==
  LET n == h.item[p].next
      f == IF h.item[n].used \/ n = End THEN h ELSE Merge(h, p, n)
      q == h.item[p].prev
  IN  IF q = p \/ h.item[q].used THEN f ELSE Merge(f, q, p)

\* Give the item p the given size and make a free item of what is left.
Split(h, p, size) ==
  LET n == h.item[p].next
      r == p + Header + size
      added == [q \in DOMAIN h.item \union {r} |->
                  IF q = r THEN [next |-> n, prev |-> p, used |-> FALSE] ELSE h.item[q]]
      behind == IF n = End THEN added ELSE [added EXCEPT ![n].prev = r]
  IN  [h EXCEPT !.item = [behind EXCEPT ![p].next = r]]

-----------------------------------------------------------------------------
(* rt_smem_alloc *)

Nowhere == End

\* The first free item that fits, on the way from the lowest free one.
FirstFit(h, size) ==
  LET fit[p \in DOMAIN h.item] ==
        IF p > Size - size THEN Nowhere
        ELSE IF ~h.item[p].used /\ Data(h, p) >= size THEN p
        ELSE fit[h.item[p].next]
  IN  IF size > Size THEN Nowhere ELSE fit[h.lfree]

\* The lowest free item, looked for from p on.
NextFree(h, p) ==
  LET free[q \in DOMAIN h.item] ==
        IF q = End \/ ~h.item[q].used THEN q ELSE free[h.item[q].next]
  IN  free[p]

\* Take the item p, and split it when the rest holds a header and the smallest
\* block.
AllocAt(h, p, size) ==
  LET cut  == IF Data(h, p) >= size + Header + RT_ALIGN(MinSize)
              THEN Split(h, p, size) ELSE h
      mine == [cut EXCEPT !.item[p].used = TRUE, !.used = @ + cut.item[p].next - p]
  IN  [mine EXCEPT !.lfree = IF @ = p THEN NextFree(mine, p) ELSE @]

\* Mutant of Freed: a freed item below the lowest free one is not noticed.
FreedAbove(h, p) ==
  plug_holes([h EXCEPT !.item[p].used = FALSE, !.used = @ - (h.item[p].next - p)], p)

\* rt_smem_free
Freed(h, p) ==
  plug_holes([h EXCEPT !.item[p].used = FALSE,
                       !.lfree = IF p < @ THEN p ELSE @,
                       !.used = @ - (h.item[p].next - p)], p)

\* rt_smem_realloc of an item to a smaller size, in place.
Shrunk(h, p, size) ==
  LET cut == Split(h, p, size)
      r   == p + Header + size
  IN  plug_holes([cut EXCEPT !.lfree = IF r < @ THEN r ELSE @,
                             !.used = @ - (Data(h, p) - size)], r)

-----------------------------------------------------------------------------
Becomes(h) == item' = h.item /\ lfree' = h.lfree /\ used' = h.used

\* What callers hold: the used items.
Held == {p \in DOMAIN item \ {End} : item[p].used}

Alloc(n) ==
  LET p == FirstFit(heap, Wanted(n))
  IN  n > 0 /\ p # Nowhere /\ Becomes(AllocAt(heap, p, Wanted(n)))

Free(p) == Becomes(Freed(heap, p))

\* Mutant of Realloc: the old item is freed before the new one is looked for.
ReallocFreeFirst(p, n) ==
  LET size == RT_ALIGN(n)
      h    == Freed(heap, p)
      q    == FirstFit(h, Wanted(size))
  IN  Becomes(IF q = Nowhere THEN h ELSE AllocAt(h, q, Wanted(size)))

\* rt_smem_realloc: to nothing it frees; it shrinks in place when a header and
\* more than MIN_SIZE are left, and moves the data to a new item otherwise.
Realloc(p, n) ==
  LET size == RT_ALIGN(n)
      q    == FirstFit(heap, Wanted(size))
  IN  \/ size = 0 /\ Free(p)
      \/ /\ size \in 1..Size /\ size + Header + MinSize < Data(heap, p)
         /\ Becomes(Shrunk(heap, p, size))
      \/ /\ size \in 1..Size /\ size # Data(heap, p)
         /\ size + Header + MinSize >= Data(heap, p)
         /\ q # Nowhere
         /\ Becomes(Freed(AllocAt(heap, q, Wanted(size)), p))

HeapNext ==
  \/ \E n \in Sizes : Alloc(n)
  \/ \E p \in Held : Free(p) \/ \E n \in Sizes : Realloc(p, n)

HeapSpec == HeapInit /\ [][HeapNext]_heapVars

-----------------------------------------------------------------------------
(* Properties *)

\* What callers see: which bytes are theirs.
Region(p) == [at |-> p + Header, size |-> Data(heap, p)]

\* The bytes given to a caller are within the heap and nobody else's, and stay
\* the caller's, at the same place and of the same size, until the caller frees
\* or resizes them, whatever is split and merged around them.
Regions == INSTANCE AbstractHeap
             WITH given <- {Region(p) : p \in Held}, Limit <- End, Least <- Header

HeapKept == Regions!Spec

\* The chain reaches every item and leaves no byte out, the links back, which
\* merging relies on, agree with it (nothing reads the end's), and no two free
\* items are neighbours: a merge on one side only, or a shrink in place, would
\* leave room that no allocation finds.  The bytes in use that rt_memory_info
\* reports are those of the used items.
HeapSound ==
  /\ \A p \in DOMAIN item \ {End} :
       LET n == item[p].next
       IN  /\ n \in DOMAIN item /\ p + Header < n
           /\ \A q \in DOMAIN item : q <= p \/ q >= n
           /\ n # End => item[n].prev = p /\ (item[p].used \/ item[n].used)
           /\ p = 0 => item[p].prev = 0
  /\ used = Cardinality(UNION {p..(item[p].next - 1) : p \in Held})

\* An allocation that some free item could serve does not fail, although it
\* looks from the lowest free item on only.
RoomIsFound ==
  \A n \in Sizes \ {0} :
    (\E p \in DOMAIN item : ~item[p].used /\ Data(heap, p) >= Wanted(n))
      => FirstFit(heap, Wanted(n)) # Nowhere
=============================================================================
