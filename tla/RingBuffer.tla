----------------------------- MODULE RingBuffer -----------------------------
(***************************************************************************)
(* The ring buffer of components/drivers/ipc/ringbuffer.c.  Each index has *)
(* a mirror bit that is flipped when the index wraps, so that a full ring  *)
(* and an empty one are told apart without giving up a cell.               *)
(***************************************************************************)
EXTENDS Naturals, Sequences

CONSTANTS
  Byte,       \* what a cell holds
  Blank,      \* what it holds before its first use
  BufSize     \* buffer_size

ASSUME RingAssumption == Blank \notin Byte /\ BufSize \in Nat \ {0}

Cell == 0..BufSize-1

Ring == [ buf : [Cell -> Byte \union {Blank}],
          ri : Cell, rm : BOOLEAN,     \* read_index, read_mirror
          wi : Cell, wm : BOOLEAN ]    \* write_index, write_mirror

\* rt_ringbuffer_init
EmptyRing == [buf |-> [i \in Cell |-> Blank], ri |-> 0, rm |-> FALSE, wi |-> 0, wm |-> FALSE]

\* The three answers of rt_ringbuffer_data_len, and what rt_ringbuffer_status
\* tells them by: the indices first, then the mirrors, then the indices again.
SameIndex(r)  == r.ri = r.wi
EmptyOrFull(r) == IF r.rm = r.wm THEN 0 ELSE BufSize
HalfFull(r)   == IF r.wi > r.ri THEN r.wi - r.ri ELSE BufSize - (r.ri - r.wi)

DataLen(r) == IF SameIndex(r) THEN EmptyOrFull(r) ELSE HalfFull(r)

\* How many of the bytes s a put stores: what does not fit is dropped.
Fits(r, s) ==
  LET space == BufSize - DataLen(r) IN IF Len(s) > space THEN space ELSE Len(s)

\* Mutant of Put: a put that ends exactly at the end does not wrap.
PutWrapsLate(r, s) ==
  LET n == Fits(r, s)
      past(i) == IF i >= r.wi THEN i - r.wi ELSE i + BufSize - r.wi
      buf == [i \in Cell |-> IF past(i) < n THEN s[past(i) + 1] ELSE r.buf[i]]
  IN  IF n = 0 THEN r
      ELSE IF BufSize - r.wi >= n THEN [r EXCEPT !.buf = buf, !.wi = (@ + n) % BufSize]
      ELSE [r EXCEPT !.buf = buf, !.wm = ~@, !.wi = n - (BufSize - @)]

\* rt_ringbuffer_put; past(i) is how far cell i is past the write index.
Put(r, s) ==
  LET n == Fits(r, s)
      past(i) == IF i >= r.wi THEN i - r.wi ELSE i + BufSize - r.wi
      buf == [i \in Cell |-> IF past(i) < n THEN s[past(i) + 1] ELSE r.buf[i]]
  IN  IF n = 0 THEN r
      ELSE IF BufSize - r.wi > n THEN [r EXCEPT !.buf = buf, !.wi = @ + n]
      ELSE [r EXCEPT !.buf = buf, !.wm = ~@, !.wi = n - (BufSize - @)]

\* rt_ringbuffer_putchar
PutChar(r, c) ==
  IF DataLen(r) = BufSize THEN r
  ELSE IF r.wi = BufSize - 1 THEN [r EXCEPT !.buf[r.wi] = c, !.wm = ~@, !.wi = 0]
  ELSE [r EXCEPT !.buf[r.wi] = c, !.wi = @ + 1]

\* The first n bytes, oldest first, that rt_ringbuffer_get copies out.
First(r, n) == [i \in 1..n |-> r.buf[(r.ri + i - 1) % BufSize]]

\* What rt_ringbuffer_get leaves when it returns n > 0 bytes.
Rest(r, n) ==
  IF BufSize - r.ri > n THEN [r EXCEPT !.ri = @ + n]
  ELSE [r EXCEPT !.rm = ~@, !.ri = n - (BufSize - @)]

\* What rt_ringbuffer_getchar leaves of a ring that is not empty.
RestChar(r) ==
  IF r.ri = BufSize - 1 THEN [r EXCEPT !.rm = ~@, !.ri = 0] ELSE [r EXCEPT !.ri = @ + 1]

\* The bytes in the ring, oldest first.
Contents(r) == First(r, DataLen(r))
=============================================================================
