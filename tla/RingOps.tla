------------------------------ MODULE RingOps -------------------------------
(***************************************************************************)
(* The arithmetic of ivshmem_send_buffer and ivshmem_recv_buffer in page   *)
(* mode: when a ring of n pages is full or empty, where an index goes      *)
(* next, and how many bytes one turn of each loop moves.                   *)
(***************************************************************************)
EXTENDS Integers

\* mutant: the wrapped position of a full ring is forgotten
IsFullNoWrap(head, tail, n) == head = tail - 1

(* head and tail are uint32_t: tail - 1 of tail = 0 is 2^32 - 1, which no  *)
(* head equals, as no natural number equals -1 here.                       *)
IsFull(head, tail, n) ==
  \/ head = tail - 1
  \/ head = n - 1 /\ tail = 0

IsEmpty(head, tail) == head = tail

Advance(i, n) == (i + 1) % n

\* Pages written and not yet taken.
Count(head, tail, n) == IF head >= tail THEN head - tail ELSE head - tail + n

\* The i-th page behind tail, i < n.
Position(tail, i, n) == IF tail + i < n THEN tail + i ELSE tail + i - n

Least(a, b) == IF a < b THEN a ELSE b

\* mutant: every page gets what is left over in the last one
ToSentRest(size, page, SIZE_T) == Least(size % page, page)

(* What one turn of the send loop copies.  The size of a page, not what    *)
(* was sent so far, is taken off the message size, and size_t wraps:       *)
(* SIZE_T is the number of values it has.                                  *)
ToSent(size, page, SIZE_T) == Least((size - page) % SIZE_T, page)

\* What one turn of the receive loop copies.
ToReceive(size, received, page) == Least(size - received, page)
=============================================================================
