------------------------------ MODULE PageFifo ------------------------------
(***************************************************************************)
(* What one channel promises: a bounded queue of pages.  The receiver gets *)
(* the pages in the order they were sent, each of them once, unchanged.    *)
(***************************************************************************)
EXTENDS Naturals, Sequences

CONSTANTS Pages, Capacity

VARIABLES
  queue,   \* pages sent and not yet received
  last     \* the page received last

FifoInit == queue = <<>> /\ last \in Pages

Put == /\ Len(queue) < Capacity
       /\ \E p \in Pages : queue' = Append(queue, p)
       /\ UNCHANGED last

Take == /\ queue # <<>>
        /\ last' = Head(queue)
        /\ queue' = Tail(queue)

FifoSpec == FifoInit /\ [][Put \/ Take]_<<queue, last>>
=============================================================================
