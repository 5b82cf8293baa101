------------------------------ MODULE PageRing ------------------------------
(***************************************************************************)
(* One channel in page mode while its geometry does not change: a process  *)
(* that calls ivshmem_send_buffer over and over and one that calls         *)
(* ivshmem_recv_buffer over and over share the ring without a lock.  A     *)
(* step is one access to shared memory; "copy" is the time a memcpy takes. *)
(***************************************************************************)
EXTENDS RingOps, Sequences

CONSTANTS
  PAGE,      \* IVSHMEM_PAGE_SIZE
  NumPages,  \* num_page of the channel
  SIZE,      \* message size both sides use
  SIZE_T,    \* how many values a size_t has
  Counters   \* bound: the message counter wraps here

ASSUME RingAssumption ==
  /\ PAGE \in Nat \ {0}
  /\ NumPages \in Nat \ {0, 1}
  /\ SIZE \in Nat \ {0}
  /\ SIZE_T \in Nat \ {0}
  /\ Counters \in Nat \ {0}

VARIABLES
  head, tail, data_size,     \* fields of the channel
  mem,                       \* the pages of its buffer
  w_pc, w_msg, data_sent,    \* the sender, its message and its progress
  r_pc, r_msg, data_received,
  r_page                     \* the page the receiver copied last

writer == <<w_pc, w_msg, data_sent>>
reader == <<r_pc, r_msg, data_received, r_page>>
ring_vars == <<head, tail, data_size, mem, writer, reader>>

\* len bytes of a message, from byte from on
Slice == [msg : 0 .. Counters - 1, from : 0 .. SIZE - 1, len : 0 .. PAGE]
NoSlice == [msg |-> 0, from |-> 0, len |-> 0]

RingInit ==
  /\ head = 0
  /\ tail = 0
  /\ data_size = 0
  /\ mem = [i \in 0 .. NumPages - 1 |-> NoSlice]
  /\ w_pc = "check"
  /\ w_msg = 0
  /\ data_sent = 0
  /\ r_pc = "check"
  /\ r_msg = 0
  /\ data_received = 0
  /\ r_page = NoSlice

-----------------------------------------------------------------------------
to_sent == ToSent(SIZE, PAGE, SIZE_T)

\* The call returns, and the caller counts up and sends its next message.
SendReturn ==
  /\ w_pc = "check"
  /\ data_sent >= SIZE
  /\ w_msg' = (w_msg + 1) % Counters
  /\ data_sent' = 0
  /\ UNCHANGED <<head, tail, data_size, mem, w_pc, reader>>

SendCheck ==
  /\ w_pc = "check"
  /\ data_sent < SIZE
  /\ ~IsFull(head, tail, NumPages)
  /\ w_pc' = "copy"
  /\ UNCHANGED <<head, tail, data_size, mem, w_msg, data_sent, reader>>

SendCopy ==
  /\ w_pc = "copy"
  /\ mem' = [mem EXCEPT ![head] =
               [msg |-> w_msg, from |-> data_sent, len |-> to_sent]]
  /\ w_pc' = "head"
  /\ UNCHANGED <<head, tail, data_size, w_msg, data_sent, reader>>

SendHead ==
  /\ w_pc = "head"
  /\ head' = Advance(head, NumPages)
  /\ w_pc' = "account"
  /\ UNCHANGED <<tail, data_size, mem, w_msg, data_sent, reader>>

SendAccount ==
  /\ w_pc = "account"
  /\ data_sent' = data_sent + to_sent
  /\ data_size' = (data_size + to_sent) % SIZE_T
  /\ w_pc' = "check"
  /\ UNCHANGED <<head, tail, mem, w_msg, reader>>

-----------------------------------------------------------------------------
to_receive == ToReceive(SIZE, data_received, PAGE)

RecvReturn ==
  /\ r_pc = "check"
  /\ data_received >= SIZE
  /\ r_msg' = (r_msg + 1) % Counters
  /\ data_received' = 0
  /\ UNCHANGED <<head, tail, data_size, mem, writer, r_pc, r_page>>

RecvCheck ==
  /\ r_pc = "check"
  /\ data_received < SIZE
  /\ ~IsEmpty(head, tail)
  /\ r_pc' = "copy"
  /\ UNCHANGED <<head, tail, data_size, mem, writer, r_msg, data_received,
                 r_page>>

RecvCopy ==
  /\ r_pc = "copy"
  /\ r_page' = mem[tail]
  /\ r_pc' = "tail"
  /\ UNCHANGED <<head, tail, data_size, mem, writer, r_msg, data_received>>

RecvTail ==
  /\ r_pc = "tail"
  /\ tail' = Advance(tail, NumPages)
  /\ r_pc' = "account"
  /\ UNCHANGED <<head, data_size, mem, writer, r_msg, data_received, r_page>>

\* mutant: the receiver's own progress is not counted
RecvAccountStuck ==
  /\ r_pc = "account"
  /\ data_size' = (data_size - to_receive) % SIZE_T
  /\ r_pc' = "check"
  /\ UNCHANGED <<head, tail, mem, writer, r_msg, data_received, r_page>>

RecvAccount ==
  /\ r_pc = "account"
  /\ data_received' = data_received + to_receive
  /\ data_size' = (data_size - to_receive) % SIZE_T
  /\ r_pc' = "check"
  /\ UNCHANGED <<head, tail, mem, writer, r_msg, r_page>>

-----------------------------------------------------------------------------
Send == SendReturn \/ SendCheck \/ SendCopy \/ SendHead \/ SendAccount
Recv == RecvReturn \/ RecvCheck \/ RecvCopy \/ RecvTail \/ RecvAccount

RingNext == Send \/ Recv

RingSpec == RingInit /\ [][RingNext]_ring_vars

(* Both sides poll in a loop of their own process: a side that can move    *)
(* moves.                                                                  *)
RingFairSpec == RingSpec /\ WF_ring_vars(Send) /\ WF_ring_vars(Recv)

-----------------------------------------------------------------------------
(* Types; head and tail stay inside the ring.                              *)
RingTypeOK ==
  /\ head \in 0 .. NumPages - 1
  /\ tail \in 0 .. NumPages - 1
  /\ data_size \in 0 .. SIZE_T - 1
  /\ mem \in [0 .. NumPages - 1 -> Slice]
  /\ w_pc \in {"check", "copy", "head", "account"}
  /\ w_msg \in 0 .. Counters - 1
  /\ data_sent \in Nat
  /\ r_pc \in {"check", "copy", "tail", "account"}
  /\ r_msg \in 0 .. Counters - 1
  /\ data_received \in Nat
  /\ r_page \in Slice

(* The sender never copies into the page the receiver is copying out of:   *)
(* the two memcpys run without a lock.                                     *)
NoPageRace == ~(w_pc = "copy" /\ r_pc = "copy" /\ head = tail)

(* Every piece the receiver puts at data_received of its message is that   *)
(* part of that message, and the page holds all the bytes taken from it.   *)
MessageIntact ==
  r_pc = "tail" => /\ r_page.msg = r_msg
                   /\ r_page.from = data_received
                   /\ r_page.len >= to_receive

(* data_size is the number of bytes in the ring ("actual data size in      *)
(* bytes") whenever neither side is inside a page.                         *)
DataSizeExact ==
  w_pc = "check" /\ r_pc = "check" =>
    data_size = Count(head, tail, NumPages) * PAGE

(* A message that is being received is received to its end.                *)
MessagesFlow ==
  \A m \in 0 .. Counters - 1 : r_msg = m ~> r_msg = (m + 1) % Counters

(* The ring implements the queue: a page enters it when head moves and     *)
(* leaves it once it is copied out, a step before tail moves.              *)
CopiedOut == IF r_pc = "tail" THEN 1 ELSE 0
InRing == [i \in 1 .. Count(head, tail, NumPages) - CopiedOut |->
             mem[Position(tail, i - 1 + CopiedOut, NumPages)]]

Fifo == INSTANCE PageFifo WITH Pages <- Slice, Capacity <- NumPages - 1,
                               queue <- InRing, last <- r_page
RingIsFifo == Fifo!FifoSpec
=============================================================================
