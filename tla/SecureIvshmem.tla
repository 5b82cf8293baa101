--------------------------- MODULE SecureIvshmem ----------------------------
(***************************************************************************)
(* The control plane of ChannelControl and the rings of RingOps together:  *)
(* senders and receivers work on a channel through the p_chan they looked  *)
(* up, while the trusted host may move and resize it.  The only thing      *)
(* between them is control_mutex, which the host sets and the clients test *)
(* once per page.  Messages are whole pages (PageRing has the other        *)
(* sizes); data_size, which no decision depends on, is left to PageRing.   *)
(***************************************************************************)
EXTENDS ChannelControl, RingOps

CONSTANTS
  Size,    \* pages of each client's message
  MaxSeq   \* bound: pages of a channel are numbered modulo this

ASSUME MessagesAssumption ==
  /\ Size \in [Clients -> Nat]
  /\ MaxSeq \in Nat \ {0}

VARIABLES
  ring,       \* head and tail of each channel
  ring_tmp,   \* the same fields in p_chan_tmp
  mem,        \* the pages of the data section
  d_pc,       \* where each client is inside its send or receive loop
  d_done,     \* pages of its message it has moved
  d_addr,     \* the page its memcpy works on
  d_page,     \* what a receiver copied out
  \* history: the number of the next page put into, taken from each channel,
  \* and whether a rebalancing met the channel in use
  put, taken, disturbed

rings == <<ring, ring_tmp, mem>>
loops == <<d_pc, d_done, d_addr, d_page>>
history == <<put, taken, disturbed>>
data_vars == <<rings, loops, history>>
vars == <<control_vars, data_vars>>

NoRing == [head |-> 0, tail |-> 0]
NoPage == [slot |-> NULL, seq |-> 0]
Addresses == 0 .. (DATA_SECTION_SIZE \div IVSHMEM_PAGE_SIZE) - 1

Init ==
  /\ ControlInit
  /\ ring = [i \in Slots |-> NoRing]
  /\ ring_tmp = [i \in Slots |-> NoRing]
  /\ mem = [a \in Addresses |-> NoPage]
  /\ d_pc = [c \in Clients |-> "out"]
  /\ d_done = [c \in Clients |-> 0]
  /\ d_addr = [c \in Clients |-> 0]
  /\ d_page = [c \in Clients |-> NoPage]
  /\ put = [i \in Slots |-> 0]
  /\ taken = [i \in Slots |-> 0]
  /\ disturbed = [i \in Slots |-> FALSE]

-----------------------------------------------------------------------------
(* The host: what its actions do to the rings.                             *)

\* The client has passed the mutex test of its loop.
Inside(c) == d_pc[c] \notin {"out", "loop", "fault"}

InUse(i) ==
  \/ ~IsEmpty(ring[i].head, ring[i].tail)
  \/ \E c \in Clients : c_chan[c] = i /\ Inside(c)

\* ivshmem_init_control_section clears the table and the data section.
StartData ==
  /\ TrustedStart
  /\ ring' = [i \in Slots |-> NoRing]
  /\ mem' = [a \in Addresses |-> NoPage]
  /\ put' = [i \in Slots |-> 0]
  /\ taken' = [i \in Slots |-> 0]
  /\ disturbed' = [i \in Slots |-> \E c \in Clients : c_chan[c] = i]
  /\ UNCHANGED <<ring_tmp, loops>>

CrashData ==
  /\ TrustedCrash
  /\ ring_tmp' = [i \in Slots |-> NoRing]
  /\ UNCHANGED <<ring, mem, loops, history>>

CopyData ==
  /\ RebalanceCopy
  /\ ring_tmp' = ring
  /\ disturbed' = [i \in Slots |-> disturbed[i] \/ InUse(i)]
  /\ UNCHANGED <<ring, mem, loops, put, taken>>

\* mutant: the indices start again from the first page
MoveRingTailReset(i) ==
  [head |-> ring_tmp[i].head % NumPage(num_active_channels), tail |-> 0]

(* The copy's indices, cut down to the new number of pages; the pages      *)
(* themselves stay where they are.                                         *)
MoveRing(i) ==
  [head |-> ring_tmp[i].head % NumPage(num_active_channels),
   tail |-> ring_tmp[i].tail % NumPage(num_active_channels)]

MoveData ==
  /\ RebalanceMove
  /\ ring' = [ring EXCEPT ![cnt] = MoveRing(cnt)]
  /\ UNCHANGED <<ring_tmp, mem, loops, history>>

UnlockData ==
  /\ RebalanceUnlock
  /\ ring' = [i \in Slots |-> IF i < cnt THEN ring[i] ELSE NoRing]
  /\ ring_tmp' = [i \in Slots |-> NoRing]
  /\ UNCHANGED <<mem, loops, history>>

CreateData ==
  /\ ControlCreate
  /\ ring' = IF num_active_channels' > num_active_channels
               THEN [ring EXCEPT ![num_active_channels] = NoRing]
               ELSE ring
  /\ UNCHANGED <<ring_tmp, mem, loops, history>>

HostData ==
  \/ StartData \/ CrashData \/ CopyData \/ MoveData \/ UnlockData
  \/ CreateData
  \/ /\ \/ RebalanceLock \/ RebalanceSkip \/ RebalanceNoMemory
        \/ ControlLock \/ ControlReadKey \/ ControlClear \/ ControlUnlock
     /\ UNCHANGED data_vars

-----------------------------------------------------------------------------
(* The clients.                                                            *)

\* A lookup that found a channel leads into the loop.
Enter(c) ==
  /\ d_pc' = [d_pc EXCEPT ![c] = IF c_pc'[c] = "have" THEN "loop" ELSE "out"]
  /\ UNCHANGED <<rings, d_done, d_addr, d_page, history>>

SetPC(c, pc) == d_pc' = [d_pc EXCEPT ![c] = pc]

chan(c) == channels[c_chan[c]]

\* mutant: the mutex is not tested
PassMutexUntested(c) ==
  /\ d_pc[c] = "loop"
  /\ d_done[c] < Size[c]
  /\ SetPC(c, "test")
  /\ UNCHANGED <<control_vars, rings, d_done, d_addr, d_page, history>>

PassMutex(c) ==
  /\ d_pc[c] = "loop"
  /\ control_mutex = 0
  /\ d_done[c] < Size[c]
  /\ SetPC(c, "test")
  /\ UNCHANGED <<control_vars, rings, d_done, d_addr, d_page, history>>

\* Everything is moved: the call returns.
LeaveLoop(c) ==
  /\ d_pc[c] = "loop"
  /\ control_mutex = 0
  /\ d_done[c] >= Size[c]
  /\ Return(c)
  /\ SetPC(c, "out")
  /\ d_done' = [d_done EXCEPT ![c] = 0]
  /\ UNCHANGED <<rings, d_addr, d_page, history>>

\* No room, or nothing there: the loop starts over.
Blocked(c) ==
  LET r == ring[c_chan[c]] IN
    IF c \in Writers THEN IsFull(r.head, r.tail, chan(c).num_page)
                     ELSE IsEmpty(r.head, r.tail)

StartOver(c) ==
  /\ d_pc[c] = "test"
  /\ Blocked(c)
  /\ SetPC(c, "loop")
  /\ UNCHANGED <<control_vars, rings, d_done, d_addr, d_page, history>>

\* The arguments of memcpy are read; the copying starts.
StartCopy(c) ==
  /\ d_pc[c] = "test"
  /\ ~Blocked(c)
  /\ LET r == ring[c_chan[c]]
         index == IF c \in Writers THEN r.head ELSE r.tail
     IN  d_addr' = [d_addr EXCEPT ![c] =
                      chan(c).buf_offset \div IVSHMEM_PAGE_SIZE + index]
  /\ SetPC(c, "copy")
  /\ UNCHANGED <<control_vars, rings, d_done, d_page, history>>

SendCopy(w) ==
  /\ d_pc[w] = "copy"
  /\ mem' = [mem EXCEPT ![d_addr[w]] =
               [slot |-> c_chan[w], seq |-> put[c_chan[w]]]]
  /\ SetPC(w, "index")
  /\ UNCHANGED <<control_vars, ring, ring_tmp, d_done, d_addr, d_page,
                 history>>

RecvCopy(r) ==
  /\ d_pc[r] = "copy"
  /\ d_page' = [d_page EXCEPT ![r] = mem[d_addr[r]]]
  /\ SetPC(r, "index")
  /\ UNCHANGED <<control_vars, rings, d_done, d_addr, history>>

\* The index moves on.  num_page is 0 in a slot the host has cleared.
Divides(c) == chan(c).num_page # 0

SendHead(w) ==
  /\ d_pc[w] = "index"
  /\ Divides(w)
  /\ ring' = [ring EXCEPT ![c_chan[w]].head = Advance(@, chan(w).num_page)]
  /\ put' = [put EXCEPT ![c_chan[w]] = (@ + 1) % MaxSeq]
  /\ d_done' = [d_done EXCEPT ![w] = @ + 1]
  /\ d_addr' = [d_addr EXCEPT ![w] = 0]
  /\ SetPC(w, "loop")
  /\ UNCHANGED <<control_vars, ring_tmp, mem, d_page, taken, disturbed>>

RecvTail(r) ==
  /\ d_pc[r] = "index"
  /\ Divides(r)
  /\ ring' = [ring EXCEPT ![c_chan[r]].tail = Advance(@, chan(r).num_page)]
  /\ taken' = [taken EXCEPT ![c_chan[r]] = (@ + 1) % MaxSeq]
  /\ d_done' = [d_done EXCEPT ![r] = @ + 1]
  /\ d_addr' = [d_addr EXCEPT ![r] = 0]
  /\ d_page' = [d_page EXCEPT ![r] = NoPage]
  /\ SetPC(r, "loop")
  /\ UNCHANGED <<control_vars, ring_tmp, mem, put, disturbed>>

\* % 0: the process is killed.
Fault(c) ==
  /\ d_pc[c] = "index"
  /\ ~Divides(c)
  /\ SetPC(c, "fault")
  /\ UNCHANGED <<control_vars, rings, d_done, d_addr, d_page, history>>

Loop(c) == PassMutex(c) \/ LeaveLoop(c) \/ StartOver(c) \/ StartCopy(c)
             \/ Fault(c)

ClientData ==
  \/ \E w \in Writers :
       \/ (RequestChannel(w) \/ PollDone(w)) /\ Enter(w)
       \/ WriterWork(w) /\ UNCHANGED data_vars
       \/ SendCopy(w) \/ SendHead(w)
  \/ \E r \in Readers :
       \/ FindForReceive(r) /\ Enter(r)
       \/ RecvCopy(r) \/ RecvTail(r)
  \/ \E c \in Clients :
       \/ c_pc[c] = "failed" /\ Return(c) /\ UNCHANGED data_vars
       \/ Loop(c)

Next == HostData \/ ClientData

Spec == Init /\ [][Next]_vars

-----------------------------------------------------------------------------
(* Types; every copy is to or from a page of the data section.             *)
TypeOK ==
  /\ ControlTypeOK
  /\ ring \in [Slots -> [head : Nat, tail : Nat]]
  /\ ring_tmp \in [Slots -> [head : Nat, tail : Nat]]
  /\ mem \in [Addresses -> [slot : Slots \cup {NULL}, seq : 0 .. MaxSeq - 1]]
  /\ d_pc \in [Clients -> {"out", "loop", "test", "copy", "index", "fault"}]
  /\ d_done \in [Clients -> Nat]
  /\ d_addr \in [Clients -> Addresses]
  /\ d_page \in [Clients -> [slot : Slots \cup {NULL}, seq : 0 .. MaxSeq - 1]]
  /\ put \in [Slots -> 0 .. MaxSeq - 1]
  /\ taken \in [Slots -> 0 .. MaxSeq - 1]
  /\ disturbed \in [Slots -> BOOLEAN]

InOrderOn(r) ==
  d_pc[r] = "index" =>
    d_page[r] = [slot |-> c_chan[r], seq |-> taken[c_chan[r]]]

Quiet == \A i \in Slots : ~disturbed[i]

(* As long as every rebalancing met the channels empty and with nobody     *)
(* past the mutex test, every receiver gets the pages its sender put, in   *)
(* order, however often the channels were moved and resized.  All of them  *)
(* have to be quiet: a sender that was met on one channel may go on to     *)
(* write into another one.                                                 *)
QuietRebalancingIsTransparent ==
  Quiet => \A r \in Readers : InOrderOn(r)

(* On a channel no rebalancing met in use, whoever copies works inside the *)
(* buffer the channel has by then: an address computed before a move is    *)
(* not used after it, and no index lies outside a ring that has become     *)
(* smaller.                                                                *)
QuietCopiesStayInside ==
  \A c \in Clients :
    d_pc[c] = "copy" /\ ~disturbed[c_chan[c]] =>
      /\ d_addr[c] * IVSHMEM_PAGE_SIZE >= chan(c).buf_offset
      /\ (d_addr[c] + 1) * IVSHMEM_PAGE_SIZE <= End(c_chan[c])

(* A client divides by zero only on a channel it looked up before the host *)
(* was started again.                                                      *)
FaultOnlyAfterRestart ==
  \A c \in Clients : d_pc[c] = "fault" => c_start[c] < starts

(* README: "Data is transmitted within dedicated channels without locks,   *)
(* ensuring isolation between channels": no sender copies into the buffer  *)
(* of another channel.                                                     *)
Isolation ==
  \A w \in Writers :
    d_pc[w] = "copy" /\ control_mutex = 0 =>
      \A i \in Active :
        /\ i # c_chan[w]
        /\ d_addr[w] * IVSHMEM_PAGE_SIZE >= channels[i].buf_offset
        => d_addr[w] * IVSHMEM_PAGE_SIZE >= End(i)

(* The reader prints "Data mismatch" when a message does not carry the     *)
(* counter it expects: pages arrive in order, rebalanced or not.           *)
InOrder == \A r \in Readers : InOrderOn(r)
=============================================================================
