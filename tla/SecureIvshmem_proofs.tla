------------------------ MODULE SecureIvshmem_proofs ------------------------
(***************************************************************************)
(* Control plane and rings together, for any number of clients, channels   *)
(* and pages: no copy leaves the data section, whatever the clients hold;  *)
(* a client is killed only after a restart of the host; and rebalancing a  *)
(* quiet channel is transparent to whoever uses it.                        *)
(***************************************************************************)
EXTENDS SecureIvshmem, ChannelControl_proofs

-----------------------------------------------------------------------------
(* What holds at all times, restarts of the host included.                 *)

Aligned(x) == \E q \in Nat : x = q * IVSHMEM_PAGE_SIZE

\* The page a channel's buffer starts with.
First(i) == channels[i].buf_offset \div IVSHMEM_PAGE_SIZE

(* A slot is cleared or has whole pages of the data section, two at least. *)
WholePages(ch) ==
  \/ ch.num_page = 0 /\ ch.buf_offset = 0 /\ ch.buf_size = 0
  \/ /\ ch.num_page >= 2
     /\ Aligned(ch.buf_offset)
     /\ ch.buf_size = ch.num_page * IVSHMEM_PAGE_SIZE
     /\ ch.buf_offset + ch.buf_size <= DATA_SECTION_SIZE

GeometryInv ==
  /\ Aligned(free_start_offset)
  /\ \A i \in Slots : WholePages(channels[i])
  /\ \A i \in Active : channels[i].num_page >= 2

(* Indices lie inside the ring, or are 0 in a slot that has none.          *)
IndexOf(i, x) == x = 0 \/ x < channels[i].num_page
IndicesInv ==
  \A i \in Slots : IndexOf(i, ring[i].head) /\ IndexOf(i, ring[i].tail)

(* A client is in a loop exactly while it holds a p_chan.                  *)
LoopsInv ==
  \A c \in Clients :
    /\ d_pc[c] # "out" <=> c_pc[c] = "have"
    /\ c_chan[c] # NULL <=> c_pc[c] = "have"
    /\ d_pc[c] = "fault" => c_start[c] < starts

SectionInv ==
  /\ TypeOK
  /\ ControlInv
  /\ GeometryInv
  /\ IndicesInv
  /\ LoopsInv

-----------------------------------------------------------------------------
(* Channels no rebalancing met in use.                                     *)

(* Nobody is past the mutex, and channels not met in use have empty rings. *)
Frozen ==
  /\ control_mutex = 1
  /\ \A i \in Slots : ~disturbed[i] =>
       /\ ring[i].head = ring[i].tail
       /\ \A c \in Clients : c_chan[c] = i => ~Inside(c)

(* The host starts to carve up the section when everything is frozen, and  *)
(* if it dies before it is done everything stays so.                       *)
FreezeInv ==
  /\ t_pc = "rb_size" => control_mutex = 1
  /\ t_pc = "rb_move" =>
       /\ Frozen
       /\ \A i \in Slots : ~disturbed[i] =>
            ring_tmp[i].head = ring_tmp[i].tail
  /\ t_pc = "down" /\ ~LaidOut(num_active_channels) => Frozen

(* A pointer to such a channel was looked up under the present host, and   *)
(* an address computed from it lies in the buffer the channel has.         *)
QuietInv ==
  \A c \in Clients :
    c_chan[c] # NULL /\ ~disturbed[c_chan[c]] =>
      /\ c_start[c] = starts
      /\ d_pc[c] \in {"copy", "index"} =>
           d_addr[c] \in First(c_chan[c]) ..
                           First(c_chan[c]) + chan(c).num_page - 1

-----------------------------------------------------------------------------
(* What the receivers get.                                                 *)

\* Positions of the pages put and not yet taken.
Held(i) ==
  LET n == channels[i].num_page IN
    {p \in 0 .. n - 1 : Count(p, ring[i].tail, n)
                          < Count(ring[i].head, ring[i].tail, n)}

\* The number of the page at position p; at head, of the page put next.
PageNo(i, p) == IF p = ring[i].head THEN put[i] ELSE mem[First(i) + p].seq

(* From tail to head the pages of a ring are numbered one by one, from the *)
(* one taken next to the one put next.                                     *)
Flow(i) ==
  /\ PageNo(i, ring[i].tail) = taken[i]
  /\ \A p \in Held(i) :
       /\ mem[First(i) + p].slot = i
       /\ PageNo(i, Advance(p, channels[i].num_page))
            = (mem[First(i) + p].seq + 1) % MaxSeq

(* What a client past its check knows, as in the ring of PageRing.         *)
SenderFlow(w) ==
  LET i == c_chan[w] IN
    d_pc[w] \in {"copy", "index"} =>
      /\ ~IsFull(ring[i].head, ring[i].tail, channels[i].num_page)
      /\ d_addr[w] = First(i) + ring[i].head
      /\ d_pc[w] = "index" =>
           mem[First(i) + ring[i].head] = [slot |-> i, seq |-> put[i]]

ReceiverFlow(r) ==
  LET i == c_chan[r] IN
    d_pc[r] \in {"copy", "index"} =>
      /\ ~IsEmpty(ring[i].head, ring[i].tail)
      /\ d_addr[r] = First(i) + ring[i].tail
      /\ d_pc[r] = "index" => d_page[r] = [slot |-> i, seq |-> taken[i]]

FlowInv ==
  Quiet =>
    /\ \A i \in Slots : IF i \in Active THEN Flow(i) ELSE put[i] = taken[i]
    /\ \A w \in Writers : SenderFlow(w)
    /\ \A r \in Readers : ReceiverFlow(r)

(* Two processes that send, or two that receive, never want the same       *)
(* channel.                                                                *)
OneOfEach ==
  \A k \in Key :
    /\ \A w, x \in Writers :
         Matches(k, ClientKey[w]) /\ Matches(k, ClientKey[x]) => w = x
    /\ \A r, q \in Readers :
         Matches(k, ClientKey[r]) /\ Matches(k, ClientKey[q]) => r = q

-----------------------------------------------------------------------------
(* Whole pages.                                                            *)

LEMMA AlignedZero == Aligned(0)
<1>1. 0 = 0 * IVSHMEM_PAGE_SIZE
  BY Sizes
<1> QED BY <1>1 DEF Aligned

(* A whole number of pages behind a page is a page.                        *)
LEMMA AlignedAdd ==
  ASSUME NEW x, Aligned(x), NEW k \in Nat
  PROVE  Aligned(x + k * IVSHMEM_PAGE_SIZE)
<1>1. PICK q \in Nat : x = q * IVSHMEM_PAGE_SIZE
  BY DEF Aligned
<1>2. x + k * IVSHMEM_PAGE_SIZE = (q + k) * IVSHMEM_PAGE_SIZE
  BY <1>1, Sizes
<1>3. q + k \in Nat
  OBVIOUS
<1> QED BY <1>2, <1>3 DEF Aligned

(* The division in the address of a page loses nothing.                    *)
LEMMA AlignedDiv ==
  ASSUME NEW x, Aligned(x)
  PROVE  /\ x \div IVSHMEM_PAGE_SIZE \in Nat
         /\ (x \div IVSHMEM_PAGE_SIZE) * IVSHMEM_PAGE_SIZE = x
<1> DEFINE P == IVSHMEM_PAGE_SIZE
<1>1. PICK q \in Nat : x = q * P
  BY DEF Aligned
<1>2. P \in Nat \ {0}
  BY Sizes
<1> HIDE DEF P
<1>3. (q * P) \div P = q
  BY <1>2
<1> QED BY <1>1, <1>3 DEF P

(* A first buffer is whole pages.                                          *)
LEMMA FirstBuffer ==
  LET n == IVSHMEM_CHANNEL_INIT_SIZE \div IVSHMEM_PAGE_SIZE
  IN  n \in Nat /\ n >= 2 /\ n * IVSHMEM_PAGE_SIZE = IVSHMEM_CHANNEL_INIT_SIZE
<1> DEFINE P == IVSHMEM_PAGE_SIZE
           S == IVSHMEM_CHANNEL_INIT_SIZE
<1>1. P \in Nat \ {0} /\ S \in Nat /\ S % P = 0 /\ S >= 2 * P
  BY SizesAssumption
<1> HIDE DEF P, S
<1>2. S \div P \in Nat /\ (S \div P) * P = S
  BY <1>1
<1>3. S \div P >= 2
  BY <1>1, <1>2
<1> QED BY <1>2, <1>3 DEF P, S

(* What a turn of the rebalancing loop writes is whole pages.              *)
LEMMA MovedWholePages ==
  ASSUME ControlInv, GeometryInv, t_pc = "rb_move", cnt < num_active_channels
  PROVE  /\ cnt \in Slots
         /\ WholePages(MoveChannel(cnt))
         /\ MoveChannel(cnt).num_page = NumPage(num_active_channels)
         /\ NumPage(num_active_channels) \in Nat
         /\ NumPage(num_active_channels) >= 2
<1> DEFINE n == num_active_channels
           S == AllocatedBufferSize(n)
<1>1. /\ n \in 1 .. IVSHMEM_MAX_CHANNELS /\ n \in Nat \ {0}
      /\ cnt \in Nat /\ cnt \in Slots /\ free_start_offset \in Nat
  BY Sizes DEF ControlInv, ControlTypeOK, Slots
<1>2. S \in Nat /\ NumPage(n) \in Nat /\ NumPage(n) >= 2
  BY <1>1, ShareNat, ShareOfTwoPages
<1>3. free_start_offset + S <= DATA_SECTION_SIZE
  <2>1. n - cnt \in Nat /\ 1 \in Nat /\ 1 <= n - cnt
    BY <1>1
  <2>2. S * 1 <= S * (n - cnt)
    BY <1>2, <2>1, MulMono
  <2>3. S * (n - cnt) = (n - cnt) * S /\ S * 1 = S
    BY <1>2, <2>1
  <2>4. free_start_offset + (n - cnt) * S
          <= DATA_SECTION_SIZE - IVSHMEM_CHANNEL_INIT_SIZE - 1
    BY DEF ControlInv, MoveUnderWay
  <2>5. (n - cnt) * S \in Nat
    BY <1>2, <2>1
  <2> QED BY <1>1, <1>2, <2>2, <2>3, <2>4, <2>5, Sizes
<1>4. p_chan_tmp[cnt] \in Channel
  BY <1>1 DEF ControlInv, ControlTypeOK
<1>5. /\ MoveChannel(cnt).buf_offset = free_start_offset
      /\ MoveChannel(cnt).buf_size = S
      /\ MoveChannel(cnt).num_page = NumPage(n)
  BY <1>4 DEF MoveChannel, Channel
<1>6. S = NumPage(n) * IVSHMEM_PAGE_SIZE
  BY DEF AllocatedBufferSize
<1>7. Aligned(free_start_offset)
  BY DEF GeometryInv
<1> HIDE DEF S
<1> QED BY <1>1, <1>2, <1>3, <1>5, <1>6, <1>7 DEF WholePages

(* Every buffer is whole pages of the data section whatever the host does, *)
(* and wherever it dies.                                                   *)
LEMMA GeometryStep ==
  ASSUME ControlInv, ControlInv', GeometryInv, [ControlNext]_control_vars
  PROVE  GeometryInv'
<1>0. /\ channels \in [Slots -> Channel]
      /\ num_active_channels \in Nat
      /\ num_active_channels <= IVSHMEM_MAX_CHANNELS
      /\ Active \subseteq Slots
  BY Sizes DEF ControlInv, ControlTypeOK, Active, Slots
<1>1. CASE UNCHANGED table
  BY <1>1 DEF table, GeometryInv, Active
<1>2. CASE TrustedStart
  <2>1. /\ free_start_offset' = 0 /\ num_active_channels' = 0
        /\ \A i \in Slots : channels'[i] = NoChannel
    BY <1>2 DEF TrustedStart
  <2>2. WholePages(NoChannel)
    BY DEF WholePages, NoChannel
  <2>3. \A i \in Slots : WholePages(channels'[i])
    BY <2>1, <2>2
  <2>4. Active' = {}
    BY <2>1 DEF Active
  <2> QED BY <2>1, <2>3, <2>4, AlignedZero DEF GeometryInv, WholePages, Aligned
<1>3. CASE RebalanceCopy
  <2>1. /\ free_start_offset' = 0
        /\ UNCHANGED <<num_active_channels, channels>>
    BY <1>3 DEF RebalanceCopy
  <2> QED BY <2>1, AlignedZero DEF GeometryInv, Active, Aligned
<1>4. CASE RebalanceMove
  <2> DEFINE n == num_active_channels
  <2>1. /\ t_pc = "rb_move" /\ cnt < n
        /\ channels' = [channels EXCEPT ![cnt] = MoveChannel(cnt)]
        /\ free_start_offset' = free_start_offset + AllocatedBufferSize(n)
        /\ UNCHANGED num_active_channels
    BY <1>4 DEF RebalanceMove
  <2>2. /\ cnt \in Slots
        /\ WholePages(MoveChannel(cnt))
        /\ MoveChannel(cnt).num_page >= 2
        /\ NumPage(n) \in Nat
    BY <2>1, MovedWholePages
  <2>3. \A i \in Slots : channels'[i] = IF i = cnt THEN MoveChannel(cnt)
                                                     ELSE channels[i]
    BY <1>0, <2>1, <2>2
  <2>4. \A i \in Slots : WholePages(channels'[i])
    BY <2>2, <2>3 DEF GeometryInv
  <2>5. \A i \in Active : channels'[i].num_page >= 2
    BY <1>0, <2>2, <2>3 DEF GeometryInv
  <2>6. Aligned(free_start_offset')
    BY <2>1, <2>2, AlignedAdd DEF GeometryInv, AllocatedBufferSize
  <2>7. Active' = Active
    BY <2>1 DEF Active
  <2> QED BY <2>4, <2>5, <2>6, <2>7 DEF GeometryInv, WholePages, Aligned
<1>5. CASE RebalanceUnlock
  <2>1. /\ cnt = num_active_channels
        /\ \A i \in Slots : channels'[i] = IF i < cnt THEN channels[i]
                                                       ELSE NoChannel
        /\ UNCHANGED <<num_active_channels, free_start_offset>>
    BY <1>5 DEF RebalanceUnlock
  <2>2. WholePages(NoChannel)
    BY DEF WholePages, NoChannel
  <2>3. \A i \in Slots : WholePages(channels'[i])
    BY <2>1, <2>2 DEF GeometryInv
  <2>4. \A i \in Active : channels'[i].num_page >= 2
    BY <1>0, <2>1 DEF GeometryInv, Active
  <2>5. Active' = Active
    BY <2>1 DEF Active
  <2> QED BY <2>1, <2>3, <2>4, <2>5 DEF GeometryInv, WholePages, Aligned
<1>6. CASE ControlCreate /\ ~UNCHANGED table
  <2> DEFINE n == num_active_channels
             new == ivshmem_init_channel(last_channel_id, free_start_offset,
                                         CandidateRead)
  <2>1. /\ HasRoom(free_start_offset, n)
        /\ channels' = [channels EXCEPT ![n] = new]
        /\ free_start_offset' = free_start_offset + IVSHMEM_CHANNEL_INIT_SIZE
        /\ n' = n + 1
    BY <1>6 DEF ControlCreate
  <2>2. n \in Slots /\ free_start_offset \in Nat
    BY <1>0, <2>1, Sizes DEF HasRoom, Slots, ControlInv, ControlTypeOK
  <2>3. /\ new.buf_offset = free_start_offset
        /\ new.buf_size = IVSHMEM_CHANNEL_INIT_SIZE
        /\ new.num_page = IVSHMEM_CHANNEL_INIT_SIZE \div IVSHMEM_PAGE_SIZE
    BY DEF ivshmem_init_channel
  <2>4. WholePages(new) /\ new.num_page >= 2
    BY <2>1, <2>3, FirstBuffer DEF WholePages, HasRoom, GeometryInv
  <2> HIDE DEF new
  <2>5. \A i \in Slots : channels'[i] = IF i = n THEN new ELSE channels[i]
    BY <1>0, <2>1, <2>2
  <2>6. \A i \in Slots : WholePages(channels'[i])
    BY <2>4, <2>5 DEF GeometryInv
  <2>7. Active' = Active \cup {n}
    BY <1>0, <2>1 DEF Active
  <2>8. \A i \in Active' : channels'[i].num_page >= 2
    BY <1>0, <2>2, <2>4, <2>5, <2>7 DEF GeometryInv
  <2>9. Aligned(free_start_offset')
    BY <2>1, AlignedAdd, FirstBuffer DEF GeometryInv
  <2> QED BY <2>6, <2>8, <2>9 DEF GeometryInv, WholePages, Aligned
<1> QED
  BY <1>1, <1>2, <1>3, <1>4, <1>5, <1>6
  DEF ControlNext, Host, HostWork, control_vars, TrustedCrash, RebalanceLock,
      RebalanceSkip, RebalanceNoMemory, ControlLock, ControlReadKey,
      ControlClear, ControlUnlock, RequestChannel, WriterWork, RaiseFlag,
      WriteSender, WriteReceiver, PollDone, FindForReceive, Return

-----------------------------------------------------------------------------
(* The whole system does to the control section what the control plane     *)
(* does.                                                                   *)

LEMMA ControlSimulated == [Next]_vars => [ControlNext]_control_vars
<1>1. HostData => [ControlNext]_control_vars
  BY DEF HostData, StartData, CrashData, CopyData, MoveData, UnlockData,
         CreateData, ControlNext, Host, HostWork
<1>2. ClientData => [ControlNext]_control_vars
  <2>1. ASSUME NEW c \in Clients, Loop(c)
        PROVE  [ControlNext]_control_vars
    BY <2>1 DEF Loop, PassMutex, LeaveLoop, StartOver, StartCopy, Fault,
                ControlNext
  <2>2. ASSUME NEW w \in Writers, SendCopy(w) \/ SendHead(w)
        PROVE  [ControlNext]_control_vars
    BY <2>2 DEF SendCopy, SendHead
  <2>3. ASSUME NEW r \in Readers, RecvCopy(r) \/ RecvTail(r)
        PROVE  [ControlNext]_control_vars
    BY <2>3 DEF RecvCopy, RecvTail
  <2> QED BY <2>1, <2>2, <2>3 DEF ClientData, ControlNext
<1>3. UNCHANGED vars => UNCHANGED control_vars
  BY DEF vars
<1> QED BY <1>1, <1>2, <1>3 DEF Next

(* Rings and loops change nothing about the control plane: what is proved  *)
(* of it holds of the whole system.                                        *)
THEOREM SecureImplementsControl == Spec => ControlSpec
<1>1. Init => ControlInit
  BY DEF Init
<1> QED BY <1>1, ControlSimulated, PTL DEF Spec, ControlSpec

-----------------------------------------------------------------------------
(* The invariant of the data section.                                      *)

LEMMA ModNat ==
  ASSUME NEW a \in Nat, NEW b \in Nat \ {0}
  PROVE  a % b \in Nat /\ a % b < b
BY SMT

(* A page at an index of a channel is a page of the data section; an index *)
(* 0 in a cleared slot is the first one.                                   *)
LEMMA PageAddress ==
  ASSUME SectionInv, NEW i \in Slots, NEW x \in Nat, IndexOf(i, x)
  PROVE  First(i) + x \in Addresses
<1> DEFINE P == IVSHMEM_PAGE_SIZE
           D == DATA_SECTION_SIZE
           ch == channels[i]
<1>1. P \in Nat \ {0} /\ D \in Nat
  BY Sizes
<1>2. WholePages(ch) /\ ch \in Channel
  BY DEF SectionInv, GeometryInv, ControlInv, ControlTypeOK
<1>3. CASE ch.num_page = 0 /\ ch.buf_offset = 0
  <2>1. P * 1 <= D
    <3>1. IVSHMEM_MAX_CHANNELS * (2 * P) \in Nat /\ 2 * P \in Nat
      BY SizesAssumption
    <3>2. D >= IVSHMEM_CHANNEL_INIT_SIZE + 1
      BY <3>1, SizesAssumption
    <3> QED BY <3>1, <3>2, SizesAssumption
  <2>2. D \div P >= 1 /\ D \div P \in Nat
    BY <1>1, <2>1, DivAtLeast, DivNat
  <2>3. First(i) = 0
    BY <1>1, <1>3 DEF First
  <2>4. x = 0
    BY <1>3 DEF IndexOf
  <2> QED BY <2>2, <2>3, <2>4 DEF Addresses
<1>4. CASE /\ ch.num_page >= 2
           /\ Aligned(ch.buf_offset)
           /\ ch.buf_size = ch.num_page * P
           /\ ch.buf_offset + ch.buf_size <= D
  <2>1. First(i) \in Nat /\ First(i) * P = ch.buf_offset
    BY <1>4, AlignedDiv DEF First
  <2>2. ch.num_page \in Nat /\ x + 1 <= ch.num_page
    BY <1>2, <1>4 DEF IndexOf, Channel
  <2>3. P * (First(i) + x + 1) <= P * (First(i) + ch.num_page)
    <3>1. First(i) + x + 1 \in Nat /\ First(i) + ch.num_page \in Nat
      BY <2>1, <2>2
    <3>2. First(i) + x + 1 <= First(i) + ch.num_page
      BY <2>1, <2>2
    <3> QED BY <1>1, <3>1, <3>2, MulMono
  <2>4. P * (First(i) + ch.num_page) = ch.buf_offset + ch.buf_size
    BY <1>1, <1>4, <2>1, <2>2
  <2>5. P * (First(i) + x + 1) <= D
    <3>1. P * (First(i) + x + 1) \in Nat /\ P * (First(i) + ch.num_page) \in Nat
      BY <1>1, <2>1, <2>2
    <3> QED BY <1>1, <1>4, <2>3, <2>4, <3>1
  <2>6. D \div P >= First(i) + x + 1 /\ D \div P \in Nat
    <3>1. First(i) + x + 1 \in Nat
      BY <2>1
    <3> QED BY <1>1, <2>5, <3>1, DivAtLeast, DivNat
  <2> QED BY <2>1, <2>6 DEF Addresses
<1> QED BY <1>2, <1>3, <1>4 DEF WholePages

LEMMA SectionInit == Init => SectionInv
<1> SUFFICES ASSUME Init PROVE SectionInv
  OBVIOUS
<1>1. ControlInv
  BY ControlInvInit DEF Init
<1>2. GeometryInv
  <2>1. WholePages(NoChannel)
    BY DEF WholePages, NoChannel
  <2>2. \A i \in Slots : channels[i] = NoChannel
    BY DEF Init, ControlInit
  <2>3. \A i \in Slots : WholePages(channels[i])
    BY <2>1, <2>2
  <2>4. free_start_offset = 0 /\ Active = {}
    BY DEF Init, ControlInit, Active
  <2> QED BY <2>3, <2>4, AlignedZero DEF GeometryInv
<1>3. TypeOK
  <2>1. NoPage \in [slot : Slots \cup {NULL}, seq : 0 .. MaxSeq - 1]
    BY MessagesAssumption DEF NoPage
  <2>2. NoRing \in [head : Nat, tail : Nat]
    BY DEF NoRing
  <2>3. disturbed \in [Slots -> BOOLEAN]
    BY Zenon DEF Init
  <2>4. 0 \in Addresses
    <3>1. First(0) = 0 /\ 0 \in Slots
      BY Sizes DEF Init, ControlInit, First, NoChannel, Slots
    <3> QED BY Sizes, <3>1, FirstBuffer, SizesAssumption, DivAtLeast DEF Addresses
  <2>5. put \in [Slots -> 0 .. MaxSeq - 1] /\ taken \in [Slots -> 0 .. MaxSeq - 1]
    BY MessagesAssumption DEF Init
  <2>6. /\ d_pc \in [Clients -> {"out", "loop", "test", "copy", "index", "fault"}]
        /\ d_done \in [Clients -> Nat]
        /\ d_addr \in [Clients -> Addresses]
    BY <2>4 DEF Init
  <2> QED BY <1>1, <2>1, <2>2, <2>3, <2>5, <2>6 DEF TypeOK, Init, ControlInv
<1>4. IndicesInv
  BY DEF IndicesInv, IndexOf, Init, NoRing
<1>5. LoopsInv
  BY DEF LoopsInv, Init, ControlInit
<1> QED BY <1>1, <1>2, <1>3, <1>4, <1>5 DEF SectionInv

-----------------------------------------------------------------------------
(* Whoever is in a loop holds a slot of the table.                         *)
LEMMA HoldsSlot ==
  ASSUME SectionInv, NEW c \in Clients, d_pc[c] # "out"
  PROVE  /\ c_chan[c] \in Slots
         /\ chan(c) = channels[c_chan[c]]
         /\ chan(c).num_page \in Nat
         /\ ring[c_chan[c]].head \in Nat
         /\ ring[c_chan[c]].tail \in Nat
<1>1. c_chan[c] \in Slots
  BY DEF SectionInv, LoopsInv, ControlInv, ControlTypeOK
<1>2. channels[c_chan[c]] \in Channel
  BY <1>1 DEF SectionInv, ControlInv, ControlTypeOK
<1> QED BY <1>1, <1>2 DEF chan, Channel, SectionInv, TypeOK

(* What the two steps that move an index do to the rings.                  *)
LEMMA SendHeadMoves ==
  ASSUME SectionInv, NEW w \in Writers, SendHead(w)
  PROVE  LET i == c_chan[w]
             n == channels[i].num_page
         IN  /\ i \in Slots /\ n \in Nat \ {0}
             /\ ring' \in [Slots -> [head : Nat, tail : Nat]]
             /\ ring'[i].head = Advance(ring[i].head, n)
             /\ ring'[i].head < n
             /\ ring'[i].tail = ring[i].tail
             /\ \A j \in Slots : j # i => ring'[j] = ring[j]
<1> DEFINE i == c_chan[w]
           n == channels[i].num_page
           v == Advance(ring[i].head, n)
<1>1. w \in Clients /\ d_pc[w] # "out" /\ chan(w).num_page # 0
  BY DEF Clients, SendHead, Divides
<1>2. i \in Slots /\ n \in Nat \ {0} /\ ring[i].head \in Nat /\ chan(w) = channels[i]
  BY <1>1, HoldsSlot
<1>3. v \in Nat /\ v < n
  <2>1. ring[i].head + 1 \in Nat
    BY <1>2
  <2> QED BY <1>2, <2>1, ModNat DEF Advance
<1>4. ring' = [ring EXCEPT ![i].head = v]
  BY <1>2, Zenon DEF SendHead
<1>5. ring \in [Slots -> [head : Nat, tail : Nat]]
  BY DEF SectionInv, TypeOK
<1> HIDE DEF v
<1>6. /\ ring' \in [Slots -> [head : Nat, tail : Nat]]
      /\ ring'[i].head = v /\ ring'[i].tail = ring[i].tail
      /\ \A j \in Slots : j # i => ring'[j] = ring[j]
  <2>1. ring[i] \in [head : Nat, tail : Nat]
    BY <1>2, <1>5
  <2>2. [ring[i] EXCEPT !.head = v] = [head |-> v, tail |-> ring[i].tail]
    BY <2>1
  <2>3. ring' = [ring EXCEPT ![i] = [head |-> v, tail |-> ring[i].tail]]
    BY <1>4, <2>2, Zenon
  <2> QED BY <1>2, <1>3, <1>5, <2>1, <2>3
<1> QED BY <1>2, <1>3, <1>6 DEF v

LEMMA RecvTailMoves ==
  ASSUME SectionInv, NEW r \in Readers, RecvTail(r)
  PROVE  LET i == c_chan[r]
             n == channels[i].num_page
         IN  /\ i \in Slots /\ n \in Nat \ {0}
             /\ ring' \in [Slots -> [head : Nat, tail : Nat]]
             /\ ring'[i].tail = Advance(ring[i].tail, n)
             /\ ring'[i].tail < n
             /\ ring'[i].head = ring[i].head
             /\ \A j \in Slots : j # i => ring'[j] = ring[j]
<1> DEFINE i == c_chan[r]
           n == channels[i].num_page
           v == Advance(ring[i].tail, n)
<1>1. r \in Clients /\ d_pc[r] # "out" /\ chan(r).num_page # 0
  BY DEF Clients, RecvTail, Divides
<1>2. i \in Slots /\ n \in Nat \ {0} /\ ring[i].tail \in Nat /\ chan(r) = channels[i]
  BY <1>1, HoldsSlot
<1>3. v \in Nat /\ v < n
  <2>1. ring[i].tail + 1 \in Nat
    BY <1>2
  <2> QED BY <1>2, <2>1, ModNat DEF Advance
<1>4. ring' = [ring EXCEPT ![i].tail = v]
  BY <1>2, Zenon DEF RecvTail
<1>5. ring \in [Slots -> [head : Nat, tail : Nat]]
  BY DEF SectionInv, TypeOK
<1> HIDE DEF v
<1>6. /\ ring' \in [Slots -> [head : Nat, tail : Nat]]
      /\ ring'[i].tail = v /\ ring'[i].head = ring[i].head
      /\ \A j \in Slots : j # i => ring'[j] = ring[j]
  <2>1. ring[i] \in [head : Nat, tail : Nat]
    BY <1>2, <1>5
  <2>2. [ring[i] EXCEPT !.tail = v] = [head |-> ring[i].head, tail |-> v]
    BY <2>1
  <2>3. ring' = [ring EXCEPT ![i] = [head |-> ring[i].head, tail |-> v]]
    BY <1>4, <2>2, Zenon
  <2> QED BY <1>2, <1>3, <1>5, <2>1, <2>3
<1> QED BY <1>2, <1>3, <1>6 DEF v

-----------------------------------------------------------------------------
(* The host keeps the invariant of the data section.                       *)

LEMMA HostSection ==
  ASSUME SectionInv, ControlInv', GeometryInv', HostData
  PROVE  SectionInv'
<1>0. /\ ring \in [Slots -> [head : Nat, tail : Nat]]
      /\ ring_tmp \in [Slots -> [head : Nat, tail : Nat]]
      /\ NoRing \in [head : Nat, tail : Nat]
      /\ NoPage \in [slot : Slots \cup {NULL}, seq : 0 .. MaxSeq - 1]
      /\ 0 \in 0 .. MaxSeq - 1
      /\ channels \in [Slots -> Channel]
      /\ num_active_channels \in Nat
  BY MessagesAssumption
  DEF SectionInv, TypeOK, NoRing, NoPage, ControlInv, ControlTypeOK
<1>1. UNCHANGED <<client, loops>> /\ starts <= starts'
  BY DEF HostData, StartData, CrashData, CopyData, MoveData, UnlockData,
    CreateData, TrustedStart, TrustedCrash, RebalanceCopy, RebalanceMove,
    RebalanceUnlock, ControlCreate, RebalanceLock, RebalanceSkip,
    RebalanceNoMemory, ControlLock, ControlReadKey, ControlClear,
    ControlUnlock, data_vars, SectionInv, ControlInv, ControlTypeOK
<1>2. LoopsInv'
  BY <1>1 DEF LoopsInv, SectionInv, client, loops, ControlInv, ControlTypeOK
<1>3. TypeOK' /\ IndicesInv'
  <2> USE DEF loops
  <2>1. CASE StartData
    <3>1. disturbed' \in [Slots -> BOOLEAN]
      BY <2>1, Zenon DEF StartData
    <3>2. /\ ring' \in [Slots -> [head : Nat, tail : Nat]]
          /\ mem' \in [Addresses -> [slot : Slots \cup {NULL},
                                     seq : 0 .. MaxSeq - 1]]
          /\ put' \in [Slots -> 0 .. MaxSeq - 1]
          /\ taken' \in [Slots -> 0 .. MaxSeq - 1]
      BY <1>0, <2>1 DEF StartData
    <3>3. TypeOK'
      BY <2>1, <3>1, <3>2 DEF StartData, TypeOK, SectionInv, ControlInv
    <3>4. IndicesInv'
      BY <2>1 DEF StartData, IndicesInv, IndexOf, NoRing
    <3> QED BY <3>3, <3>4
  <2>2. CASE CrashData
    <3>1. ring_tmp' \in [Slots -> [head : Nat, tail : Nat]]
      BY <1>0, <2>2 DEF CrashData
    <3>2. TypeOK'
      BY <2>2, <3>1 DEF CrashData, TypeOK, SectionInv, ControlInv, history
    <3>3. IndicesInv'
      BY <2>2 DEF CrashData, TrustedCrash, table, SectionInv, IndicesInv,
                  IndexOf
    <3> QED BY <3>2, <3>3
  <2>3. CASE CopyData
    <3>1. disturbed' \in [Slots -> BOOLEAN]
      BY <2>3, Zenon DEF CopyData
    <3>2. TypeOK'
      BY <2>3, <3>1 DEF CopyData, TypeOK, SectionInv, ControlInv
    <3>3. IndicesInv'
      BY <2>3 DEF CopyData, RebalanceCopy, SectionInv, IndicesInv, IndexOf
    <3> QED BY <3>2, <3>3
  <2>4. CASE MoveData
    <3> DEFINE n == num_active_channels
    <3>1. /\ t_pc = "rb_move" /\ cnt < n
          /\ channels' = [channels EXCEPT ![cnt] = MoveChannel(cnt)]
          /\ ring' = [ring EXCEPT ![cnt] = MoveRing(cnt)]
      BY <2>4 DEF MoveData, RebalanceMove
    <3>2. /\ cnt \in Slots /\ NumPage(n) \in Nat \ {0}
          /\ MoveChannel(cnt).num_page = NumPage(n)
      BY <3>1, MovedWholePages DEF SectionInv
    <3>3. ring_tmp[cnt].head \in Nat /\ ring_tmp[cnt].tail \in Nat
      BY <1>0, <3>2
    <3>4. /\ MoveRing(cnt) \in [head : Nat, tail : Nat]
          /\ MoveRing(cnt).head < NumPage(n)
          /\ MoveRing(cnt).tail < NumPage(n)
      BY <3>2, <3>3, ModNat DEF MoveRing
    <3>5. ring' \in [Slots -> [head : Nat, tail : Nat]]
      BY <1>0, <3>1, <3>4
    <3>6. TypeOK'
      BY <2>4, <3>5 DEF MoveData, TypeOK, SectionInv, ControlInv, history
    <3>7. \A i \in Slots :
            /\ channels'[i] = IF i = cnt THEN MoveChannel(cnt) ELSE channels[i]
            /\ ring'[i] = IF i = cnt THEN MoveRing(cnt) ELSE ring[i]
      BY <1>0, <3>1, <3>2
    <3>8. IndicesInv'
      BY <3>2, <3>4, <3>7 DEF SectionInv, IndicesInv, IndexOf
    <3> QED BY <3>6, <3>8
  <2>5. CASE UnlockData
    <3>1. /\ ring' \in [Slots -> [head : Nat, tail : Nat]]
          /\ ring_tmp' \in [Slots -> [head : Nat, tail : Nat]]
      BY <1>0, <2>5 DEF UnlockData
    <3>2. TypeOK'
      BY <2>5, <3>1 DEF UnlockData, TypeOK, SectionInv, ControlInv, history
    <3>3. IndicesInv'
      BY <2>5 DEF UnlockData, RebalanceUnlock, SectionInv, IndicesInv, IndexOf,
                  NoRing
    <3> QED BY <3>2, <3>3
  <2>6. CASE CreateData
    <3> DEFINE n == num_active_channels
    <3>1. CASE UNCHANGED table
      <4>1. ring' = ring /\ channels' = channels
        BY <1>0, <2>6, <3>1 DEF CreateData, table
      <4> QED BY <2>6, <4>1 DEF CreateData, TypeOK, SectionInv, ControlInv,
                                history, IndicesInv, IndexOf
    <3>2. CASE ~UNCHANGED table
      <4>1. /\ n' = n + 1 /\ n < IVSHMEM_MAX_CHANNELS
            /\ \A i \in Slots : i # n => channels'[i] = channels[i]
        BY <1>0, <2>6, <3>2 DEF CreateData, ControlCreate, HasRoom
      <4>2. n \in Slots
        BY <1>0, <4>1, Sizes DEF Slots
      <4>3. ring' = [ring EXCEPT ![n] = NoRing]
        BY <1>0, <2>6, <4>1 DEF CreateData
      <4>4. ring' \in [Slots -> [head : Nat, tail : Nat]]
        BY <1>0, <4>3
      <4>5. TypeOK'
        BY <2>6, <4>4 DEF CreateData, TypeOK, SectionInv, ControlInv, history
      <4>6. \A i \in Slots : ring'[i] = IF i = n THEN NoRing ELSE ring[i]
        BY <1>0, <4>2, <4>3
      <4>7. IndicesInv'
        BY <4>1, <4>6 DEF SectionInv, IndicesInv, IndexOf, NoRing
      <4> QED BY <4>5, <4>7
    <3> QED BY <3>1, <3>2
  <2>7. CASE /\ \/ RebalanceLock \/ RebalanceSkip \/ RebalanceNoMemory
                \/ ControlLock \/ ControlReadKey \/ ControlClear
                \/ ControlUnlock
             /\ UNCHANGED data_vars
    <3>1. channels' = channels
      BY <2>7 DEF RebalanceLock, RebalanceSkip, RebalanceNoMemory, ControlLock,
                  ControlReadKey, ControlClear, ControlUnlock, table
    <3> QED BY <2>7, <3>1 DEF data_vars, rings, history, TypeOK, SectionInv,
                              ControlInv, IndicesInv, IndexOf
  <2> QED BY <2>1, <2>2, <2>3, <2>4, <2>5, <2>6, <2>7 DEF HostData
<1> QED BY <1>2, <1>3 DEF SectionInv

-----------------------------------------------------------------------------
(* And so do the clients.                                                  *)

LoopPC == {"loop", "test", "copy", "index", "fault"}

(* A step from one place of a loop to another.                             *)
LEMMA InLoopSection ==
  ASSUME SectionInv, NEW c \in Clients, NEW pc \in LoopPC, d_pc[c] # "out",
         UNCHANGED control_vars, SetPC(c, pc),
         pc = "fault" => c_start[c] < starts
  PROVE  /\ LoopsInv'
         /\ d_pc' \in [Clients -> {"out", "loop", "test", "copy", "index",
                                   "fault"}]
BY DEF SectionInv, TypeOK, LoopsInv, SetPC, LoopPC, control_vars, client, host

(* A client that looks a channel up enters its loop if it found one.       *)
LEMMA EnterSection ==
  ASSUME SectionInv, ControlInv', GeometryInv', NEW c \in Clients,
         RequestChannel(c) \/ PollDone(c) \/ FindForReceive(c), Enter(c)
  PROVE  SectionInv'
<1>1. /\ UNCHANGED <<table, host, rings, d_done, d_addr, d_page, history>>
      /\ c_pc[c] # "have"
      /\ c_chan' = [c_chan EXCEPT ![c] = Lookup(c)]
      /\ d_pc' = [d_pc EXCEPT ![c] = IF c_pc'[c] = "have" THEN "loop"
                                                          ELSE "out"]
  BY DEF RequestChannel, PollDone, FindForReceive, Found, Enter
<1>2. PICK x \in {"flag", "failed"} :
        /\ c_pc' = [c_pc EXCEPT ![c] = IF Lookup(c) # NULL THEN "have" ELSE x]
        /\ c_start' = [c_start EXCEPT ![c] = IF Lookup(c) # NULL THEN starts
                                                                 ELSE 0]
  BY DEF RequestChannel, PollDone, FindForReceive, Found
<1>3. LoopsInv'
  BY <1>1, <1>2 DEF SectionInv, TypeOK, LoopsInv, ControlInv, ControlTypeOK,
                    host
<1>4. TypeOK' /\ IndicesInv'
  BY <1>1 DEF SectionInv, TypeOK, IndicesInv, IndexOf, ControlInv, table,
              rings, history
<1> QED BY <1>3, <1>4 DEF SectionInv

LEMMA LoopSection ==
  ASSUME SectionInv, ControlInv', GeometryInv', NEW c \in Clients, Loop(c)
  PROVE  SectionInv'
<1>1. CASE LeaveLoop(c)
  <2>1. LoopsInv'
    BY <1>1 DEF LeaveLoop, Return, SetPC, SectionInv, TypeOK, LoopsInv,
                ControlInv, ControlTypeOK, host
  <2>2. TypeOK' /\ IndicesInv'
    BY <1>1 DEF LeaveLoop, Return, SetPC, SectionInv, TypeOK, IndicesInv,
                IndexOf, ControlInv, table, rings, history
  <2> QED BY <2>1, <2>2 DEF SectionInv
<1>2. CASE ~LeaveLoop(c)
  <2>1. /\ UNCHANGED <<control_vars, rings, d_done, d_page, history>>
        /\ d_pc[c] # "out"
    BY <1>2 DEF Loop, PassMutex, StartOver, StartCopy, Fault
  <2>2. d_addr' \in [Clients -> Addresses]
    <3>1. CASE StartCopy(c)
      <4> DEFINE i == c_chan[c]
                 x == IF c \in Writers THEN ring[i].head ELSE ring[i].tail
      <4>1. i \in Slots /\ x \in Nat /\ chan(c) = channels[i]
        BY <2>1, HoldsSlot
      <4>2. IndexOf(i, x)
        BY <4>1 DEF SectionInv, IndicesInv
      <4>3. First(i) + x \in Addresses
        BY <4>1, <4>2, PageAddress
      <4>4. d_addr' = [d_addr EXCEPT ![c] = First(i) + x]
        BY <3>1, <4>1 DEF StartCopy, First
      <4> QED BY <4>3, <4>4 DEF SectionInv, TypeOK
    <3>2. CASE ~StartCopy(c)
      BY <1>2, <3>2 DEF Loop, PassMutex, StartOver, Fault, SectionInv, TypeOK
    <3> QED BY <3>1, <3>2
  <2>3. PICK pc \in LoopPC : SetPC(c, pc) /\ (pc = "fault" => Fault(c))
    BY <1>2 DEF Loop, PassMutex, StartOver, StartCopy, Fault, LoopPC
  <2>4. Fault(c) => c_start[c] < starts
    <3> SUFFICES ASSUME Fault(c), c_start[c] >= starts
                 PROVE  FALSE
      BY DEF SectionInv, ControlInv, ControlTypeOK
    <3>1. c_start[c] = starts /\ c_pc[c] = "have"
      BY <2>1 DEF SectionInv, LoopsInv, ControlInv, ControlTypeOK
    <3>2. c_chan[c] \in Active
      BY <3>1 DEF SectionInv, ControlInv, PointersMatch
    <3>3. channels[c_chan[c]].num_page >= 2
      BY <3>2 DEF SectionInv, GeometryInv
    <3> QED BY <3>3 DEF Fault, Divides, chan
  <2>5. /\ LoopsInv'
        /\ d_pc' \in [Clients -> {"out", "loop", "test", "copy", "index",
                                  "fault"}]
    BY <2>1, <2>3, <2>4, InLoopSection
  <2>6. TypeOK' /\ IndicesInv'
    BY <2>1, <2>2, <2>5 DEF SectionInv, TypeOK, IndicesInv, IndexOf,
      ControlInv, control_vars, table, rings, history
  <2> QED BY <2>5, <2>6 DEF SectionInv
<1> QED BY <1>1, <1>2

(* A sender's copy and its head.                                           *)
LEMMA SendSection ==
  ASSUME SectionInv, ControlInv', GeometryInv', NEW w \in Writers,
         SendCopy(w) \/ SendHead(w)
  PROVE  SectionInv'
<1> DEFINE i == c_chan[w]
<1>1. /\ w \in Clients /\ d_pc[w] # "out" /\ i \in Slots
      /\ UNCHANGED control_vars
  BY HoldsSlot DEF Clients, SendCopy, SendHead
<1>2. MaxSeq \in Nat \ {0} /\ put[i] \in 0 .. MaxSeq - 1
  BY <1>1, MessagesAssumption DEF SectionInv, TypeOK
<1>3. CASE SendCopy(w)
  <2>1. SetPC(w, "index") /\ "index" \in LoopPC
    BY <1>3 DEF SendCopy, LoopPC
  <2>2. /\ LoopsInv'
        /\ d_pc' \in [Clients -> {"out", "loop", "test", "copy", "index",
                                  "fault"}]
    BY <1>1, <2>1, InLoopSection
  <2>3. mem' \in [Addresses -> [slot : Slots \cup {NULL},
                                seq : 0 .. MaxSeq - 1]]
    BY <1>1, <1>2, <1>3 DEF SendCopy, SectionInv, TypeOK
  <2>4. TypeOK' /\ IndicesInv'
    BY <1>1, <1>3, <2>2, <2>3 DEF SendCopy, SectionInv, TypeOK, IndicesInv,
      IndexOf, ControlInv, control_vars, table, history
  <2> QED BY <2>2, <2>4 DEF SectionInv
<1>4. CASE SendHead(w)
  <2>1. SetPC(w, "loop") /\ "loop" \in LoopPC
    BY <1>4 DEF SendHead, LoopPC
  <2>2. /\ LoopsInv'
        /\ d_pc' \in [Clients -> {"out", "loop", "test", "copy", "index",
                                  "fault"}]
    BY <1>1, <2>1, InLoopSection
  <2>3. /\ ring' \in [Slots -> [head : Nat, tail : Nat]]
        /\ ring'[i].head < channels[i].num_page
        /\ ring'[i].tail = ring[i].tail
        /\ \A j \in Slots : j # i => ring'[j] = ring[j]
    BY <1>4, SendHeadMoves
  <2>4. (put[i] + 1) % MaxSeq \in 0 .. MaxSeq - 1
    <3>1. put[i] + 1 \in Nat
      BY <1>2
    <3> QED BY <1>2, <3>1, ModNat
  <2>5. put' \in [Slots -> 0 .. MaxSeq - 1]
    BY <1>4, <2>4 DEF SendHead, SectionInv, TypeOK
  <2>6. d_done' \in [Clients -> Nat]
    <3>1. d_done' = [d_done EXCEPT ![w] = d_done[w] + 1]
      BY <1>4 DEF SendHead
    <3> QED BY <1>1, <3>1 DEF SectionInv, TypeOK
  <2>7. d_addr' \in [Clients -> Addresses]
    <3>1. d_addr[w] \in Addresses
      BY <1>1 DEF SectionInv, TypeOK
    <3>2. 0 \in Addresses
      BY <3>1, Sizes, DivNat DEF Addresses
    <3> QED BY <1>4, <3>2 DEF SendHead, SectionInv, TypeOK
  <2>8. /\ channels' = channels
        /\ UNCHANGED <<ring_tmp, mem, d_page, taken, disturbed>>
    BY <1>1, <1>4 DEF SendHead, control_vars, table
  <2>9. TypeOK'
    BY <2>2, <2>3, <2>5, <2>6, <2>7, <2>8 DEF SectionInv, TypeOK, ControlInv
  <2>10. IndicesInv'
    BY <1>1, <2>3, <2>8 DEF SectionInv, IndicesInv, IndexOf
  <2> QED BY <2>2, <2>9, <2>10 DEF SectionInv
<1> QED BY <1>3, <1>4

(* A receiver's copy and its tail.                                         *)
LEMMA RecvSection ==
  ASSUME SectionInv, ControlInv', GeometryInv', NEW r \in Readers,
         RecvCopy(r) \/ RecvTail(r)
  PROVE  SectionInv'
<1> DEFINE i == c_chan[r]
<1>1. /\ r \in Clients /\ d_pc[r] # "out" /\ i \in Slots
      /\ UNCHANGED control_vars
  BY HoldsSlot DEF Clients, RecvCopy, RecvTail
<1>2. /\ MaxSeq \in Nat \ {0} /\ taken[i] \in 0 .. MaxSeq - 1
      /\ NoPage \in [slot : Slots \cup {NULL}, seq : 0 .. MaxSeq - 1]
      /\ d_addr[r] \in Addresses
  BY <1>1, MessagesAssumption DEF SectionInv, TypeOK, NoPage
<1>3. CASE RecvCopy(r)
  <2>1. SetPC(r, "index") /\ "index" \in LoopPC
    BY <1>3 DEF RecvCopy, LoopPC
  <2>2. /\ LoopsInv'
        /\ d_pc' \in [Clients -> {"out", "loop", "test", "copy", "index",
                                  "fault"}]
    BY <1>1, <2>1, InLoopSection
  <2>3. d_page' \in [Clients -> [slot : Slots \cup {NULL},
                                 seq : 0 .. MaxSeq - 1]]
    BY <1>2, <1>3 DEF RecvCopy, SectionInv, TypeOK
  <2>4. TypeOK' /\ IndicesInv'
    BY <1>1, <1>3, <2>2, <2>3 DEF RecvCopy, SectionInv, TypeOK, IndicesInv,
      IndexOf, ControlInv, control_vars, table, rings, history
  <2> QED BY <2>2, <2>4 DEF SectionInv
<1>4. CASE RecvTail(r)
  <2>1. SetPC(r, "loop") /\ "loop" \in LoopPC
    BY <1>4 DEF RecvTail, LoopPC
  <2>2. /\ LoopsInv'
        /\ d_pc' \in [Clients -> {"out", "loop", "test", "copy", "index",
                                  "fault"}]
    BY <1>1, <2>1, InLoopSection
  <2>3. /\ ring' \in [Slots -> [head : Nat, tail : Nat]]
        /\ ring'[i].tail < channels[i].num_page
        /\ ring'[i].head = ring[i].head
        /\ \A j \in Slots : j # i => ring'[j] = ring[j]
    BY <1>4, RecvTailMoves
  <2>4. (taken[i] + 1) % MaxSeq \in 0 .. MaxSeq - 1
    <3>1. taken[i] + 1 \in Nat
      BY <1>2
    <3> QED BY <1>2, <3>1, ModNat
  <2>5. taken' \in [Slots -> 0 .. MaxSeq - 1]
    BY <1>4, <2>4 DEF RecvTail, SectionInv, TypeOK
  <2>6. /\ d_done' \in [Clients -> Nat]
        /\ d_page' \in [Clients -> [slot : Slots \cup {NULL},
                                    seq : 0 .. MaxSeq - 1]]
    <3>1. /\ d_done' = [d_done EXCEPT ![r] = d_done[r] + 1]
          /\ d_page' = [d_page EXCEPT ![r] = NoPage]
      BY <1>4 DEF RecvTail
    <3> QED BY <1>1, <1>2, <3>1 DEF SectionInv, TypeOK
  <2>7. d_addr' \in [Clients -> Addresses]
    <3>1. 0 \in Addresses
      BY <1>2, Sizes, DivNat DEF Addresses
    <3> QED BY <1>4, <3>1 DEF RecvTail, SectionInv, TypeOK
  <2>8. /\ channels' = channels
        /\ UNCHANGED <<ring_tmp, mem, put, disturbed>>
    BY <1>1, <1>4 DEF RecvTail, control_vars, table
  <2>9. TypeOK'
    BY <2>2, <2>3, <2>5, <2>6, <2>7, <2>8 DEF SectionInv, TypeOK, ControlInv
  <2>10. IndicesInv'
    BY <1>1, <2>3, <2>8 DEF SectionInv, IndicesInv, IndexOf
  <2> QED BY <2>2, <2>9, <2>10 DEF SectionInv
<1> QED BY <1>3, <1>4

LEMMA SectionStep == SectionInv /\ [Next]_vars => SectionInv'
<1> SUFFICES ASSUME SectionInv, [Next]_vars PROVE SectionInv'
  OBVIOUS
<1>1. ControlInv'
  BY ControlSimulated, ControlInvStep DEF SectionInv
<1>2. GeometryInv'
  BY <1>1, ControlSimulated, GeometryStep DEF SectionInv
<1>3. CASE UNCHANGED vars
  <2>1. /\ UNCHANGED <<channels, starts, c_pc, c_chan, c_start>>
        /\ UNCHANGED <<ring, ring_tmp, mem, d_pc, d_done, d_addr, d_page, put,
                       taken, disturbed>>
    BY <1>3 DEF vars, control_vars, table, client, host, data_vars, rings,
                loops, history
  <2> QED BY <1>1, <1>2, <2>1 DEF SectionInv, TypeOK, IndicesInv, IndexOf,
                                  LoopsInv, ControlInv
<1>4. CASE HostData
  BY <1>1, <1>2, <1>4, HostSection
<1>5. CASE ClientData
  <2>1. ASSUME NEW c \in Clients,
               \/ WriterWork(c) /\ UNCHANGED data_vars
               \/ c_pc[c] = "failed" /\ Return(c) /\ UNCHANGED data_vars
        PROVE  SectionInv'
    <3>1. /\ UNCHANGED <<channels, starts>>
          /\ UNCHANGED <<ring, ring_tmp, mem, d_pc, d_done, d_addr, d_page,
                         put, taken, disturbed>>
      BY <2>1 DEF WriterWork, RaiseFlag, WriteSender, WriteReceiver, Return,
                  table, host, data_vars, rings, loops, history
    <3>2. LoopsInv'
      BY <2>1, <3>1 DEF WriterWork, RaiseFlag, WriteSender, WriteReceiver,
        Return, SectionInv, LoopsInv, ControlInv, ControlTypeOK
    <3> QED BY <1>1, <1>2, <3>1, <3>2 DEF SectionInv, TypeOK, IndicesInv,
                                          IndexOf, ControlInv
  <2>2. Writers \subseteq Clients /\ Readers \subseteq Clients
    BY DEF Clients
  <2> QED BY <1>1, <1>2, <1>5, <2>1, <2>2, EnterSection, LoopSection,
             SendSection, RecvSection DEF ClientData
<1> QED BY <1>3, <1>4, <1>5 DEF Next

(* The invariant of the data section, under any number of restarts and     *)
(* whatever stale pointers the clients hold.                               *)
THEOREM SecureInvariant == Spec => []SectionInv
BY SectionInit, SectionStep, PTL DEF Spec

(* Every memcpy of every client is to or from a page of the data section,  *)
(* however stale the channel it works on.                                  *)
THEOREM SecureTypeCorrect == Spec => []TypeOK
<1>1. SectionInv => TypeOK
  BY DEF SectionInv
<1> QED BY <1>1, SecureInvariant, PTL

(* A client is killed by a division by zero only on a channel it looked up *)
(* before the host was started again.                                      *)
THEOREM SecureFaultOnlyAfterRestart == Spec => []FaultOnlyAfterRestart
<1>1. SectionInv => FaultOnlyAfterRestart
  BY DEF SectionInv, LoopsInv, FaultOnlyAfterRestart
<1> QED BY <1>1, SecureInvariant, PTL

-----------------------------------------------------------------------------
(* Channels no rebalancing met in use.                                     *)

(* No client touches the table, the host or what the host remembers.       *)
LEMMA ClientsLeaveTable ==
  ASSUME ClientData
  PROVE  UNCHANGED <<table, control_mutex, host, ring_tmp, disturbed>>
<1>1. ASSUME NEW c \in Clients, Loop(c)
      PROVE  UNCHANGED <<table, control_mutex, host, ring_tmp, disturbed>>
  BY <1>1 DEF Loop, PassMutex, LeaveLoop, StartOver, StartCopy, Fault, Return,
              control_vars, rings, history
<1>2. ASSUME NEW c \in Clients,
             SendCopy(c) \/ SendHead(c) \/ RecvCopy(c) \/ RecvTail(c)
      PROVE  UNCHANGED <<table, control_mutex, host, ring_tmp, disturbed>>
  BY <1>2 DEF SendCopy, SendHead, RecvCopy, RecvTail, control_vars, rings,
              history
<1>3. ASSUME NEW c \in Clients,
             RequestChannel(c) \/ PollDone(c) \/ FindForReceive(c), Enter(c)
      PROVE  UNCHANGED <<table, control_mutex, host, ring_tmp, disturbed>>
  BY <1>3 DEF RequestChannel, PollDone, FindForReceive, Enter, rings, history
<1>4. ASSUME NEW c \in Clients, WriterWork(c) \/ Return(c), UNCHANGED data_vars
      PROVE  UNCHANGED <<table, control_mutex, host, ring_tmp, disturbed>>
  BY <1>4 DEF WriterWork, RaiseFlag, WriteSender, WriteReceiver, Return,
              data_vars, rings, history
<1> QED BY <1>1, <1>2, <1>3, <1>4 DEF ClientData, Clients

(* What a client's step may be.                                            *)
LEMMA ClientCases ==
  ASSUME ClientData
  PROVE  \E c \in Clients :
           \/ /\ RequestChannel(c) \/ PollDone(c) \/ FindForReceive(c)
              /\ Enter(c)
           \/ /\ WriterWork(c) \/ (c_pc[c] = "failed" /\ Return(c))
              /\ UNCHANGED data_vars
           \/ PassMutex(c) \/ LeaveLoop(c) \/ StartOver(c) \/ StartCopy(c)
           \/ Fault(c)
           \/ c \in Writers /\ (SendCopy(c) \/ SendHead(c))
           \/ c \in Readers /\ (RecvCopy(c) \/ RecvTail(c))
BY DEF ClientData, Clients, Loop

(* The step of a client that is past the mutex test.                       *)
InsideStep(c) ==
  \/ StartOver(c) \/ StartCopy(c) \/ Fault(c)
  \/ c \in Writers /\ (SendCopy(c) \/ SendHead(c))
  \/ c \in Readers /\ (RecvCopy(c) \/ RecvTail(c))

(* Such a step touches the ring and the place of its own client only.      *)
LEMMA InsideStepLocal ==
  ASSUME SectionInv, NEW c \in Clients, InsideStep(c)
  PROVE  /\ Inside(c) /\ c_chan[c] \in Slots
         /\ UNCHANGED control_vars
         /\ \A d \in Clients : d # c => /\ d_pc'[d] = d_pc[d]
                                        /\ d_addr'[d] = d_addr[d]
                                        /\ d_page'[d] = d_page[d]
         /\ \A i \in Slots : i # c_chan[c] => ring'[i] = ring[i]
<1>1. d_pc[c] \in {"test", "copy", "index"} /\ UNCHANGED control_vars
  BY DEF InsideStep, StartOver, StartCopy, Fault, SendCopy, SendHead,
         RecvCopy, RecvTail
<1>2. Inside(c) /\ c_chan[c] \in Slots
  BY <1>1, HoldsSlot DEF Inside
<1>3. \A d \in Clients : d # c => /\ d_pc'[d] = d_pc[d]
                                  /\ d_addr'[d] = d_addr[d]
                                  /\ d_page'[d] = d_page[d]
  <2>1. CASE StartOver(c) \/ StartCopy(c) \/ Fault(c) \/ SendCopy(c)
               \/ RecvCopy(c)
    BY <2>1 DEF StartOver, StartCopy, Fault, SendCopy, RecvCopy, SetPC,
                SectionInv, TypeOK
  <2>2. CASE SendHead(c) \/ RecvTail(c)
    <3>1. /\ d_pc' = [d_pc EXCEPT ![c] = "loop"]
          /\ d_addr' = [d_addr EXCEPT ![c] = 0]
          /\ d_page' = d_page \/ d_page' = [d_page EXCEPT ![c] = NoPage]
      BY <2>2 DEF SendHead, RecvTail, SetPC
    <3> QED BY <3>1 DEF SectionInv, TypeOK
  <2> QED BY <2>1, <2>2 DEF InsideStep
<1>4. \A i \in Slots : i # c_chan[c] => ring'[i] = ring[i]
  <2>1. CASE StartOver(c) \/ StartCopy(c) \/ Fault(c) \/ SendCopy(c)
               \/ RecvCopy(c)
    BY <2>1 DEF StartOver, StartCopy, Fault, SendCopy, RecvCopy, rings
  <2>2. CASE c \in Writers /\ SendHead(c)
    BY <2>2, SendHeadMoves
  <2>3. CASE c \in Readers /\ RecvTail(c)
    BY <2>3, RecvTailMoves
  <2> QED BY <2>1, <2>2, <2>3 DEF InsideStep
<1> QED BY <1>1, <1>2, <1>3, <1>4

(* While everything is frozen, clients cannot wake it up.                  *)
LEMMA FrozenStays ==
  ASSUME SectionInv, Frozen, ClientData
  PROVE  Frozen'
<1>1. UNCHANGED <<control_mutex, disturbed>>
  BY ClientsLeaveTable
<1>2. PICK c \in Clients :
           \/ /\ RequestChannel(c) \/ PollDone(c) \/ FindForReceive(c)
              /\ Enter(c)
           \/ /\ WriterWork(c) \/ (c_pc[c] = "failed" /\ Return(c))
              /\ UNCHANGED data_vars
           \/ PassMutex(c) \/ LeaveLoop(c)
           \/ InsideStep(c)
  BY ClientCases DEF InsideStep
<1>3. CASE /\ RequestChannel(c) \/ PollDone(c) \/ FindForReceive(c)
           /\ Enter(c)
  <2>1. /\ ring' = ring
        /\ \A d \in Clients : d # c => /\ c_chan'[d] = c_chan[d]
                                       /\ d_pc'[d] = d_pc[d]
        /\ d_pc'[c] \in {"out", "loop"}
    BY <1>3 DEF Enter, rings, RequestChannel, PollDone, FindForReceive, Found,
      SectionInv, TypeOK, ControlInv, ControlTypeOK
  <2> QED BY <1>1, <2>1 DEF Frozen, Inside
<1>4. CASE /\ WriterWork(c) \/ (c_pc[c] = "failed" /\ Return(c))
           /\ UNCHANGED data_vars
  <2>1. /\ ring' = ring /\ d_pc' = d_pc
        /\ \A d \in Clients : c_chan'[d] = c_chan[d] \/ c_chan'[d] = NULL
    BY <1>4 DEF data_vars, rings, loops, WriterWork, RaiseFlag, WriteSender,
      WriteReceiver, Return, ControlInv, ControlTypeOK, SectionInv
  <2>2. NULL \notin Slots
    BY Sizes DEF NULL, Slots
  <2> QED BY <1>1, <2>1, <2>2 DEF Frozen, Inside
<1>5. ~PassMutex(c) /\ ~LeaveLoop(c)
  BY DEF PassMutex, LeaveLoop, Frozen
<1>6. CASE InsideStep(c)
  <2>1. /\ Inside(c) /\ c_chan[c] \in Slots
        /\ c_chan' = c_chan
        /\ \A d \in Clients : d # c => d_pc'[d] = d_pc[d]
        /\ \A i \in Slots : i # c_chan[c] => ring'[i] = ring[i]
    BY <1>6, InsideStepLocal DEF control_vars, client
  <2>2. disturbed[c_chan[c]]
    BY <2>1 DEF Frozen
  <2> QED BY <1>1, <2>1, <2>2 DEF Frozen, Inside
<1> QED BY <1>2, <1>3, <1>4, <1>5, <1>6

(* Whoever holds a channel not met in use holds an active one.             *)
LEMMA QuietHoldsActive ==
  ASSUME SectionInv, QuietInv, NEW c \in Clients, c_chan[c] # NULL,
         ~disturbed[c_chan[c]]
  PROVE  /\ c_chan[c] \in Active
         /\ Matches(channels[c_chan[c]].key, ClientKey[c])
         /\ channels[c_chan[c]].num_page >= 2
<1>1. c_pc[c] = "have" /\ c_start[c] = starts
  BY DEF SectionInv, LoopsInv, QuietInv
<1> QED BY <1>1 DEF SectionInv, ControlInv, PointersMatch, GeometryInv

(* Where the host is decides what it may do to a channel.                  *)
LEMMA FreezeHost ==
  ASSUME SectionInv, FreezeInv, HostData
  PROVE  FreezeInv'
<1>1. CASE StartData
  BY <1>1 DEF StartData, TrustedStart, FreezeInv
<1>2. CASE CrashData
  <2>1. /\ t_pc' = "down" /\ t_pc # "down"
        /\ UNCHANGED <<table, control_mutex, c_chan, ring, d_pc, disturbed>>
    BY <1>2 DEF CrashData, TrustedCrash, client, loops, history
  <2>2. LaidOut(num_active_channels)' <=> LaidOut(num_active_channels)
    BY <2>1, TableFrame
  <2>3. t_pc # "rb_move" => LaidOut(num_active_channels)
    BY <2>1 DEF SectionInv, ControlInv, Settled
  <2>4. Frozen' <=> Frozen
    BY <2>1 DEF Frozen, Inside
  <2> QED BY <2>1, <2>2, <2>3, <2>4 DEF FreezeInv
<1>3. CASE CopyData
  <2>1. /\ t_pc = "rb_size" /\ t_pc' = "rb_move" /\ control_mutex' = 1
        /\ UNCHANGED <<c_chan, ring, d_pc>>
        /\ ring_tmp' = ring
        /\ disturbed' = [i \in Slots |-> disturbed[i] \/ InUse(i)]
    BY <1>3 DEF CopyData, RebalanceCopy, client, loops, FreezeInv
  <2>2. \A i \in Slots : ~disturbed'[i] => ~InUse(i)
    BY <2>1, Zenon
  <2>3. Frozen'
    BY <2>1, <2>2 DEF Frozen, InUse, IsEmpty, Inside
  <2>4. \A i \in Slots : ~disturbed'[i] => ring_tmp'[i].head = ring_tmp'[i].tail
    BY <2>1, <2>2 DEF InUse, IsEmpty
  <2> QED BY <2>1, <2>3, <2>4 DEF FreezeInv
<1>4. CASE MoveData
  <2>1. /\ t_pc = "rb_move" /\ t_pc' = "rb_move"
        /\ cnt < num_active_channels
        /\ UNCHANGED <<control_mutex, c_chan, ring_tmp, d_pc, disturbed>>
        /\ ring' = [ring EXCEPT ![cnt] = MoveRing(cnt)]
    BY <1>4 DEF MoveData, RebalanceMove, client, loops, history
  <2>2. \A i \in Slots : ~disturbed[i] => ring'[i].head = ring'[i].tail
    BY <2>1 DEF FreezeInv, Frozen, MoveRing, SectionInv, TypeOK
  <2> QED BY <2>1, <2>2 DEF FreezeInv, Frozen, Inside
<1>5. CASE UnlockData
  BY <1>5 DEF UnlockData, RebalanceUnlock, FreezeInv
<1>6. CASE CreateData
  BY <1>6 DEF CreateData, ControlCreate, FreezeInv
<1>7. CASE \/ RebalanceLock \/ RebalanceSkip \/ RebalanceNoMemory
           \/ ControlLock \/ ControlReadKey \/ ControlClear \/ ControlUnlock
  BY <1>7 DEF RebalanceLock, RebalanceSkip, RebalanceNoMemory, ControlLock,
              ControlReadKey, ControlClear, ControlUnlock, FreezeInv
<1> QED BY <1>1, <1>2, <1>3, <1>4, <1>5, <1>6, <1>7 DEF HostData

LEMMA FreezeClients ==
  ASSUME SectionInv, FreezeInv, ClientData
  PROVE  FreezeInv'
<1>1. UNCHANGED <<table, control_mutex, host, ring_tmp, disturbed>>
  BY ClientsLeaveTable
<1>2. LaidOut(num_active_channels)' <=> LaidOut(num_active_channels)
  BY <1>1, TableFrame
<1> QED BY <1>1, <1>2, FrozenStays DEF FreezeInv, host

(* The host keeps a pointer to a channel it did not meet in use good.      *)
LEMMA QuietHost ==
  ASSUME SectionInv, FreezeInv, QuietInv, HostData
  PROVE  QuietInv'
<1>0. UNCHANGED <<client, loops>>
  BY DEF HostData, StartData, CrashData, CopyData, MoveData, UnlockData,
    CreateData, TrustedStart, TrustedCrash, RebalanceCopy, RebalanceMove,
    RebalanceUnlock, ControlCreate, RebalanceLock, RebalanceSkip,
    RebalanceNoMemory, ControlLock, ControlReadKey, ControlClear,
    ControlUnlock, data_vars
<1>1. CASE StartData
  <2>1. disturbed' = [i \in Slots |-> \E c \in Clients : c_chan[c] = i]
    BY <1>1 DEF StartData
  <2>2. \A c \in Clients : c_chan[c] # NULL => c_chan[c] \in Slots
    BY DEF SectionInv, ControlInv, ControlTypeOK
  <2>3. \A c \in Clients : c_chan[c] # NULL => disturbed'[c_chan[c]]
    BY <2>1, <2>2, Zenon
  <2> QED BY <1>0, <2>3 DEF QuietInv, client
<1>2. CASE CopyData
  <2>1. /\ UNCHANGED <<channels, starts>>
        /\ disturbed' = [i \in Slots |-> disturbed[i] \/ InUse(i)]
    BY <1>2 DEF CopyData, RebalanceCopy
  <2>2. \A c \in Clients : c_chan[c] # NULL /\ ~disturbed'[c_chan[c]]
                             => ~disturbed[c_chan[c]]
    <3>1. \A c \in Clients : c_chan[c] # NULL => c_chan[c] \in Slots
      BY DEF SectionInv, ControlInv, ControlTypeOK
    <3> QED BY <2>1, <3>1, Zenon
  <2> QED BY <1>0, <2>1, <2>2 DEF QuietInv, client, loops, chan, First
<1>3. CASE MoveData \/ UnlockData
  <2>1. /\ t_pc = "rb_move" /\ UNCHANGED <<starts, disturbed>>
    BY <1>3 DEF MoveData, UnlockData, RebalanceMove, RebalanceUnlock, history
  <2>2. \A c \in Clients : c_chan[c] # NULL /\ ~disturbed[c_chan[c]]
                             => d_pc[c] \notin {"copy", "index"}
    BY <2>1 DEF FreezeInv, Frozen, Inside, SectionInv, ControlInv,
                ControlTypeOK
  <2> QED BY <1>0, <2>1, <2>2 DEF QuietInv, client, loops
<1>4. CASE CreateData
  <2>1. UNCHANGED <<starts, disturbed>>
    BY <1>4 DEF CreateData, ControlCreate, history
  <2>2. \A i \in Active : channels'[i] = channels[i]
    <3>1. /\ channels \in [Slots -> Channel]
          /\ Active \subseteq Slots /\ num_active_channels \notin Active
      BY Sizes DEF SectionInv, ControlInv, ControlTypeOK, Active, Slots
    <3>2. \/ channels' = channels
          \/ \E ch : channels' = [channels EXCEPT ![num_active_channels] = ch]
      BY <1>4 DEF CreateData, ControlCreate, table
    <3> QED BY <3>1, <3>2
  <2>3. \A c \in Clients : c_chan[c] # NULL /\ ~disturbed[c_chan[c]]
                             => channels'[c_chan[c]] = channels[c_chan[c]]
    BY <2>2, QuietHoldsActive
  <2> QED BY <1>0, <2>1, <2>3 DEF QuietInv, client, loops, chan, First
<1>5. CASE ~(StartData \/ CopyData \/ MoveData \/ UnlockData \/ CreateData)
  <2>1. UNCHANGED <<channels, starts, disturbed>>
    BY <1>5 DEF HostData, CrashData, TrustedCrash, RebalanceLock,
      RebalanceSkip, RebalanceNoMemory, ControlLock, ControlReadKey,
      ControlClear, ControlUnlock, data_vars, history, table
  <2> QED BY <1>0, <2>1 DEF QuietInv, client, loops, chan, First
<1> QED BY <1>1, <1>2, <1>3, <1>4, <1>5

(* And the clients compute their addresses from the buffer there is.       *)
LEMMA QuietClients ==
  ASSUME SectionInv, QuietInv, ClientData
  PROVE  QuietInv'
<1>1. UNCHANGED <<channels, starts, disturbed>>
  BY ClientsLeaveTable DEF table, host
<1>2. PICK c \in Clients :
           \/ /\ RequestChannel(c) \/ PollDone(c) \/ FindForReceive(c)
              /\ Enter(c)
           \/ /\ WriterWork(c) \/ (c_pc[c] = "failed" /\ Return(c))
              /\ UNCHANGED data_vars
           \/ PassMutex(c) \/ LeaveLoop(c)
           \/ InsideStep(c)
  BY ClientCases DEF InsideStep
<1>3. CASE /\ RequestChannel(c) \/ PollDone(c) \/ FindForReceive(c)
           /\ Enter(c)
  <2>1. /\ \A d \in Clients : d # c => /\ c_chan'[d] = c_chan[d]
                                       /\ c_start'[d] = c_start[d]
                                       /\ d_pc'[d] = d_pc[d]
                                       /\ d_addr'[d] = d_addr[d]
        /\ d_pc'[c] \in {"out", "loop"}
        /\ c_chan'[c] # NULL => c_start'[c] = starts
    BY <1>3 DEF Enter, RequestChannel, PollDone, FindForReceive, Found,
      SectionInv, TypeOK, ControlInv, ControlTypeOK
  <2> QED BY <1>1, <2>1 DEF QuietInv, chan, First
<1>4. CASE \/ /\ WriterWork(c) \/ (c_pc[c] = "failed" /\ Return(c))
              /\ UNCHANGED data_vars
           \/ LeaveLoop(c)
  <2>1. \A d \in Clients : c_chan'[d] # NULL => /\ c_chan'[d] = c_chan[d]
                                                /\ c_start'[d] = c_start[d]
                                                /\ d_pc'[d] = d_pc[d]
                                                /\ d_addr'[d] = d_addr[d]
    BY <1>4 DEF data_vars, loops, WriterWork, RaiseFlag, WriteSender,
      WriteReceiver, LeaveLoop, Return, SetPC, ControlInv, ControlTypeOK,
      SectionInv, TypeOK
  <2> QED BY <1>1, <2>1 DEF QuietInv, chan, First
<1>5. CASE PassMutex(c)
  <2>1. /\ UNCHANGED <<c_chan, c_start, d_addr>>
        /\ d_pc' = [d_pc EXCEPT ![c] = "test"]
    BY <1>5 DEF PassMutex, SetPC, control_vars, client
  <2> QED BY <1>1, <2>1 DEF QuietInv, chan, First, SectionInv, TypeOK
<1>6. CASE InsideStep(c)
  <2>1. /\ UNCHANGED <<c_chan, c_start>> /\ c_chan[c] \in Slots
        /\ \A d \in Clients : d # c => /\ d_pc'[d] = d_pc[d]
                                       /\ d_addr'[d] = d_addr[d]
    BY <1>6, InsideStepLocal DEF control_vars, client
  <2>2. ASSUME ~disturbed[c_chan[c]], d_pc'[c] \in {"copy", "index"}
        PROVE  d_addr'[c] \in First(c_chan[c]) ..
                                First(c_chan[c]) + chan(c).num_page - 1
    <3> DEFINE i == c_chan[c]
               x == IF c \in Writers THEN ring[i].head ELSE ring[i].tail
    <3>1. /\ i \in Slots /\ x \in Nat /\ chan(c) = channels[i]
          /\ chan(c).num_page \in Nat /\ i # NULL
      <4>1. d_pc[c] # "out"
        BY <1>6, InsideStepLocal DEF Inside
      <4> QED BY <4>1, HoldsSlot, Sizes DEF Slots, NULL
    <3>2. CASE StartCopy(c)
      <4>1. d_addr'[c] = First(i) + x
        BY <3>1, <3>2 DEF StartCopy, First, SectionInv, TypeOK
      <4>2. channels[i].num_page >= 2
        BY <2>2, <3>1, QuietHoldsActive
      <4>3. x < channels[i].num_page
        BY <3>1, <4>2 DEF SectionInv, IndicesInv, IndexOf
      <4>4. First(i) \in Nat
        <5>1. channels[i] \in Channel
          BY <3>1 DEF SectionInv, ControlInv, ControlTypeOK
        <5> QED BY <5>1, Sizes, DivNat DEF First, Channel
      <4> QED BY <3>1, <4>1, <4>3, <4>4
    <3>3. CASE ~StartCopy(c)
      <4>1. d_pc[c] = "copy" /\ d_addr' = d_addr
        <5>1. SendCopy(c) \/ RecvCopy(c)
          <6>1. ~StartOver(c) /\ ~Fault(c)
            BY <2>2 DEF StartOver, Fault, SetPC, SectionInv, TypeOK
          <6>2. ~SendHead(c) /\ ~RecvTail(c)
            <7>1. d_pc \in [Clients -> {"out", "loop", "test", "copy",
                                        "index", "fault"}]
              BY DEF SectionInv, TypeOK
            <7>2. SendHead(c) \/ RecvTail(c) => d_pc' = [d_pc EXCEPT ![c] = "loop"]
              BY DEF SendHead, RecvTail, SetPC
            <7> QED BY <2>2, <7>1, <7>2
          <6> QED BY <1>6, <3>3, <6>1, <6>2 DEF InsideStep
        <5> QED BY <5>1 DEF SendCopy, RecvCopy
      <4> QED BY <2>2, <3>1, <4>1 DEF QuietInv
    <3> QED BY <3>2, <3>3
  <2> QED BY <1>1, <2>1, <2>2 DEF QuietInv, chan, First
<1> QED BY <1>2, <1>3, <1>4, <1>5, <1>6

LEMMA QuietStep ==
  SectionInv /\ FreezeInv /\ QuietInv /\ [Next]_vars => FreezeInv' /\ QuietInv'
<1> SUFFICES ASSUME SectionInv, FreezeInv, QuietInv, [Next]_vars
             PROVE  FreezeInv' /\ QuietInv'
  OBVIOUS
<1>1. CASE UNCHANGED vars
  <2>1. /\ UNCHANGED table
        /\ UNCHANGED <<channels, control_mutex, t_pc, starts, c_chan, c_start>>
        /\ UNCHANGED <<ring, ring_tmp, d_pc, d_addr, disturbed>>
    BY <1>1 DEF vars, control_vars, host, client, table, data_vars, rings,
                loops, history
  <2>2. LaidOut(num_active_channels)' <=> LaidOut(num_active_channels)
    BY <2>1, TableFrame
  <2> QED BY <2>1, <2>2 DEF FreezeInv, Frozen, Inside, QuietInv, chan, First
<1>2. CASE HostData
  BY <1>2, FreezeHost, QuietHost
<1>3. CASE ClientData
  BY <1>3, FreezeClients, QuietClients
<1> QED BY <1>1, <1>2, <1>3 DEF Next

LEMMA QuietInit == Init => FreezeInv /\ QuietInv
<1> SUFFICES ASSUME Init PROVE FreezeInv /\ QuietInv
  OBVIOUS
<1>1. t_pc = "down" /\ num_active_channels = 0
  BY DEF Init, ControlInit
<1>2. LaidOut(num_active_channels)
  BY <1>1 DEF LaidOut
<1>3. \A c \in Clients : c_chan[c] = NULL
  BY DEF Init, ControlInit
<1> QED BY <1>1, <1>2, <1>3 DEF FreezeInv, QuietInv

(* Pointers and addresses on channels not met in use are up to date.       *)
THEOREM SecureQuietInvariant == Spec => [](SectionInv /\ FreezeInv /\ QuietInv)
BY SectionInit, SectionStep, QuietInit, QuietStep, PTL DEF Spec

(* On a channel no rebalancing met in use every copy is inside the buffer  *)
(* the channel has at that moment, moved and resized or not.               *)
THEOREM SecureCopiesStayInside == Spec => []QuietCopiesStayInside
<1>1. SectionInv /\ QuietInv => QuietCopiesStayInside
  <2> SUFFICES ASSUME SectionInv, QuietInv, NEW c \in Clients,
                      d_pc[c] = "copy", ~disturbed[c_chan[c]]
               PROVE  /\ d_addr[c] * IVSHMEM_PAGE_SIZE >= chan(c).buf_offset
                      /\ (d_addr[c] + 1) * IVSHMEM_PAGE_SIZE
                           <= End(c_chan[c])
    BY DEF QuietCopiesStayInside
  <2> DEFINE i == c_chan[c]
             P == IVSHMEM_PAGE_SIZE
             n == channels[i].num_page
  <2>1. i \in Slots /\ i # NULL /\ chan(c) = channels[i] /\ n \in Nat
    BY HoldsSlot, Sizes DEF Slots, NULL
  <2>2. n >= 2 /\ d_addr[c] \in First(i) .. First(i) + n - 1
    BY <2>1, QuietHoldsActive DEF QuietInv
  <2>3. /\ Aligned(channels[i].buf_offset)
        /\ channels[i].buf_size = n * P
    BY <2>1, <2>2 DEF SectionInv, GeometryInv, WholePages
  <2>4. First(i) \in Nat /\ First(i) * P = channels[i].buf_offset
    BY <2>3, AlignedDiv DEF First
  <2>5. P \in Nat /\ d_addr[c] \in Nat /\ First(i) <= d_addr[c]
        /\ d_addr[c] + 1 <= First(i) + n
    BY <2>1, <2>2, <2>4, Sizes
  <2> HIDE DEF P, n
  <2>6. P * First(i) <= P * d_addr[c]
    BY <2>4, <2>5, MulMono
  <2>7. P * (d_addr[c] + 1) <= P * (First(i) + n)
    <3>1. d_addr[c] + 1 \in Nat /\ First(i) + n \in Nat
      BY <2>1, <2>4, <2>5 DEF n
    <3> QED BY <2>5, <3>1, MulMono
  <2>8. P * (First(i) + n) = First(i) * P + n * P
    BY <2>1, <2>4, <2>5 DEF n
  <2>9. P * First(i) = First(i) * P /\ P * d_addr[c] = d_addr[c] * P
        /\ P * (d_addr[c] + 1) = (d_addr[c] + 1) * P
    BY <2>4, <2>5
  <2> QED BY <2>1, <2>3, <2>4, <2>6, <2>7, <2>8, <2>9 DEF End, P
<1> QED BY <1>1, SecureQuietInvariant, PTL

-----------------------------------------------------------------------------
(* Rings: which positions hold pages, and how moving an index changes it.  *)

LEMMA AdvanceWraps ==
  ASSUME NEW n \in Nat, n >= 2, NEW p \in 0 .. n - 1
  PROVE  /\ Advance(p, n) = IF p + 1 = n THEN 0 ELSE p + 1
         /\ Advance(p, n) \in 0 .. n - 1
<1>1. CASE p + 1 = n
  BY <1>1 DEF Advance
<1>2. CASE p + 1 # n
  BY <1>2 DEF Advance
<1> QED BY <1>1, <1>2

LEMMA AdvanceInjective ==
  ASSUME NEW n \in Nat, n >= 2, NEW p \in 0 .. n - 1, NEW q \in 0 .. n - 1,
         Advance(p, n) = Advance(q, n)
  PROVE  p = q
BY AdvanceWraps

(* The page at head is not held, the one at tail is if any is.             *)
LEMMA HeldEnds ==
  ASSUME NEW n \in Nat, n >= 2, NEW h \in 0 .. n - 1, NEW t \in 0 .. n - 1
  PROVE  /\ ~(Count(h, t, n) < Count(h, t, n))
         /\ h # t => Count(t, t, n) < Count(h, t, n)
         /\ h = t => \A p \in 0 .. n - 1 : ~(Count(p, t, n) < Count(h, t, n))
BY DEF Count

(* Moving head into a free page adds that page and does not reach tail.    *)
LEMMA HeadTakesPage ==
  ASSUME NEW n \in Nat, n >= 2, NEW h \in 0 .. n - 1, NEW t \in 0 .. n - 1,
         ~IsFull(h, t, n), NEW g, g = Advance(h, n)
  PROVE  /\ g # t /\ g # h
         /\ \A p \in 0 .. n - 1 :
              Count(p, t, n) < Count(g, t, n)
                => p = h \/ Count(p, t, n) < Count(h, t, n)
<1>1. g = IF h + 1 = n THEN 0 ELSE h + 1
  BY AdvanceWraps
<1> QED BY <1>1 DEF Count, IsFull

(* Moving tail gives that page back and makes room.                        *)
LEMMA TailGivesPage ==
  ASSUME NEW n \in Nat, n >= 2, NEW h \in 0 .. n - 1, NEW t \in 0 .. n - 1,
         h # t, NEW u, u = Advance(t, n)
  PROVE  /\ ~IsFull(h, u, n)
         /\ \A p \in 0 .. n - 1 :
              Count(p, u, n) < Count(h, u, n)
                => Count(p, t, n) < Count(h, t, n) /\ p # t
<1>1. u = IF t + 1 = n THEN 0 ELSE t + 1
  BY AdvanceWraps
<1> QED BY <1>1 DEF Count, IsFull

LEMMA MulCancel ==
  ASSUME NEW a \in Nat, NEW b \in Nat, NEW c \in Nat \ {0}, a * c <= b * c
  PROVE  a <= b
<1> SUFFICES ASSUME b + 1 <= a PROVE FALSE
  OBVIOUS
<1>1. c * (b + 1) <= c * a
  <2>1. b + 1 \in Nat
    OBVIOUS
  <2> QED BY <2>1, MulMono
<1>2. c * (b + 1) = b * c + c /\ c * a = a * c
  OBVIOUS
<1> QED BY <1>1, <1>2

-----------------------------------------------------------------------------
(* What the types say about an active channel.                             *)
LEMMA ActiveRing ==
  ASSUME SectionInv, NEW i \in Active
  PROVE  LET n == channels[i].num_page
         IN  /\ i \in Slots /\ n \in Nat /\ n >= 2
             /\ ring[i].head \in 0 .. n - 1 /\ ring[i].tail \in 0 .. n - 1
             /\ First(i) \in Nat
             /\ First(i) * IVSHMEM_PAGE_SIZE = channels[i].buf_offset
             /\ channels[i].buf_size = n * IVSHMEM_PAGE_SIZE
             /\ \A p \in 0 .. n - 1 : First(i) + p \in Addresses
<1> DEFINE n == channels[i].num_page
<1>1. i \in Slots
  BY Sizes DEF SectionInv, ControlInv, ControlTypeOK, Active, Slots
<1>2. channels[i] \in Channel
  BY <1>1 DEF SectionInv, ControlInv, ControlTypeOK
<1>3. n \in Nat /\ n >= 2
  BY <1>2 DEF Channel, SectionInv, GeometryInv
<1>4. ring[i] \in [head : Nat, tail : Nat]
  BY <1>1 DEF SectionInv, TypeOK
<1>5. ring[i].head \in 0 .. n - 1 /\ ring[i].tail \in 0 .. n - 1
  BY <1>1, <1>3, <1>4 DEF SectionInv, IndicesInv, IndexOf
<1>6. Aligned(channels[i].buf_offset) /\ channels[i].buf_size = n * IVSHMEM_PAGE_SIZE
  BY <1>1, <1>3 DEF SectionInv, GeometryInv, WholePages
<1>7. First(i) \in Nat /\ First(i) * IVSHMEM_PAGE_SIZE = channels[i].buf_offset
  BY <1>6, AlignedDiv DEF First
<1>8. \A p \in 0 .. n - 1 : First(i) + p \in Addresses
  BY <1>1, <1>3, PageAddress DEF IndexOf
<1> QED BY <1>1, <1>3, <1>5, <1>6, <1>7, <1>8

(* While somebody copies, two channels have no page in common.             *)
LEMMA NoSharedPage ==
  ASSUME SectionInv, FreezeInv, Quiet, NEW c \in Clients, Inside(c),
         NEW i \in Active, NEW j \in Active, i # j,
         NEW x \in 0 .. channels[i].num_page - 1,
         NEW y \in 0 .. channels[j].num_page - 1
  PROVE  First(i) + x # First(j) + y
<1>1. ~Frozen
  <2>1. c_chan[c] \in Slots
    BY HoldsSlot DEF Inside
  <2> QED BY <2>1 DEF Frozen, Quiet
<1>2. LaidOut(num_active_channels)
  BY <1>1 DEF FreezeInv, SectionInv, ControlInv, Settled
<1>3. ASSUME NEW a \in Active, NEW b \in Active, a < b
      PROVE  First(a) + channels[a].num_page <= First(b)
  <2> DEFINE P == IVSHMEM_PAGE_SIZE
  <2>1. /\ First(a) \in Nat /\ First(a) * P = channels[a].buf_offset
        /\ channels[a].num_page \in Nat
        /\ channels[a].buf_size = channels[a].num_page * P
        /\ First(b) \in Nat /\ First(b) * P = channels[b].buf_offset
    BY ActiveRing
  <2>2. End(a) <= channels[b].buf_offset
    BY <1>2, <1>3 DEF LaidOut, Active
  <2>3. P \in Nat \ {0}
    BY Sizes
  <2>4. (First(a) + channels[a].num_page) * P = End(a)
    BY <2>1, <2>3 DEF End
  <2>5. First(a) + channels[a].num_page \in Nat
    BY <2>1
  <2> QED BY <2>1, <2>2, <2>3, <2>4, <2>5, MulCancel
<1>4. /\ First(i) \in Nat /\ First(j) \in Nat
      /\ channels[i].num_page \in Nat /\ channels[j].num_page \in Nat
  BY ActiveRing
<1>5. i < j \/ j < i
  BY DEF Active, SectionInv, ControlInv, ControlTypeOK
<1> QED BY <1>3, <1>4, <1>5

(* The pages of a ring do not change while nobody writes to its pages      *)
(* other than the one at head.                                             *)
LEMMA FlowFrame ==
  ASSUME SectionInv, NEW i \in Active, Flow(i),
         channels'[i] = channels[i], ring'[i] = ring[i],
         put'[i] = put[i], taken'[i] = taken[i],
         \A q \in 0 .. channels[i].num_page - 1 :
           q # ring[i].head => mem'[First(i) + q] = mem[First(i) + q]
  PROVE  Flow(i)'
<1> DEFINE n == channels[i].num_page
<1>1. /\ n \in Nat /\ n >= 2
      /\ ring[i].head \in 0 .. n - 1 /\ ring[i].tail \in 0 .. n - 1
  BY ActiveRing
<1>2. First(i)' = First(i) /\ Held(i)' = Held(i)
  BY DEF First, Held
<1>3. \A q \in 0 .. n - 1 : PageNo(i, q)' = PageNo(i, q)
  BY <1>2 DEF PageNo
<1>4. PageNo(i, ring[i].tail)' = taken'[i]
  BY <1>1, <1>3 DEF Flow
<1>5. ASSUME NEW p \in Held(i)
      PROVE  /\ mem'[First(i) + p] = mem[First(i) + p]
             /\ PageNo(i, Advance(p, n))' = PageNo(i, Advance(p, n))
  <2>1. p \in 0 .. n - 1 /\ p # ring[i].head
    BY <1>1, HeldEnds DEF Held
  <2>2. Advance(p, n) \in 0 .. n - 1 /\ n' = n
    BY <1>1, <2>1, AdvanceWraps
  <2> QED BY <1>3, <2>1, <2>2
<1> QED BY <1>2, <1>4, <1>5 DEF Flow

(* An empty ring has nothing to say but that all that was put was taken.   *)
LEMMA FlowOfEmpty ==
  ASSUME NEW i, channels'[i].num_page \in Nat, channels'[i].num_page >= 2,
         ring'[i].head = ring'[i].tail,
         ring'[i].tail \in 0 .. channels'[i].num_page - 1,
         put'[i] = taken'[i]
  PROVE  Flow(i)'
<1> DEFINE n == channels'[i].num_page
<1>1. Held(i)' = {}
  BY HeldEnds DEF Held
<1> QED BY <1>1 DEF Flow, PageNo

LEMMA EmptyRingTaken ==
  ASSUME NEW i, Flow(i), ring[i].head = ring[i].tail
  PROVE  put[i] = taken[i]
BY DEF Flow, PageNo

(* What a client knows does not change while its ring, its buffer and the  *)
(* page it wrote do not.                                                   *)
LEMMA SenderFrame ==
  ASSUME NEW w \in Writers, SenderFlow(w), c_chan'[w] = c_chan[w],
         d_pc'[w] = d_pc[w], d_addr'[w] = d_addr[w],
         d_pc[w] \in {"copy", "index"} =>
           LET i == c_chan[w] IN
             /\ channels'[i] = channels[i] /\ ring'[i] = ring[i]
             /\ put'[i] = put[i]
             /\ mem'[First(i) + ring[i].head] = mem[First(i) + ring[i].head]
  PROVE  SenderFlow(w)'
BY DEF SenderFlow, First

LEMMA ReceiverFrame ==
  ASSUME NEW r \in Readers, ReceiverFlow(r), c_chan'[r] = c_chan[r],
         d_pc'[r] = d_pc[r], d_addr'[r] = d_addr[r], d_page'[r] = d_page[r],
         d_pc[r] \in {"copy", "index"} =>
           LET i == c_chan[r] IN
             /\ channels'[i] = channels[i] /\ ring'[i] = ring[i]
             /\ taken'[i] = taken[i]
  PROVE  ReceiverFlow(r)'
BY DEF ReceiverFlow, First

(* Clients outside their loops know nothing.                               *)
LEMMA NobodyCopies ==
  ASSUME \A c \in Clients : d_pc'[c] \notin {"copy", "index"}
  PROVE  /\ \A w \in Writers : SenderFlow(w)'
         /\ \A r \in Readers : ReceiverFlow(r)'
BY DEF SenderFlow, ReceiverFlow, Clients

(* A rebalancing that met nobody is transparent: it moves empty rings.     *)
LEMMA FlowHost ==
  ASSUME SectionInv, SectionInv', FreezeInv, QuietInv, FlowInv, HostData
  PROVE  FlowInv'
<1> SUFFICES ASSUME Quiet'
             PROVE  /\ \A i \in Slots : IF i \in Active' THEN Flow(i)'
                                        ELSE put'[i] = taken'[i]
                    /\ \A w \in Writers : SenderFlow(w)'
                    /\ \A r \in Readers : ReceiverFlow(r)'
  BY DEF FlowInv
<1>0. UNCHANGED <<client, loops>>
  BY DEF HostData, StartData, CrashData, CopyData, MoveData, UnlockData,
    CreateData, TrustedStart, TrustedCrash, RebalanceCopy, RebalanceMove,
    RebalanceUnlock, ControlCreate, RebalanceLock, RebalanceSkip,
    RebalanceNoMemory, ControlLock, ControlReadKey, ControlClear,
    ControlUnlock, data_vars
<1>1. CASE StartData
  <2>1. /\ disturbed' = [i \in Slots |-> \E c \in Clients : c_chan[c] = i]
        /\ num_active_channels' = 0
        /\ \A i \in Slots : put'[i] = 0 /\ taken'[i] = 0
    BY <1>1 DEF StartData, TrustedStart
  <2>2. \A i \in Slots, c \in Clients : c_chan[c] # i
    BY <2>1, Zenon DEF Quiet
  <2>3. \A c \in Clients : d_pc'[c] \notin {"copy", "index"}
    BY <1>0, <2>2, HoldsSlot DEF loops
  <2>4. Active' = {}
    BY <2>1 DEF Active
  <2> QED BY <2>1, <2>3, <2>4, NobodyCopies
<1>2. CASE ~StartData
  <2>1. Quiet
    <3>1. CASE CopyData
      BY <3>1, Zenon DEF CopyData, Quiet
    <3>2. CASE ~CopyData
      <4>1. disturbed' = disturbed
        BY <1>2, <3>2 DEF HostData, CrashData, MoveData, UnlockData,
                          CreateData, data_vars, history
      <4> QED BY <4>1 DEF Quiet
    <3> QED BY <3>1, <3>2
  <2>2. /\ \A i \in Slots : IF i \in Active THEN Flow(i)
                            ELSE put[i] = taken[i]
        /\ \A w \in Writers : SenderFlow(w)
        /\ \A r \in Readers : ReceiverFlow(r)
    BY <2>1 DEF FlowInv
  <2>3. UNCHANGED <<mem, put, taken>>
    BY <1>2 DEF HostData, CrashData, CopyData, MoveData, UnlockData,
                CreateData, data_vars, rings, history
  <2>4. /\ c_chan' = c_chan /\ d_pc' = d_pc /\ d_addr' = d_addr
        /\ d_page' = d_page
    BY <1>0 DEF client, loops
  <2>5. \A c \in Clients : d_pc[c] \in {"copy", "index"} => c_chan[c] \in Active
    <3>1. \A c \in Clients : d_pc[c] \in {"copy", "index"} =>
            c_chan[c] \in Slots /\ c_chan[c] # NULL
      BY HoldsSlot, Sizes DEF Slots, NULL
    <3> QED BY <2>1, <3>1, QuietHoldsActive DEF Quiet
  <2>6. ASSUME Active \subseteq Active',
               \A i \in Active : channels'[i] = channels[i] /\ ring'[i] = ring[i]
        PROVE  /\ \A i \in Active : Flow(i)'
               /\ \A w \in Writers : SenderFlow(w)'
               /\ \A r \in Readers : ReceiverFlow(r)'
    <3>1. Active \subseteq Slots
      BY ActiveRing
    <3>2. \A i \in Active : Flow(i)'
      BY <2>2, <2>3, <2>6, <3>1, FlowFrame
    <3>3. \A w \in Writers : SenderFlow(w)'
      BY <2>2, <2>3, <2>4, <2>5, <2>6, SenderFrame DEF Clients
    <3>4. \A r \in Readers : ReceiverFlow(r)'
      BY <2>2, <2>3, <2>4, <2>5, <2>6, ReceiverFrame DEF Clients
    <3> QED BY <3>2, <3>3, <3>4
  <2>7. CASE MoveData
    <3>1. /\ t_pc = "rb_move" /\ cnt < num_active_channels
          /\ channels' = [channels EXCEPT ![cnt] = MoveChannel(cnt)]
          /\ ring' = [ring EXCEPT ![cnt] = MoveRing(cnt)]
          /\ UNCHANGED num_active_channels
      BY <2>7 DEF MoveData, RebalanceMove
    <3>2. Active' = Active /\ cnt \in Active
      BY <3>1 DEF Active, SectionInv, ControlInv, ControlTypeOK
    <3>3. /\ Frozen
          /\ \A i \in Slots : ring_tmp[i].head = ring_tmp[i].tail
      BY <2>1, <3>1 DEF FreezeInv, Quiet
    <3>4. \A c \in Clients : d_pc'[c] \notin {"copy", "index"}
      BY <2>1, <2>4, <3>3, HoldsSlot DEF Frozen, Quiet, Inside
    <3>5. /\ channels \in [Slots -> Channel]
          /\ ring \in [Slots -> [head : Nat, tail : Nat]]
          /\ cnt \in Slots
      BY <3>2, ActiveRing DEF SectionInv, TypeOK, ControlInv, ControlTypeOK
    <3>6. ASSUME NEW i \in Active PROVE Flow(i)'
      <4>1. i \in Slots /\ Flow(i)
        BY <2>2, ActiveRing
      <4>2. CASE i # cnt
        <5>1. channels'[i] = channels[i] /\ ring'[i] = ring[i]
          BY <3>1, <3>5, <4>1, <4>2
        <5> QED BY <2>3, <4>1, <5>1, FlowFrame
      <4>3. CASE i = cnt
        <5>1. ring'[i] = MoveRing(cnt) /\ channels'[i] = MoveChannel(cnt)
          BY <3>1, <3>5, <4>3
        <5>2. /\ NumPage(num_active_channels) \in Nat
              /\ NumPage(num_active_channels) >= 2
              /\ MoveChannel(cnt).num_page = NumPage(num_active_channels)
          BY <3>1, MovedWholePages DEF SectionInv
        <5>3. ring'[i].head = ring'[i].tail
          BY <3>3, <4>1, <4>3, <5>1 DEF MoveRing
        <5>4. ring'[i].tail \in 0 .. NumPage(num_active_channels) - 1
          <6>1. ring_tmp[cnt].tail \in Nat
            BY <3>5 DEF SectionInv, TypeOK
          <6> QED BY <5>1, <5>2, <6>1, ModNat DEF MoveRing
        <5>5. put[i] = taken[i]
          BY <2>1, <3>3, <4>1, EmptyRingTaken DEF Frozen, Quiet
        <5> QED BY <2>3, <5>1, <5>2, <5>3, <5>4, <5>5, FlowOfEmpty
      <4> QED BY <4>2, <4>3
    <3> QED BY <2>2, <2>3, <3>2, <3>4, <3>6, NobodyCopies
  <2>8. CASE UnlockData
    <3>1. /\ cnt = num_active_channels /\ num_active_channels' = num_active_channels
          /\ channels' = [i \in Slots |-> IF i < cnt THEN channels[i]
                                                     ELSE NoChannel]
          /\ ring' = [i \in Slots |-> IF i < cnt THEN ring[i] ELSE NoRing]
      BY <2>8 DEF UnlockData, RebalanceUnlock
    <3>2. Active' = Active
      BY <3>1 DEF Active
    <3>3. \A i \in Active : i \in Slots /\ i < cnt
      BY <3>1, ActiveRing DEF Active, SectionInv, ControlInv, ControlTypeOK
    <3>4. \A i \in Active : channels'[i] = channels[i] /\ ring'[i] = ring[i]
      BY <3>1, <3>3
    <3> QED BY <2>2, <2>3, <2>6, <3>2, <3>4
  <2>9. CASE CreateData /\ ~UNCHANGED table
    <3> DEFINE n == num_active_channels
    <3>1. /\ n' = n + 1 /\ n < IVSHMEM_MAX_CHANNELS
          /\ channels' = [channels EXCEPT ![n] =
                            ivshmem_init_channel(last_channel_id,
                                                 free_start_offset,
                                                 CandidateRead)]
      BY <2>9 DEF CreateData, ControlCreate, HasRoom
    <3>2. /\ n \in Nat /\ n \in Slots /\ Active' = Active \cup {n}
          /\ n \notin Active /\ Active \subseteq Slots
      BY <3>1, ActiveRing, Sizes
      DEF Active, SectionInv, ControlInv, ControlTypeOK, Slots
    <3>3. ring' = [ring EXCEPT ![n] = NoRing]
      BY <2>9, <3>1, <3>2 DEF CreateData
    <3>4. /\ channels \in [Slots -> Channel]
          /\ ring \in [Slots -> [head : Nat, tail : Nat]]
      BY DEF SectionInv, TypeOK, ControlInv, ControlTypeOK
    <3>5. \A i \in Active : channels'[i] = channels[i] /\ ring'[i] = ring[i]
      BY <3>1, <3>2, <3>3, <3>4
    <3>6. ASSUME NEW i, i = n PROVE Flow(i)'
      <4>1. ring'[i] = NoRing
        BY <3>2, <3>3, <3>4, <3>6
      <4>2. channels'[i].num_page =
              IVSHMEM_CHANNEL_INIT_SIZE \div IVSHMEM_PAGE_SIZE
        BY <3>1, <3>2, <3>4, <3>6 DEF ivshmem_init_channel
      <4>3. channels'[i].num_page \in Nat /\ channels'[i].num_page >= 2
        BY <4>2, FirstBuffer
      <4>4. put'[i] = taken'[i]
        BY <2>2, <2>3, <3>2, <3>6
      <4>5. ring'[i].head = 0 /\ ring'[i].tail = 0
        BY <4>1 DEF NoRing
      <4> QED BY <4>3, <4>4, <4>5, FlowOfEmpty
    <3> QED BY <2>2, <2>3, <2>6, <3>2, <3>5, <3>6
  <2>10. CASE ~(MoveData \/ UnlockData \/ (CreateData /\ ~UNCHANGED table))
    <3>1. UNCHANGED <<num_active_channels, channels, ring>>
      <4>1. CASE CreateData
        BY <2>10, <4>1 DEF CreateData, table, SectionInv, ControlInv,
                           ControlTypeOK
      <4>2. CASE ~CreateData
        BY <1>2, <2>10, <4>2 DEF HostData, CrashData, TrustedCrash, CopyData,
          RebalanceCopy, RebalanceLock, RebalanceSkip, RebalanceNoMemory,
          ControlLock, ControlReadKey, ControlClear, ControlUnlock, data_vars,
          rings, table
      <4> QED BY <4>1, <4>2
    <3>2. Active' = Active
      BY <3>1 DEF Active
    <3> QED BY <2>2, <2>3, <2>6, <3>1, <3>2
  <2> QED BY <2>7, <2>8, <2>9, <2>10
<1> QED BY <1>1, <1>2

-----------------------------------------------------------------------------
(* The clients keep the numbering, if each channel has one of each kind.   *)

(* A step that copies nothing and moves no index.                          *)
LEMMA FlowIdle ==
  ASSUME SectionInv, FlowInv, Quiet,
         UNCHANGED <<num_active_channels, channels, ring, mem, put, taken>>,
         NEW c \in Clients, d_pc'[c] \notin {"copy", "index"},
         \A d \in Clients : d # c =>
           /\ c_chan'[d] = c_chan[d] /\ d_pc'[d] = d_pc[d]
           /\ d_addr'[d] = d_addr[d] /\ d_page'[d] = d_page[d]
  PROVE  FlowInv'
<1>1. /\ \A i \in Slots : IF i \in Active THEN Flow(i) ELSE put[i] = taken[i]
      /\ \A w \in Writers : SenderFlow(w)
      /\ \A r \in Readers : ReceiverFlow(r)
  BY DEF FlowInv
<1>2. Active' = Active /\ Active \subseteq Slots
  BY ActiveRing DEF Active
<1>3. \A i \in Active : Flow(i)'
  BY <1>1, <1>2, FlowFrame
<1>4. ASSUME NEW w \in Writers PROVE SenderFlow(w)'
  <2>1. CASE w = c
    BY <2>1 DEF SenderFlow
  <2>2. CASE w # c
    BY <1>1, <2>2, SenderFrame DEF Clients
  <2> QED BY <2>1, <2>2
<1>5. ASSUME NEW r \in Readers PROVE ReceiverFlow(r)'
  <2>1. CASE r = c
    BY <2>1 DEF ReceiverFlow
  <2>2. CASE r # c
    BY <1>1, <2>2, ReceiverFrame DEF Clients
  <2> QED BY <2>1, <2>2
<1> QED BY <1>1, <1>2, <1>3, <1>4, <1>5 DEF FlowInv

(* The address of the copy is the place its index points to.               *)
LEMMA FlowStartCopy ==
  ASSUME SectionInv, FlowInv, Quiet, NEW c \in Clients, StartCopy(c)
  PROVE  FlowInv'
<1> DEFINE i == c_chan[c]
<1>1. /\ \A j \in Slots : IF j \in Active THEN Flow(j) ELSE put[j] = taken[j]
      /\ \A w \in Writers : SenderFlow(w)
      /\ \A r \in Readers : ReceiverFlow(r)
  BY DEF FlowInv
<1>2. /\ UNCHANGED <<num_active_channels, channels, c_chan>>
      /\ UNCHANGED <<ring, mem, put, taken, d_page>>
      /\ d_pc' = [d_pc EXCEPT ![c] = "copy"]
      /\ d_addr' = [d_addr EXCEPT ![c] =
                      channels[i].buf_offset \div IVSHMEM_PAGE_SIZE
                        + IF c \in Writers THEN ring[i].head ELSE ring[i].tail]
      /\ ~Blocked(c)
  BY DEF StartCopy, SetPC, chan, control_vars, table, client, rings, history
<1>3. Active' = Active /\ Active \subseteq Slots
  BY <1>2, ActiveRing DEF Active
<1>4. \A j \in Active : Flow(j)'
  BY <1>1, <1>2, <1>3, FlowFrame
<1>5. /\ d_pc'[c] = "copy"
      /\ d_addr'[c] = First(i) + IF c \in Writers THEN ring[i].head
                                                  ELSE ring[i].tail
      /\ \A d \in Clients : d # c => d_pc'[d] = d_pc[d] /\ d_addr'[d] = d_addr[d]
  BY <1>2 DEF SectionInv, TypeOK, First
<1>6. ASSUME NEW w \in Writers PROVE SenderFlow(w)'
  <2>1. CASE w = c
    BY <1>2, <1>5, <2>1 DEF SenderFlow, Blocked, chan, First
  <2>2. CASE w # c
    BY <1>1, <1>2, <1>5, <2>2, SenderFrame DEF Clients
  <2> QED BY <2>1, <2>2
<1>7. ASSUME NEW r \in Readers PROVE ReceiverFlow(r)'
  <2>0. r \notin Writers
    BY ClientsAssumption
  <2>1. CASE r = c
    BY <1>2, <1>5, <2>0, <2>1 DEF ReceiverFlow, Blocked, First
  <2>2. CASE r # c
    BY <1>1, <1>2, <1>5, <2>2, ReceiverFrame DEF Clients
  <2> QED BY <2>1, <2>2
<1> QED BY <1>1, <1>2, <1>3, <1>4, <1>6, <1>7 DEF FlowInv

(* The sender and the receiver of a channel are the only ones.             *)
LEMMA OnlyClient ==
  ASSUME OneOfEach, SectionInv, QuietInv, Quiet,
         NEW c \in Clients, NEW d \in Clients, d_pc[c] # "out", d_pc[d] # "out",
         c_chan[c] = c_chan[d],
         \/ c \in Writers /\ d \in Writers
         \/ c \in Readers /\ d \in Readers
  PROVE  c = d
<1>1. c_chan[c] \in Slots /\ c_chan[c] # NULL
  BY HoldsSlot, Sizes DEF Slots, NULL
<1>2. /\ Matches(channels[c_chan[c]].key, ClientKey[c])
      /\ Matches(channels[c_chan[c]].key, ClientKey[d])
  BY <1>1, QuietHoldsActive DEF Quiet
<1>3. channels[c_chan[c]].key \in Key
  BY <1>1 DEF SectionInv, ControlInv, ControlTypeOK, Channel
<1> QED BY <1>2, <1>3 DEF OneOfEach

(* What a client that copies knows of its channel.                         *)
LEMMA CopyingOn ==
  ASSUME SectionInv, QuietInv, Quiet, NEW c \in Clients,
         d_pc[c] \in {"copy", "index"}
  PROVE  /\ c_chan[c] \in Active /\ c_chan[c] \in Slots /\ Inside(c)
         /\ chan(c) = channels[c_chan[c]]
<1>1. c_chan[c] \in Slots /\ c_chan[c] # NULL
  BY HoldsSlot, Sizes DEF Slots, NULL
<1> QED BY <1>1, QuietHoldsActive DEF Quiet, Inside, chan

(* The sender's memcpy hits the page at its own head and no other page     *)
(* that is held anywhere.                                                  *)
LEMMA FlowSendCopy ==
  ASSUME OneOfEach, SectionInv, FreezeInv, QuietInv, FlowInv, Quiet,
         NEW w \in Writers, SendCopy(w)
  PROVE  FlowInv'
<1> DEFINE i == c_chan[w]
           h == ring[i].head
           page == [slot |-> i, seq |-> put[i]]
<1>1. /\ \A j \in Slots : IF j \in Active THEN Flow(j) ELSE put[j] = taken[j]
      /\ \A x \in Writers : SenderFlow(x)
      /\ \A r \in Readers : ReceiverFlow(r)
  BY DEF FlowInv
<1>2. /\ UNCHANGED <<num_active_channels, channels, c_chan>>
      /\ UNCHANGED <<ring, put, taken, d_page, d_addr>>
      /\ d_pc[w] = "copy" /\ d_pc' = [d_pc EXCEPT ![w] = "index"]
      /\ mem' = [mem EXCEPT ![d_addr[w]] = page]
  BY DEF SendCopy, SetPC, control_vars, table, client, history
<1>3. Active' = Active /\ Active \subseteq Slots /\ w \in Clients
  BY <1>2, ActiveRing DEF Active, Clients
<1>4. i \in Active /\ Inside(w) /\ d_addr[w] = First(i) + h
  BY <1>1, <1>2, <1>3, CopyingOn DEF SenderFlow
<1>5. /\ h \in 0 .. channels[i].num_page - 1
      /\ First(i) \in Nat /\ First(i) + h \in Addresses
  BY <1>4, ActiveRing
<1>6. mem'[First(i) + h] = page
  BY <1>2, <1>4, <1>5 DEF SectionInv, TypeOK
<1>7. ASSUME NEW j \in Active, NEW q \in 0 .. channels[j].num_page - 1,
             j # i \/ q # h
      PROVE  mem'[First(j) + q] = mem[First(j) + q]
  <2>1. First(j) + q # First(i) + h
    <3>1. CASE j # i
      BY <1>3, <1>4, <1>5, <3>1, NoSharedPage
    <3>2. CASE j = i
      BY <1>5, <1>7, <3>2
    <3> QED BY <3>1, <3>2
  <2>2. First(j) + q \in Addresses
    BY ActiveRing
  <2> QED BY <1>2, <1>4, <2>1, <2>2 DEF SectionInv, TypeOK
<1>8. ASSUME NEW j \in Active PROVE Flow(j)'
  <2>1. \A q \in 0 .. channels[j].num_page - 1 :
          q # ring[j].head => mem'[First(j) + q] = mem[First(j) + q]
    BY <1>7
  <2> QED BY <1>1, <1>2, <1>3, <2>1, FlowFrame
<1>9. d_pc'[w] = "index" /\ \A d \in Clients : d # w => d_pc'[d] = d_pc[d]
  BY <1>2, <1>3 DEF SectionInv, TypeOK
<1>10. ASSUME NEW x \in Writers PROVE SenderFlow(x)'
  <2>1. CASE x = w
    <3>1. ~IsFull(ring[i].head, ring[i].tail, channels[i].num_page)
      BY <1>1, <1>2 DEF SenderFlow
    <3>2. First(i)' = First(i)
      BY <1>2 DEF First
    <3> QED BY <1>2, <1>4, <1>6, <2>1, <3>1, <3>2 DEF SenderFlow
  <2>2. CASE x # w
    <3>1. x \in Clients
      BY DEF Clients
    <3>2. ASSUME d_pc[x] \in {"copy", "index"}
          PROVE  LET j == c_chan[x] IN
                   mem'[First(j) + ring[j].head] = mem[First(j) + ring[j].head]
      <4>1. c_chan[x] \in Active
        BY <3>1, <3>2, CopyingOn
      <4>2. c_chan[x] # i
        BY <1>2, <1>3, <2>2, <3>1, <3>2, OnlyClient
      <4>3. ring[c_chan[x]].head \in 0 .. channels[c_chan[x]].num_page - 1
        BY <4>1, ActiveRing
      <4> QED BY <1>7, <4>1, <4>2, <4>3
    <3> QED BY <1>1, <1>2, <1>9, <2>2, <3>1, <3>2, SenderFrame
  <2> QED BY <2>1, <2>2
<1>11. ASSUME NEW r \in Readers PROVE ReceiverFlow(r)'
  <2>1. r \in Clients /\ r # w
    BY ClientsAssumption DEF Clients
  <2> QED BY <1>1, <1>2, <1>9, <2>1, ReceiverFrame
<1> QED BY <1>1, <1>2, <1>3, <1>8, <1>10, <1>11 DEF FlowInv

(* Moving head hands over the page just written, under the next number.    *)
LEMMA FlowSendHead ==
  ASSUME OneOfEach, SectionInv, QuietInv, FlowInv, Quiet,
         NEW w \in Writers, SendHead(w)
  PROVE  FlowInv'
<1> DEFINE i == c_chan[w]
           n == channels[i].num_page
           h == ring[i].head
           t == ring[i].tail
           g == Advance(h, n)
<1>1. /\ \A j \in Slots : IF j \in Active THEN Flow(j) ELSE put[j] = taken[j]
      /\ \A x \in Writers : SenderFlow(x)
      /\ \A r \in Readers : ReceiverFlow(r)
  BY DEF FlowInv
<1>2. /\ UNCHANGED <<num_active_channels, channels, c_chan>>
      /\ UNCHANGED <<mem, taken, d_page>>
      /\ d_pc[w] = "index" /\ d_pc' = [d_pc EXCEPT ![w] = "loop"]
      /\ d_addr' = [d_addr EXCEPT ![w] = 0]
      /\ put' = [put EXCEPT ![i] = (put[i] + 1) % MaxSeq]
  BY DEF SendHead, SetPC, control_vars, table, client
<1>3. Active' = Active /\ Active \subseteq Slots /\ w \in Clients
  BY <1>2, ActiveRing DEF Active, Clients
<1>4. i \in Active /\ i \in Slots
  BY <1>2, <1>3, CopyingOn
<1>5. /\ ring'[i].head = g /\ ring'[i].tail = t
      /\ \A j \in Slots : j # i => ring'[j] = ring[j]
  BY SendHeadMoves
<1>6. /\ n \in Nat /\ n >= 2 /\ h \in 0 .. n - 1 /\ t \in 0 .. n - 1
  BY <1>4, ActiveRing
<1>7. /\ ~IsFull(h, t, n)
      /\ mem[First(i) + h] = [slot |-> i, seq |-> put[i]]
  BY <1>1, <1>2 DEF SenderFlow
<1>8. /\ put'[i] = (put[i] + 1) % MaxSeq
      /\ \A j \in Slots : j # i => put'[j] = put[j]
  BY <1>2, <1>4 DEF SectionInv, TypeOK
<1>9. /\ d_pc'[w] = "loop"
      /\ \A d \in Clients : d # w => d_pc'[d] = d_pc[d] /\ d_addr'[d] = d_addr[d]
  BY <1>2, <1>3 DEF SectionInv, TypeOK
<1> HIDE DEF g
<1>10. /\ g # t /\ g # h
       /\ \A p \in 0 .. n - 1 : Count(p, t, n) < Count(g, t, n)
            => p = h \/ Count(p, t, n) < Count(h, t, n)
  BY <1>6, <1>7, HeadTakesPage DEF g
<1>11. ASSUME NEW j, j = i PROVE Flow(j)'
  <2>1. Flow(j) /\ First(j)' = First(j)
    BY <1>1, <1>2, <1>4, <1>11 DEF First
  <2>2. PageNo(j, ring[j].tail)' = taken'[j]
    <3>1. CASE t = h
      <4>1. put[i] = taken[i]
        BY <1>11, <2>1, <3>1, EmptyRingTaken
      <4> QED BY <1>2, <1>5, <1>7, <1>10, <1>11, <2>1, <3>1, <4>1 DEF PageNo
    <3>2. CASE t # h
      BY <1>2, <1>5, <1>10, <1>11, <2>1, <3>2 DEF PageNo, Flow
    <3> QED BY <3>1, <3>2
  <2>3. ASSUME NEW p \in Held(j)'
        PROVE  /\ mem'[First(j)' + p].slot = j
               /\ PageNo(j, Advance(p, channels[j].num_page))'
                    = (mem'[First(j)' + p].seq + 1) % MaxSeq
    <3>1. p \in 0 .. n - 1 /\ (p = h \/ p \in Held(j))
      BY <1>2, <1>5, <1>10, <1>11, <2>3 DEF Held
    <3>2. CASE p = h
      <4>1. Advance(p, n) = g
        BY <3>2 DEF g
      <4>2. PageNo(j, Advance(p, channels[j].num_page))' = put'[j]
        BY <1>2, <1>5, <1>11, <4>1 DEF PageNo
      <4> QED BY <1>2, <1>7, <1>8, <1>11, <2>1, <3>2, <4>2
    <3>3. CASE p # h
      <4>1. /\ p \in Held(j)
            /\ mem[First(j) + p].slot = j
            /\ PageNo(j, Advance(p, n)) = (mem[First(j) + p].seq + 1) % MaxSeq
        BY <1>11, <2>1, <3>1, <3>3 DEF Flow
      <4>2. Advance(p, n) # g
        BY <1>6, <3>1, <3>3, AdvanceInjective DEF g
      <4>3. PageNo(j, Advance(p, channels[j].num_page))'
              = PageNo(j, Advance(p, n))
        <5>1. CASE Advance(p, n) = h
          BY <1>2, <1>5, <1>7, <1>10, <1>11, <2>1, <4>2, <5>1 DEF PageNo
        <5>2. CASE Advance(p, n) # h
          BY <1>2, <1>5, <1>11, <2>1, <4>2, <5>2 DEF PageNo
        <5> QED BY <5>1, <5>2
      <4> QED BY <1>2, <2>1, <4>1, <4>3
    <3> QED BY <3>2, <3>3
  <2> QED BY <2>2, <2>3 DEF Flow
<1>12. ASSUME NEW j \in Active, j # i PROVE Flow(j)'
  BY <1>1, <1>2, <1>3, <1>5, <1>8, <1>12, FlowFrame
<1>13. ASSUME NEW x \in Writers PROVE SenderFlow(x)'
  <2>1. CASE x = w
    BY <1>9, <2>1 DEF SenderFlow
  <2>2. CASE x # w
    <3>1. x \in Clients
      BY DEF Clients
    <3>2. d_pc[x] \in {"copy", "index"} => c_chan[x] \in Slots /\ c_chan[x] # i
      BY <1>2, <1>3, <2>2, <3>1, OnlyClient, CopyingOn
    <3> QED BY <1>1, <1>2, <1>5, <1>8, <1>9, <2>2, <3>1, <3>2, SenderFrame
  <2> QED BY <2>1, <2>2
<1>14. ASSUME NEW r \in Readers PROVE ReceiverFlow(r)'
  <2>1. r \in Clients /\ r # w
    BY ClientsAssumption DEF Clients
  <2>2. CASE c_chan[r] = i
    <3>1. First(i)' = First(i) /\ c_chan'[r] = i
      BY <1>2, <2>2 DEF First
    <3> QED BY <1>1, <1>2, <1>5, <1>9, <1>10, <2>1, <2>2, <3>1
            DEF ReceiverFlow, IsEmpty, First
  <2>3. CASE c_chan[r] # i
    <3>1. d_pc[r] \in {"copy", "index"} => c_chan[r] \in Slots
      BY <2>1, CopyingOn
    <3> QED BY <1>1, <1>2, <1>5, <1>9, <2>1, <2>3, <3>1, ReceiverFrame
  <2> QED BY <2>2, <2>3
<1>15. \A j \in Slots : IF j \in Active' THEN Flow(j)' ELSE put'[j] = taken'[j]
  BY <1>1, <1>2, <1>3, <1>4, <1>8, <1>11, <1>12
<1> QED BY <1>13, <1>14, <1>15 DEF FlowInv

(* The receiver copies the page that is its turn.                          *)
LEMMA FlowRecvCopy ==
  ASSUME OneOfEach, SectionInv, QuietInv, FlowInv, Quiet,
         NEW r \in Readers, RecvCopy(r)
  PROVE  FlowInv'
<1> DEFINE i == c_chan[r]
           t == ring[i].tail
<1>1. /\ \A j \in Slots : IF j \in Active THEN Flow(j) ELSE put[j] = taken[j]
      /\ \A x \in Writers : SenderFlow(x)
      /\ \A q \in Readers : ReceiverFlow(q)
  BY DEF FlowInv
<1>2. /\ UNCHANGED <<num_active_channels, channels, c_chan>>
      /\ UNCHANGED <<ring, mem, put, taken, d_addr>>
      /\ d_pc[r] = "copy" /\ d_pc' = [d_pc EXCEPT ![r] = "index"]
      /\ d_page' = [d_page EXCEPT ![r] = mem[d_addr[r]]]
  BY DEF RecvCopy, SetPC, control_vars, table, client, rings, history
<1>3. Active' = Active /\ Active \subseteq Slots /\ r \in Clients
  BY <1>2, ActiveRing DEF Active, Clients
<1>4. i \in Active /\ i \in Slots
  BY <1>2, <1>3, CopyingOn
<1>5. /\ ring[i].head # t /\ d_addr[r] = First(i) + t
  BY <1>1, <1>2 DEF ReceiverFlow, IsEmpty
<1>6. \A j \in Active : Flow(j)'
  BY <1>1, <1>2, <1>3, FlowFrame
<1>7. mem[d_addr[r]] = [slot |-> i, seq |-> taken[i]]
  <2>1. t \in Held(i)
    BY <1>4, <1>5, ActiveRing, HeldEnds DEF Held
  <2>2. mem[First(i) + t].slot = i /\ mem[First(i) + t].seq = taken[i]
    BY <1>1, <1>4, <1>5, <2>1 DEF Flow, PageNo
  <2>3. mem[d_addr[r]] \in [slot : Slots \cup {NULL}, seq : 0 .. MaxSeq - 1]
    BY <1>3 DEF SectionInv, TypeOK
  <2> QED BY <1>5, <2>2, <2>3
<1>8. /\ d_pc'[r] = "index" /\ d_page'[r] = mem[d_addr[r]]
      /\ \A d \in Clients : d # r => d_pc'[d] = d_pc[d] /\ d_page'[d] = d_page[d]
  BY <1>2, <1>3 DEF SectionInv, TypeOK
<1>9. ASSUME NEW x \in Writers PROVE SenderFlow(x)'
  <2>1. x \in Clients /\ x # r
    BY ClientsAssumption DEF Clients
  <2> QED BY <1>1, <1>2, <1>8, <2>1, SenderFrame
<1>10. ASSUME NEW q \in Readers PROVE ReceiverFlow(q)'
  <2>1. CASE q = r
    <3>1. First(i)' = First(i)
      BY <1>2 DEF First
    <3> QED BY <1>2, <1>5, <1>7, <1>8, <2>1, <3>1 DEF ReceiverFlow, IsEmpty
  <2>2. CASE q # r
    BY <1>1, <1>2, <1>8, <2>2, ReceiverFrame DEF Clients
  <2> QED BY <2>1, <2>2
<1> QED BY <1>1, <1>2, <1>3, <1>6, <1>9, <1>10 DEF FlowInv

(* Moving tail goes on to the page with the next number.                   *)
LEMMA FlowRecvTail ==
  ASSUME OneOfEach, SectionInv, QuietInv, FlowInv, Quiet,
         NEW r \in Readers, RecvTail(r)
  PROVE  FlowInv'
<1> DEFINE i == c_chan[r]
           n == channels[i].num_page
           h == ring[i].head
           t == ring[i].tail
           u == Advance(t, n)
<1>1. /\ \A j \in Slots : IF j \in Active THEN Flow(j) ELSE put[j] = taken[j]
      /\ \A x \in Writers : SenderFlow(x)
      /\ \A q \in Readers : ReceiverFlow(q)
  BY DEF FlowInv
<1>2. /\ UNCHANGED <<num_active_channels, channels, c_chan>>
      /\ UNCHANGED <<mem, put>>
      /\ d_pc[r] = "index" /\ d_pc' = [d_pc EXCEPT ![r] = "loop"]
      /\ d_addr' = [d_addr EXCEPT ![r] = 0]
      /\ d_page' = [d_page EXCEPT ![r] = NoPage]
      /\ taken' = [taken EXCEPT ![i] = (taken[i] + 1) % MaxSeq]
  BY DEF RecvTail, SetPC, control_vars, table, client
<1>3. Active' = Active /\ Active \subseteq Slots /\ r \in Clients
  BY <1>2, ActiveRing DEF Active, Clients
<1>4. i \in Active /\ i \in Slots
  BY <1>2, <1>3, CopyingOn
<1>5. /\ ring'[i].tail = u /\ ring'[i].head = h
      /\ \A j \in Slots : j # i => ring'[j] = ring[j]
  BY RecvTailMoves
<1>6. /\ n \in Nat /\ n >= 2 /\ h \in 0 .. n - 1 /\ t \in 0 .. n - 1
  BY <1>4, ActiveRing
<1>7. h # t
  BY <1>1, <1>2 DEF ReceiverFlow, IsEmpty
<1>8. /\ taken'[i] = (taken[i] + 1) % MaxSeq
      /\ \A j \in Slots : j # i => taken'[j] = taken[j]
  BY <1>2, <1>4 DEF SectionInv, TypeOK
<1>9. /\ d_pc'[r] = "loop"
      /\ \A d \in Clients : d # r => /\ d_pc'[d] = d_pc[d]
                                     /\ d_addr'[d] = d_addr[d]
                                     /\ d_page'[d] = d_page[d]
  BY <1>2, <1>3 DEF SectionInv, TypeOK
<1> HIDE DEF u
<1>10. /\ ~IsFull(h, u, n)
       /\ \A p \in 0 .. n - 1 : Count(p, u, n) < Count(h, u, n)
            => Count(p, t, n) < Count(h, t, n) /\ p # t
  BY <1>6, <1>7, TailGivesPage DEF u
<1>11. ASSUME NEW j, j = i PROVE Flow(j)'
  <2>1. Flow(j) /\ First(j)' = First(j)
    BY <1>1, <1>2, <1>4, <1>11 DEF First
  <2>2. \A p : PageNo(j, p)' = PageNo(j, p)
    BY <1>2, <1>5, <1>11, <2>1 DEF PageNo
  <2>3. PageNo(j, ring[j].tail)' = taken'[j]
    <3>1. t \in Held(j)
      BY <1>6, <1>7, <1>11, HeldEnds DEF Held
    <3>2. PageNo(j, u) = (mem[First(j) + t].seq + 1) % MaxSeq
      BY <1>11, <2>1, <3>1 DEF Flow, u
    <3>3. mem[First(j) + t].seq = taken[j]
      BY <1>7, <1>11, <2>1 DEF Flow, PageNo
    <3> QED BY <1>2, <1>5, <1>8, <1>11, <2>1, <2>2, <3>2, <3>3 DEF PageNo
  <2>4. ASSUME NEW p \in Held(j)'
        PROVE  /\ mem'[First(j)' + p].slot = j
               /\ PageNo(j, Advance(p, channels[j].num_page))'
                    = (mem'[First(j)' + p].seq + 1) % MaxSeq
    <3>1. p \in Held(j)
      BY <1>2, <1>5, <1>10, <1>11, <2>4 DEF Held
    <3>2. PageNo(j, Advance(p, channels[j].num_page))'
            = PageNo(j, Advance(p, channels[j].num_page))
      BY <1>2, <1>5, <1>11, <2>1 DEF PageNo
    <3> QED BY <1>2, <2>1, <3>1, <3>2 DEF Flow
  <2> QED BY <2>3, <2>4 DEF Flow
<1>12. ASSUME NEW j \in Active, j # i PROVE Flow(j)'
  BY <1>1, <1>2, <1>3, <1>5, <1>8, <1>12, FlowFrame
<1>13. ASSUME NEW q \in Readers PROVE ReceiverFlow(q)'
  <2>1. CASE q = r
    BY <1>9, <2>1 DEF ReceiverFlow
  <2>2. CASE q # r
    <3>1. q \in Clients
      BY DEF Clients
    <3>2. d_pc[q] \in {"copy", "index"} => c_chan[q] \in Slots /\ c_chan[q] # i
      BY <1>2, <1>3, <2>2, <3>1, OnlyClient, CopyingOn
    <3> QED BY <1>1, <1>2, <1>5, <1>8, <1>9, <2>2, <3>1, <3>2, ReceiverFrame
  <2> QED BY <2>1, <2>2
<1>14. ASSUME NEW x \in Writers PROVE SenderFlow(x)'
  <2>1. x \in Clients /\ x # r
    BY ClientsAssumption DEF Clients
  <2>2. CASE c_chan[x] = i
    <3>1. First(i)' = First(i) /\ c_chan'[x] = i
      BY <1>2, <2>2 DEF First
    <3> QED BY <1>1, <1>2, <1>5, <1>9, <1>10, <2>1, <2>2, <3>1
            DEF SenderFlow, First
  <2>3. CASE c_chan[x] # i
    <3>1. d_pc[x] \in {"copy", "index"} => c_chan[x] \in Slots
      BY <2>1, CopyingOn
    <3> QED BY <1>1, <1>2, <1>5, <1>9, <2>1, <2>3, <3>1, SenderFrame
  <2> QED BY <2>2, <2>3
<1>15. \A j \in Slots : IF j \in Active' THEN Flow(j)' ELSE put'[j] = taken'[j]
  BY <1>1, <1>2, <1>3, <1>4, <1>8, <1>11, <1>12
<1> QED BY <1>13, <1>14, <1>15 DEF FlowInv

LEMMA FlowClients ==
  ASSUME OneOfEach, SectionInv, FreezeInv, QuietInv, FlowInv, Quiet, ClientData
  PROVE  FlowInv'
<1>1. UNCHANGED <<num_active_channels, channels>>
  BY ClientsLeaveTable DEF table
<1>2. PICK c \in Clients :
           \/ /\ RequestChannel(c) \/ PollDone(c) \/ FindForReceive(c)
              /\ Enter(c)
           \/ /\ WriterWork(c) \/ (c_pc[c] = "failed" /\ Return(c))
              /\ UNCHANGED data_vars
           \/ PassMutex(c) \/ LeaveLoop(c) \/ StartOver(c) \/ StartCopy(c)
           \/ Fault(c)
           \/ c \in Writers /\ (SendCopy(c) \/ SendHead(c))
           \/ c \in Readers /\ (RecvCopy(c) \/ RecvTail(c))
  BY ClientCases
<1>3. CASE /\ RequestChannel(c) \/ PollDone(c) \/ FindForReceive(c)
           /\ Enter(c)
  <2>1. /\ UNCHANGED <<ring, mem, put, taken>>
        /\ \A d \in Clients : d # c =>
             /\ c_chan'[d] = c_chan[d] /\ d_pc'[d] = d_pc[d]
             /\ d_addr'[d] = d_addr[d] /\ d_page'[d] = d_page[d]
        /\ d_pc'[c] \in {"out", "loop"}
    BY <1>3 DEF Enter, RequestChannel, PollDone, FindForReceive, Found, rings,
      history, SectionInv, TypeOK, ControlInv, ControlTypeOK
  <2> QED BY <1>1, <2>1, FlowIdle
<1>4. CASE /\ WriterWork(c) \/ (c_pc[c] = "failed" /\ Return(c))
           /\ UNCHANGED data_vars
  <2>1. /\ UNCHANGED <<ring, mem, put, taken, d_pc, d_addr, d_page>>
        /\ \A d \in Clients : d # c => c_chan'[d] = c_chan[d]
        /\ c_pc[c] # "have"
    BY <1>4 DEF data_vars, rings, loops, history, WriterWork, RaiseFlag,
      WriteSender, WriteReceiver, Return, ControlInv, ControlTypeOK, SectionInv
  <2>2. d_pc'[c] = "out"
    BY <2>1 DEF SectionInv, LoopsInv
  <2> QED BY <1>1, <2>1, <2>2, FlowIdle
<1>5. CASE PassMutex(c) \/ LeaveLoop(c) \/ StartOver(c) \/ Fault(c)
  <2>1. /\ UNCHANGED <<ring, mem, put, taken, d_addr, d_page>>
        /\ \A d \in Clients : d # c => /\ c_chan'[d] = c_chan[d]
                                       /\ d_pc'[d] = d_pc[d]
        /\ d_pc'[c] \in {"out", "loop", "test", "fault"}
    BY <1>5 DEF PassMutex, LeaveLoop, StartOver, Fault, Return, SetPC,
      control_vars, client, rings, history, ControlInv, ControlTypeOK,
      SectionInv, TypeOK
  <2> QED BY <1>1, <2>1, FlowIdle
<1>6. CASE StartCopy(c)
  BY <1>6, FlowStartCopy
<1>7. CASE c \in Writers /\ (SendCopy(c) \/ SendHead(c))
  BY <1>7, FlowSendCopy, FlowSendHead
<1>8. CASE c \in Readers /\ (RecvCopy(c) \/ RecvTail(c))
  BY <1>8, FlowRecvCopy, FlowRecvTail
<1> QED BY <1>2, <1>3, <1>4, <1>5, <1>6, <1>7, <1>8

LEMMA FlowStep ==
  ASSUME OneOfEach, SectionInv, SectionInv', FreezeInv, QuietInv, FlowInv,
         [Next]_vars
  PROVE  FlowInv'
<1>1. CASE HostData
  BY <1>1, FlowHost
<1>2. CASE ClientData
  <2>1. disturbed' = disturbed
    BY <1>2, ClientsLeaveTable
  <2>2. Quiet' <=> Quiet
    BY <2>1 DEF Quiet
  <2>3. CASE Quiet
    BY <1>2, <2>3, FlowClients
  <2>4. CASE ~Quiet
    BY <2>2, <2>4 DEF FlowInv
  <2> QED BY <2>3, <2>4
<1>3. CASE UNCHANGED vars
  <2>1. /\ UNCHANGED <<num_active_channels, channels, c_chan>>
        /\ UNCHANGED <<ring, mem, put, taken, disturbed, d_pc, d_addr, d_page>>
    BY <1>3 DEF vars, control_vars, table, client, data_vars, rings, loops,
                history
  <2> QED BY <2>1 DEF FlowInv, Quiet, Active, Flow, SenderFlow, ReceiverFlow,
                      Held, PageNo, First
<1> QED BY <1>1, <1>2, <1>3 DEF Next

LEMMA FlowInit == Init => FlowInv
<1> SUFFICES ASSUME Init PROVE FlowInv
  OBVIOUS
<1>1. /\ Active = {}
      /\ \A i \in Slots : put[i] = taken[i]
      /\ \A c \in Clients : d_pc[c] = "out"
  BY DEF Init, ControlInit, Active
<1> QED BY <1>1 DEF FlowInv, SenderFlow, ReceiverFlow, Clients

(* Rebalancing is transparent while it meets no channel in use: whatever   *)
(* the sizes, the clients and the number of moves, and wherever the host   *)
(* dies, a receiver gets the pages of its channel in the order they were   *)
(* put, provided no channel has two senders or two receivers.              *)
THEOREM SecureRebalancingTransparent ==
  ASSUME OneOfEach
  PROVE  Spec => []QuietRebalancingIsTransparent
<1>1. FlowInv => QuietRebalancingIsTransparent
  BY DEF FlowInv, ReceiverFlow, QuietRebalancingIsTransparent, InOrderOn
<1>2. SectionInv /\ FreezeInv /\ QuietInv /\ FlowInv /\ [Next]_vars
        => SectionInv' /\ FreezeInv' /\ QuietInv' /\ FlowInv'
  BY SectionStep, QuietStep, FlowStep
<1>3. Init => SectionInv /\ FreezeInv /\ QuietInv /\ FlowInv
  BY SectionInit, QuietInit, FlowInit
<1> QED BY <1>1, <1>2, <1>3, PTL DEF Spec
=============================================================================
