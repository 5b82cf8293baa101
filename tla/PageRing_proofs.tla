-------------------------- MODULE PageRing_proofs ---------------------------
(***************************************************************************)
(* The ring of a channel whose geometry does not change is a FIFO queue of *)
(* pages, for every number of pages, page size and message size, and the   *)
(* two sides never copy the same page at once.                             *)
(***************************************************************************)
EXTENDS PageRing, TLAPS

Index == 0 .. NumPages - 1

(* What each side knows once it is past its check: the other side can only *)
(* make more room, or put more pages.                                      *)
RingInv ==
  /\ RingTypeOK
  /\ w_pc \in {"copy", "head"} => ~IsFull(head, tail, NumPages)
  /\ w_pc # "check" => data_sent < SIZE
  /\ r_pc \in {"copy", "tail"} => head # tail
  /\ r_pc # "check" => data_received < SIZE

(* A remainder lies below the modulus.                                     *)
LEMMA ModNat ==
  ASSUME NEW a \in Int, NEW b \in Nat \ {0}
  PROVE  a % b \in 0 .. b - 1
BY SMT

(* (i + 1) % num_page stays in the ring and wraps at its end.              *)
LEMMA AdvanceWraps ==
  ASSUME NEW i \in Index
  PROVE  /\ Advance(i, NumPages) = IF i + 1 = NumPages THEN 0 ELSE i + 1
         /\ Advance(i, NumPages) \in Index
<1>1. NumPages \in Nat \ {0, 1}
  BY RingAssumption
<1>2. CASE i + 1 = NumPages
  BY <1>1, <1>2 DEF Advance, Index
<1>3. CASE i + 1 # NumPages
  BY <1>1, <1>3 DEF Advance, Index
<1> QED BY <1>2, <1>3

(* One turn of the send loop copies at most a page, whatever size_t made   *)
(* of the message size.                                                    *)
LEMMA ToSentType == to_sent \in 0 .. PAGE
<1>1. (SIZE - PAGE) % SIZE_T \in Nat
  BY RingAssumption, ModNat
<1> QED BY <1>1, RingAssumption DEF to_sent, ToSent, Least

(* One turn of the receive loop copies at most a page.                     *)
LEMMA ToReceiveType ==
  ASSUME data_received \in Nat, data_received < SIZE
  PROVE  to_receive \in 0 .. PAGE
BY RingAssumption DEF to_receive, ToReceive, Least

(* The invariant holds in a fresh channel.                                 *)
LEMMA RingInvInit == RingInit => RingInv
BY RingAssumption DEF RingInit, RingInv, RingTypeOK, Slice, NoSlice

(* Every access of either side keeps the invariant.                        *)
LEMMA RingInvStep == RingInv /\ [RingNext]_ring_vars => RingInv'
<1> SUFFICES ASSUME RingInv, [RingNext]_ring_vars
             PROVE  RingInv'
  OBVIOUS
<1> USE DEF RingInv, RingTypeOK
<1>0. /\ NumPages \in Nat \ {0, 1} /\ SIZE \in Nat \ {0}
      /\ Counters \in Nat \ {0} /\ SIZE_T \in Nat \ {0} /\ PAGE \in Nat \ {0}
  BY RingAssumption
<1>1. CASE UNCHANGED ring_vars
  BY <1>1 DEF ring_vars, writer, reader
<1>2. CASE SendReturn
  <2>1. w_msg' \in 0 .. Counters - 1
    BY <1>0, <1>2, ModNat DEF SendReturn
  <2> QED BY <1>0, <1>2, <2>1 DEF SendReturn, reader
<1>3. CASE SendCheck
  BY <1>3 DEF SendCheck, reader
<1>4. CASE SendCopy
  <2>1. [msg |-> w_msg, from |-> data_sent, len |-> to_sent] \in Slice
    BY <1>0, <1>4, ToSentType DEF SendCopy, Slice
  <2>2. mem' \in [0 .. NumPages - 1 -> Slice]
    BY <1>4, <2>1 DEF SendCopy
  <2> QED BY <1>4, <2>2 DEF SendCopy, reader
<1>5. CASE SendHead
  <2>1. head' = IF head + 1 = NumPages THEN 0 ELSE head + 1
    BY <1>5, AdvanceWraps DEF SendHead, Index
  <2>2. head' \in 0 .. NumPages - 1
    BY <1>0, <2>1
  <2>3. head' # tail
    BY <1>0, <1>5, <2>1 DEF SendHead, IsFull
  <2> QED BY <1>5, <2>2, <2>3 DEF SendHead, reader
<1>6. CASE SendAccount
  <2>1. data_size' \in 0 .. SIZE_T - 1
    BY <1>0, <1>6, ToSentType, ModNat DEF SendAccount
  <2>2. data_sent' \in Nat
    BY <1>0, <1>6, ToSentType DEF SendAccount
  <2> QED BY <1>6, <2>1, <2>2 DEF SendAccount, reader
<1>7. CASE RecvReturn
  <2>1. r_msg' \in 0 .. Counters - 1
    BY <1>0, <1>7, ModNat DEF RecvReturn
  <2> QED BY <1>0, <1>7, <2>1 DEF RecvReturn, writer
<1>8. CASE RecvCheck
  BY <1>8 DEF RecvCheck, IsEmpty, writer
<1>9. CASE RecvCopy
  BY <1>9 DEF RecvCopy, writer
<1>10. CASE RecvTail
  <2>1. tail' = IF tail + 1 = NumPages THEN 0 ELSE tail + 1
    BY <1>10, AdvanceWraps DEF RecvTail, Index
  <2>2. tail' \in 0 .. NumPages - 1
    BY <1>0, <2>1
  <2>3. head # tail => ~IsFull(head, tail', NumPages)
    BY <1>0, <2>1 DEF IsFull
  <2> QED BY <1>10, <2>2, <2>3 DEF RecvTail, writer
<1>11. CASE RecvAccount
  <2>1. to_receive \in 0 .. PAGE
    BY <1>11, ToReceiveType DEF RecvAccount
  <2>2. data_size' \in 0 .. SIZE_T - 1
    BY <1>0, <1>11, <2>1, ModNat DEF RecvAccount
  <2>3. data_received' \in Nat
    BY <1>0, <1>11, <2>1 DEF RecvAccount
  <2> QED BY <1>11, <2>2, <2>3 DEF RecvAccount, writer
<1> QED BY <1>1, <1>2, <1>3, <1>4, <1>5, <1>6, <1>7, <1>8, <1>9, <1>10, <1>11
        DEF RingNext, Send, Recv

(* What each side found out at its check stays true until it moves its own *)
(* index, although it holds no lock.                                       *)
THEOREM RingInvariant == RingSpec => []RingInv
BY RingInvInit, RingInvStep, PTL DEF RingSpec

(* The two memcpys never meet on a page.                                   *)
THEOREM RingNoPageRace == RingSpec => []NoPageRace
<1>1. RingInv => NoPageRace
  BY DEF RingInv, NoPageRace
<1> QED BY <1>1, RingInvariant, PTL

-----------------------------------------------------------------------------
(* Functions on 1 .. m as sequences.                                       *)

(* Functions that agree on their domain are equal.                         *)
LEMMA FnEqual ==
  ASSUME NEW S, NEW D, NEW f \in [D -> S], NEW g \in [D -> S],
         \A i \in D : g[i] = f[i]
  PROVE  g = f
BY SMT

(* A function with one more place is an Append.                            *)
LEMMA FnAppend ==
  ASSUME NEW S, NEW m \in Nat, NEW f \in [1 .. m -> S],
         NEW g \in [1 .. m + 1 -> S], \A i \in 1 .. m : g[i] = f[i]
  PROVE  Len(f) = m /\ g = Append(f, g[m + 1])
<1>1. f \in Seq(S) /\ Len(f) = m
  OBVIOUS
<1>2. g \in Seq(S) /\ Len(g) = m + 1
  OBVIOUS
<1> QED BY <1>1, <1>2

(* A function shifted by one place is a Tail.                              *)
LEMMA FnTail ==
  ASSUME NEW S, NEW m \in Nat \ {0}, NEW f \in [1 .. m -> S],
         NEW g \in [1 .. m - 1 -> S], \A i \in 1 .. m - 1 : g[i] = f[i + 1]
  PROVE  f # <<>> /\ Head(f) = f[1] /\ g = Tail(f)
<1>1. f \in Seq(S) /\ Len(f) = m
  OBVIOUS
<1>2. g \in Seq(S) /\ Len(g) = m - 1
  OBVIOUS
<1> QED BY <1>1, <1>2

-----------------------------------------------------------------------------
(* The refinement.                                                         *)

Waiting == Count(head, tail, NumPages) - CopiedOut

InRingOK ==
  /\ Waiting \in Nat
  /\ Count(head, tail, NumPages) \in 0 .. NumPages - 1
  /\ InRing \in [1 .. Waiting -> Slice]

(* The contents of the ring are a sequence of slices, as long as the       *)
(* indices say less the page copied out.                                   *)
LEMMA InRingType == RingInv => InRingOK
<1> SUFFICES ASSUME RingInv PROVE InRingOK
  OBVIOUS
<1>0. /\ NumPages \in Nat \ {0, 1}
      /\ head \in 0 .. NumPages - 1 /\ tail \in 0 .. NumPages - 1
      /\ CopiedOut \in {0, 1}
      /\ CopiedOut = 1 => head # tail
      /\ mem \in [0 .. NumPages - 1 -> Slice]
  BY RingAssumption DEF RingInv, RingTypeOK, CopiedOut
<1>1. /\ Waiting \in Nat
      /\ Count(head, tail, NumPages) \in 0 .. NumPages - 1
  BY <1>0 DEF Waiting, Count
<1>2. \A i \in 1 .. Waiting :
        Position(tail, i - 1 + CopiedOut, NumPages) \in 0 .. NumPages - 1
  BY <1>0, <1>1 DEF Position, Waiting
<1>3. InRing \in [1 .. Waiting -> Slice]
  BY <1>0, <1>2 DEF InRing, Waiting
<1> QED BY <1>1, <1>3 DEF InRingOK

(* The same after a step.                                                  *)
LEMMA InRingTypeNext == RingInv' => InRingOK'
BY InRingType, PTL

(* Copying a page in does not change what is in the ring yet.              *)
LEMMA CopyInStutters ==
  ASSUME RingInv, RingInv', SendCopy
  PROVE  UNCHANGED <<InRing, r_page>>
<1>0. /\ NumPages \in Nat \ {0, 1}
      /\ head \in 0 .. NumPages - 1 /\ tail \in 0 .. NumPages - 1
      /\ CopiedOut \in {0, 1}
      /\ mem \in [0 .. NumPages - 1 -> Slice]
  BY RingAssumption DEF RingInv, RingTypeOK, CopiedOut
<1>1. /\ UNCHANGED <<head, tail, r_page, r_pc>>
      /\ \A k \in 0 .. NumPages - 1 : k # head => mem'[k] = mem[k]
  BY <1>0 DEF SendCopy, reader
<1>2. Waiting' = Waiting /\ CopiedOut' = CopiedOut
  BY <1>1 DEF Waiting, CopiedOut
<1>3. \A i \in 1 .. Waiting :
        /\ Position(tail, i - 1 + CopiedOut, NumPages) \in 0 .. NumPages - 1
        /\ Position(tail, i - 1 + CopiedOut, NumPages) # head
  BY <1>0 DEF Position, Waiting, Count
<1>4. \A i \in 1 .. Waiting : InRing'[i] = InRing[i]
  BY <1>1, <1>2, <1>3 DEF InRing, Waiting
<1>5. InRing \in [1 .. Waiting -> Slice] /\ InRing' \in [1 .. Waiting -> Slice]
  BY <1>2, InRingType, InRingTypeNext DEF InRingOK
<1>6. InRing' = InRing
  <2> DEFINE D == 1 .. Waiting
             f == InRing
             g == InRing'
  <2>1. /\ f \in [D -> Slice] /\ g \in [D -> Slice]
        /\ \A i \in D : g[i] = f[i]
    BY <1>4, <1>5
  <2> HIDE DEF D, f, g
  <2>2. g = f
    BY <2>1, FnEqual
  <2> QED BY <2>2 DEF f, g
<1> QED BY <1>1, <1>6

(* Moving head puts the page that was copied in into the queue.            *)
LEMMA HeadMovesPuts ==
  ASSUME RingInv, RingInv', SendHead
  PROVE  Fifo!Put
<1>0. /\ NumPages \in Nat \ {0, 1}
      /\ head \in 0 .. NumPages - 1 /\ tail \in 0 .. NumPages - 1
      /\ CopiedOut \in {0, 1}
      /\ CopiedOut = 1 => head # tail
      /\ mem \in [0 .. NumPages - 1 -> Slice]
      /\ ~IsFull(head, tail, NumPages)
  BY RingAssumption DEF RingInv, RingTypeOK, CopiedOut, SendHead
<1>1. /\ UNCHANGED <<tail, mem, r_page, r_pc>>
      /\ head' = IF head + 1 = NumPages THEN 0 ELSE head + 1
  BY <1>0, AdvanceWraps DEF SendHead, reader, Index
<1>2. /\ CopiedOut' = CopiedOut
      /\ Count(head', tail, NumPages) = Count(head, tail, NumPages) + 1
      /\ Count(head, tail, NumPages) < NumPages - 1
      /\ Position(tail, Count(head, tail, NumPages), NumPages) = head
  BY <1>0, <1>1 DEF CopiedOut, Count, IsFull, Position
<1>3. Waiting' = Waiting + 1 /\ Waiting \in Nat
  <2>1. Count(head, tail, NumPages) \in Nat
    BY InRingType DEF InRingOK
  <2> QED BY <1>0, <1>1, <1>2, <2>1, InRingType DEF Waiting, InRingOK
<1>4. \A i \in 1 .. Waiting : InRing'[i] = InRing[i]
  BY <1>1, <1>2, <1>3, InRingType DEF InRing, Waiting, InRingOK
<1>5. /\ InRing \in [1 .. Waiting -> Slice]
      /\ InRing' \in [1 .. Waiting + 1 -> Slice]
  BY <1>3, InRingType, InRingTypeNext DEF InRingOK
<1>6. Len(InRing) = Waiting /\ InRing' = Append(InRing, InRing'[Waiting + 1])
  BY <1>3, <1>4, <1>5, FnAppend
<1>7. InRing'[Waiting + 1] \in Slice
  BY <1>3, <1>5
<1>8. Len(InRing) < NumPages - 1
  <2>1. Count(head, tail, NumPages) \in Nat
    BY InRingType DEF InRingOK
  <2> QED BY <1>0, <1>2, <1>6, <2>1 DEF Waiting
<1> QED BY <1>1, <1>6, <1>7, <1>8 DEF Fifo!Put

(* Copying a page out takes the first one from the queue.                  *)
LEMMA CopyOutTakes ==
  ASSUME RingInv, RingInv', RecvCopy
  PROVE  Fifo!Take
<1>0. /\ NumPages \in Nat \ {0, 1}
      /\ head \in 0 .. NumPages - 1 /\ tail \in 0 .. NumPages - 1
      /\ head # tail
  BY RingAssumption DEF RingInv, RingTypeOK, RecvCopy
<1>1. /\ UNCHANGED <<head, tail, mem>>
      /\ r_page' = mem[tail]
      /\ CopiedOut = 0 /\ CopiedOut' = 1
  BY DEF RecvCopy, CopiedOut
<1>2. Waiting \in Nat \ {0} /\ Waiting' = Waiting - 1
  BY <1>0, <1>1 DEF Waiting, Count
<1>3. /\ InRing \in [1 .. Waiting -> Slice]
      /\ InRing' \in [1 .. Waiting - 1 -> Slice]
  BY <1>2, InRingType, InRingTypeNext DEF InRingOK
<1>4. \A i \in 1 .. Waiting - 1 : InRing'[i] = InRing[i + 1]
  <2> SUFFICES ASSUME NEW i \in 1 .. Waiting - 1
               PROVE  InRing'[i] = InRing[i + 1]
    OBVIOUS
  <2>1. InRing'[i] = mem[Position(tail, i - 1 + 1, NumPages)]
    BY <1>1, <1>2 DEF InRing, Waiting
  <2>2. InRing[i + 1] = mem[Position(tail, i + 1 - 1 + 0, NumPages)]
    BY <1>1, <1>2 DEF InRing, Waiting
  <2>3. i - 1 + 1 = i + 1 - 1 + 0
    BY <1>2
  <2> QED BY <2>1, <2>2, <2>3
<1>5. InRing[1] = mem[tail]
  <2>1. Position(tail, 1 - 1 + 0, NumPages) = tail
    BY <1>0 DEF Position
  <2>2. 1 \in 1 .. Count(head, tail, NumPages) - CopiedOut
    BY <1>2 DEF Waiting
  <2> QED BY <1>1, <2>1, <2>2 DEF InRing
<1>6. InRing # <<>> /\ Head(InRing) = InRing[1] /\ InRing' = Tail(InRing)
  BY <1>2, <1>3, <1>4, FnTail
<1> QED BY <1>1, <1>5, <1>6 DEF Fifo!Take

(* Moving tail past the page that was copied out changes nothing more.     *)
LEMMA TailMovesStutters ==
  ASSUME RingInv, RingInv', RecvTail
  PROVE  UNCHANGED <<InRing, r_page>>
<1>0. /\ NumPages \in Nat \ {0, 1}
      /\ head \in 0 .. NumPages - 1 /\ tail \in 0 .. NumPages - 1
      /\ head # tail
  BY RingAssumption DEF RingInv, RingTypeOK, RecvTail
<1>1. /\ UNCHANGED <<head, mem, r_page>>
      /\ tail' = IF tail + 1 = NumPages THEN 0 ELSE tail + 1
      /\ CopiedOut = 1 /\ CopiedOut' = 0
  BY <1>0, AdvanceWraps DEF RecvTail, CopiedOut, Index
<1>2. Waiting' = Waiting /\ Waiting \in Nat
  BY <1>0, <1>1 DEF Waiting, Count
<1>3. \A i \in 1 .. Waiting :
        Position(tail', i - 1 + 0, NumPages) = Position(tail, i - 1 + 1, NumPages)
  BY <1>0, <1>1 DEF Position, Waiting, Count
<1>4. \A i \in 1 .. Waiting : InRing'[i] = InRing[i]
  <2> SUFFICES ASSUME NEW i \in 1 .. Waiting PROVE InRing'[i] = InRing[i]
    OBVIOUS
  <2>1. InRing'[i] = mem[Position(tail', i - 1 + 0, NumPages)]
    BY <1>1, <1>2 DEF InRing, Waiting
  <2>2. InRing[i] = mem[Position(tail, i - 1 + 1, NumPages)]
    BY <1>1, <1>2 DEF InRing, Waiting
  <2> QED BY <1>3, <2>1, <2>2
<1>5. InRing \in [1 .. Waiting -> Slice] /\ InRing' \in [1 .. Waiting -> Slice]
  BY <1>2, InRingType, InRingTypeNext DEF InRingOK
<1>6. InRing' = InRing
  <2> DEFINE D == 1 .. Waiting
             f == InRing
             g == InRing'
  <2>1. /\ f \in [D -> Slice] /\ g \in [D -> Slice]
        /\ \A i \in D : g[i] = f[i]
    BY <1>4, <1>5
  <2> HIDE DEF D, f, g
  <2>2. g = f
    BY <2>1, FnEqual
  <2> QED BY <2>2 DEF f, g
<1> QED BY <1>1, <1>6

(* A channel of fixed geometry hands its pages on in order, each of them   *)
(* once and unchanged.                                                     *)
THEOREM RingImplementsFifo == RingSpec => RingIsFifo
<1>1. RingInit => Fifo!FifoInit
  <2> SUFFICES ASSUME RingInit PROVE Fifo!FifoInit
    OBVIOUS
  <2>1. Count(head, tail, NumPages) - CopiedOut = 0
    BY DEF RingInit, Count, CopiedOut
  <2>2. InRing = <<>>
    BY <2>1 DEF InRing
  <2>3. r_page \in Slice
    BY RingInvInit DEF RingInv, RingTypeOK
  <2> QED BY <2>2, <2>3 DEF Fifo!FifoInit
<1>2. RingInv /\ RingInv' /\ [RingNext]_ring_vars
        => [Fifo!Put \/ Fifo!Take]_<<InRing, r_page>>
  <2> SUFFICES ASSUME RingInv, RingInv', [RingNext]_ring_vars
               PROVE  [Fifo!Put \/ Fifo!Take]_<<InRing, r_page>>
    OBVIOUS
  <2>1. CASE UNCHANGED <<head, tail, mem, r_page>> /\ CopiedOut' = CopiedOut
    BY <2>1 DEF InRing
  <2>2. CASE \/ UNCHANGED ring_vars \/ SendReturn \/ SendCheck \/ SendAccount
             \/ RecvReturn \/ RecvCheck \/ RecvAccount
    BY <2>1, <2>2
    DEF ring_vars, reader, writer, SendReturn, SendCheck, SendAccount,
        RecvReturn, RecvCheck, RecvAccount, CopiedOut
  <2> QED BY <2>2, CopyInStutters, HeadMovesPuts, CopyOutTakes,
             TailMovesStutters
          DEF RingNext, Send, Recv
<1> QED BY <1>1, <1>2, RingInvariant, PTL
        DEF RingSpec, RingIsFifo, Fifo!FifoSpec

-----------------------------------------------------------------------------
(* Messages.  The sender copies whole pages when a message has two of them *)
(* at least; the two sides then agree on where each page belongs although  *)
(* they count the last, shorter one differently.                           *)

(* The size the loops of the example programs work with: to_sent is then a *)
(* page in every turn.                                                     *)
LEMMA LargeMessage ==
  ASSUME 2 * PAGE <= SIZE, SIZE < SIZE_T
  PROVE  to_sent = PAGE
<1>1. SIZE - PAGE \in 0 .. SIZE_T - 1
  BY RingAssumption
<1>2. (SIZE - PAGE) % SIZE_T = SIZE - PAGE
  BY <1>1, RingAssumption
<1> QED BY <1>2, RingAssumption DEF to_sent, ToSent, Least

(* Where the page after byte d of message m belongs.                       *)
Place(m, d) == IF d < SIZE THEN <<m, d>> ELSE <<(m + 1) % Counters, 0>>

(* The place of the next page to enter the ring, and of the next to leave. *)
PlaceIn ==
  Place(w_msg, IF w_pc = "account" THEN data_sent + PAGE ELSE data_sent)
PlaceOut ==
  Place(r_msg, IF r_pc = "account" THEN data_received + PAGE ELSE data_received)

PlaceOf(i) == <<mem[i].msg, mem[i].from>>
PlaceAfter(i) == Place(mem[i].msg, mem[i].from + PAGE)

(* The pages from tail up to head.                                         *)
Occupied(i) ==
  IF tail <= head THEN tail <= i /\ i < head ELSE tail <= i \/ i < head

(* Each page in the ring is full and followed by the one that belongs      *)
(* behind it, from the page the receiver is due up to the one the sender   *)
(* is at.                                                                  *)
StreamInv ==
  /\ head = tail => PlaceIn = PlaceOut
  /\ head # tail => PlaceOf(tail) = PlaceOut
  /\ \A i \in Index : Occupied(i) =>
       /\ mem[i].len = PAGE
       /\ PlaceAfter(i) = IF Advance(i, NumPages) = head
                            THEN PlaceIn
                            ELSE PlaceOf(Advance(i, NumPages))
  /\ w_pc = "head" =>
       mem[head] = [msg |-> w_msg, from |-> data_sent, len |-> PAGE]
  /\ r_pc = "tail" => r_page = mem[tail]

(* What the two loops do to a place: a page's first byte, the return from  *)
(* the call, and the last turn, in which the receiver takes less than a    *)
(* page and the sender counts a whole one.                                 *)
LEMMA PlaceFacts ==
  ASSUME NEW m \in 0 .. Counters - 1, NEW d \in Nat
  PROVE  /\ d < SIZE => Place(m, d) = <<m, d>>
         /\ d >= SIZE => Place((m + 1) % Counters, 0) = Place(m, d)
         /\ d < SIZE => Place(m, d + ToReceive(SIZE, d, PAGE))
                          = Place(m, d + PAGE)
<1>1. SIZE \in Nat \ {0} /\ PAGE \in Nat \ {0}
  BY RingAssumption
<1>2. d >= SIZE => Place((m + 1) % Counters, 0) = Place(m, d)
  BY <1>1 DEF Place
<1>3. d < SIZE => Place(m, d + ToReceive(SIZE, d, PAGE)) = Place(m, d + PAGE)
  BY <1>1 DEF Place, ToReceive, Least
<1> QED BY <1>2, <1>3 DEF Place

(* The occupied part of the ring starts at tail and runs up to head.       *)
LEMMA OccupiedRange ==
  ASSUME head \in Index, tail \in Index
  PROVE  /\ ~Occupied(head)
         /\ head # tail => Occupied(tail)
         /\ \A i \in Index : Occupied(i) /\ Advance(i, NumPages) # head
                              => Occupied(Advance(i, NumPages))
<1>1. NumPages \in Nat \ {0, 1}
  BY RingAssumption
<1>2. ASSUME NEW i \in Index, Occupied(i), Advance(i, NumPages) # head
      PROVE  Occupied(Advance(i, NumPages))
  BY <1>1, <1>2, AdvanceWraps DEF Occupied, Index
<1> QED BY <1>1, <1>2 DEF Occupied, Index

(* A step that moves neither index and keeps the pages in the ring, and    *)
(* both places, keeps the stream.                                          *)
LEMMA StreamFrame ==
  ASSUME RingInv, StreamInv, UNCHANGED <<head, tail>>,
         PlaceIn' = PlaceIn, PlaceOut' = PlaceOut,
         \A i \in Index : i # head => mem'[i] = mem[i],
         (w_pc = "head" =>
            mem[head] = [msg |-> w_msg, from |-> data_sent, len |-> PAGE])',
         (r_pc = "tail" => r_page = mem[tail])'
  PROVE  StreamInv'
<1>1. head \in Index /\ tail \in Index
  BY DEF RingInv, RingTypeOK, Index
<1>2. \A i \in Index : Occupied(i)' = Occupied(i)
  BY DEF Occupied
<1>3. head' # tail' => PlaceOf(tail)' = PlaceOut'
  BY <1>1 DEF StreamInv, PlaceOf
<1>4. ASSUME NEW i \in Index, Occupied(i)
      PROVE  /\ mem'[i].len = PAGE
             /\ PlaceAfter(i)' = IF Advance(i, NumPages) = head'
                                   THEN PlaceIn'
                                   ELSE PlaceOf(Advance(i, NumPages))'
  <2>1. mem'[i] = mem[i]
    BY <1>1, <1>4, OccupiedRange
  <2>2. Advance(i, NumPages) \in Index
    BY AdvanceWraps
  <2> QED BY <1>4, <2>1, <2>2 DEF StreamInv, PlaceAfter, PlaceOf
<1> QED BY <1>2, <1>3, <1>4 DEF StreamInv

(* The page that was copied in joins the end of the stream.                *)
LEMMA StreamHead ==
  ASSUME RingInv, StreamInv, SendHead PROVE StreamInv'
<1>0. /\ NumPages \in Nat \ {0, 1} /\ PAGE \in Nat \ {0}
      /\ head \in Index /\ tail \in Index
      /\ ~IsFull(head, tail, NumPages)
      /\ w_msg \in 0 .. Counters - 1 /\ data_sent \in Nat /\ data_sent < SIZE
      /\ mem[head] = [msg |-> w_msg, from |-> data_sent, len |-> PAGE]
  BY RingAssumption DEF RingInv, RingTypeOK, StreamInv, SendHead, Index
<1>1. /\ UNCHANGED <<tail, mem, w_msg, data_sent, reader>>
      /\ w_pc = "head" /\ w_pc' = "account"
      /\ head' = Advance(head, NumPages)
  BY DEF SendHead
<1>2. /\ PlaceIn = PlaceOf(head)
      /\ PlaceIn' = PlaceAfter(head)
      /\ PlaceOut' = PlaceOut
  BY <1>0, <1>1, PlaceFacts DEF PlaceIn, PlaceOut, PlaceOf, PlaceAfter, reader
<1>3. /\ head' # tail
      /\ \A i \in Index : Occupied(i)' <=> Occupied(i) \/ i = head
      /\ \A i \in Index : Occupied(i) => Advance(i, NumPages) # head'
  <2>1. head' = IF head + 1 = NumPages THEN 0 ELSE head + 1
    BY <1>0, <1>1, AdvanceWraps
  <2>2. head' # tail
    BY <1>0, <2>1 DEF IsFull, Index
  <2>3. \A i \in Index : Occupied(i)' <=> Occupied(i) \/ i = head
    BY <1>0, <1>1, <2>1 DEF Occupied, IsFull, Index
  <2>4. \A i \in Index : Occupied(i) => Advance(i, NumPages) # head'
    BY <1>0, <2>1, AdvanceWraps DEF Occupied, Index
  <2> QED BY <2>2, <2>3, <2>4
<1>4. PlaceOf(tail)' = PlaceOut'
  BY <1>1, <1>2 DEF StreamInv, PlaceOf
<1>5. ASSUME NEW i \in Index, Occupied(i)'
      PROVE  /\ mem'[i].len = PAGE
             /\ PlaceAfter(i)' = IF Advance(i, NumPages) = head'
                                   THEN PlaceIn'
                                   ELSE PlaceOf(Advance(i, NumPages))'
  <2>1. CASE i = head
    BY <1>0, <1>1, <1>2, <2>1 DEF PlaceAfter
  <2>2. CASE Occupied(i)
    BY <1>1, <1>2, <1>3, <2>2 DEF StreamInv, PlaceAfter, PlaceOf
  <2> QED BY <1>3, <1>5, <2>1, <2>2
<1>6. r_pc' = "tail" => r_page' = mem'[tail']
  BY <1>1 DEF StreamInv, reader
<1> QED BY <1>1, <1>3, <1>4, <1>5, <1>6 DEF StreamInv

(* The page that was copied out leaves its front.                          *)
LEMMA StreamTail ==
  ASSUME RingInv, StreamInv, RecvTail PROVE StreamInv'
<1>0. /\ NumPages \in Nat \ {0, 1} /\ PAGE \in Nat \ {0}
      /\ head \in Index /\ tail \in Index /\ head # tail
      /\ r_msg \in 0 .. Counters - 1
      /\ data_received \in Nat /\ data_received < SIZE
  BY RingAssumption DEF RingInv, RingTypeOK, RecvTail, Index
<1>1. /\ UNCHANGED <<head, mem, writer, r_msg, data_received, r_page>>
      /\ r_pc = "tail" /\ r_pc' = "account"
      /\ tail' = Advance(tail, NumPages)
  BY DEF RecvTail
<1>2. /\ PlaceOf(tail) = <<r_msg, data_received>>
      /\ PlaceOut' = PlaceAfter(tail)
      /\ PlaceIn' = PlaceIn
  <2>1. PlaceOf(tail) = <<r_msg, data_received>>
    BY <1>0, <1>1, PlaceFacts DEF StreamInv, PlaceOut
  <2>2. PlaceOut' = Place(r_msg, data_received + PAGE)
    BY <1>1 DEF PlaceOut
  <2> QED BY <1>1, <2>1, <2>2 DEF PlaceOf, PlaceAfter, PlaceIn, writer
<1>3. \A i \in Index : Occupied(i)' => Occupied(i)
  <2>1. tail' = IF tail + 1 = NumPages THEN 0 ELSE tail + 1
    BY <1>0, <1>1, AdvanceWraps
  <2> QED BY <1>0, <1>1, <2>1 DEF Occupied, Index
<1>4. PlaceOut' = IF tail' = head THEN PlaceIn ELSE PlaceOf(tail')
  BY <1>0, <1>1, <1>2, OccupiedRange DEF StreamInv
<1>5. /\ head' = tail' => PlaceIn' = PlaceOut'
      /\ head' # tail' => PlaceOf(tail)' = PlaceOut'
  BY <1>1, <1>2, <1>4 DEF PlaceOf
<1>6. ASSUME NEW i \in Index, Occupied(i)'
      PROVE  /\ mem'[i].len = PAGE
             /\ PlaceAfter(i)' = IF Advance(i, NumPages) = head'
                                   THEN PlaceIn'
                                   ELSE PlaceOf(Advance(i, NumPages))'
  BY <1>1, <1>2, <1>3, <1>6 DEF StreamInv, PlaceAfter, PlaceOf
<1>7. w_pc' = "head" =>
        mem'[head'] = [msg |-> w_msg', from |-> data_sent', len |-> PAGE]
  BY <1>1 DEF StreamInv, writer
<1> QED BY <1>1, <1>5, <1>6, <1>7 DEF StreamInv

(* Every access of either side keeps the stream.                           *)
LEMMA StreamStep ==
  ASSUME to_sent = PAGE, RingInv, StreamInv, [RingNext]_ring_vars
  PROVE  StreamInv'
<1> USE DEF RingInv, RingTypeOK
<1>0. PAGE \in Nat \ {0} /\ SIZE \in Nat \ {0} /\ head \in Index /\ tail \in Index
  BY RingAssumption DEF Index
<1>1. CASE UNCHANGED ring_vars
  BY <1>1, StreamFrame
  DEF ring_vars, writer, reader, StreamInv, PlaceIn, PlaceOut
<1>2. CASE SendReturn
  <2>1. PlaceIn' = PlaceIn /\ PlaceOut' = PlaceOut
    BY <1>2, PlaceFacts DEF SendReturn, reader, PlaceIn, PlaceOut
  <2> QED BY <1>2, <2>1, StreamFrame DEF SendReturn, reader, StreamInv
<1>3. CASE SendCheck
  <2>1. PlaceIn' = PlaceIn /\ PlaceOut' = PlaceOut
    BY <1>3 DEF SendCheck, reader, PlaceIn, PlaceOut
  <2> QED BY <1>3, <2>1, StreamFrame DEF SendCheck, reader, StreamInv
<1>4. CASE SendCopy
  <2>1. PlaceIn' = PlaceIn /\ PlaceOut' = PlaceOut
    BY <1>4 DEF SendCopy, reader, PlaceIn, PlaceOut
  <2>2. /\ \A i \in Index : i # head => mem'[i] = mem[i]
        /\ mem'[head] = [msg |-> w_msg, from |-> data_sent, len |-> PAGE]
    BY <1>0, <1>4 DEF SendCopy, Index
  <2>3. r_pc' = "tail" => r_page' = mem'[tail']
    BY <1>0, <1>4, <2>2 DEF SendCopy, reader, StreamInv
  <2> QED BY <1>4, <2>1, <2>2, <2>3, StreamFrame DEF SendCopy
<1>5. CASE SendAccount
  <2>1. PlaceIn' = PlaceIn /\ PlaceOut' = PlaceOut
    BY <1>5 DEF SendAccount, reader, PlaceIn, PlaceOut
  <2> QED BY <1>5, <2>1, StreamFrame DEF SendAccount, reader, StreamInv
<1>6. CASE RecvReturn
  <2>1. PlaceIn' = PlaceIn /\ PlaceOut' = PlaceOut
    BY <1>6, PlaceFacts DEF RecvReturn, writer, PlaceIn, PlaceOut
  <2> QED BY <1>6, <2>1, StreamFrame DEF RecvReturn, writer, StreamInv
<1>7. CASE RecvCheck \/ RecvCopy
  <2>1. PlaceIn' = PlaceIn /\ PlaceOut' = PlaceOut
    BY <1>7 DEF RecvCheck, RecvCopy, writer, PlaceIn, PlaceOut
  <2> QED BY <1>7, <2>1, StreamFrame
          DEF RecvCheck, RecvCopy, writer, StreamInv
<1>8. CASE RecvAccount
  <2>1. PlaceIn' = PlaceIn /\ PlaceOut' = PlaceOut
    BY <1>8, PlaceFacts
    DEF RecvAccount, to_receive, writer, PlaceIn, PlaceOut
  <2> QED BY <1>8, <2>1, StreamFrame DEF RecvAccount, writer, StreamInv
<1> QED BY <1>1, <1>2, <1>3, <1>4, <1>5, <1>6, <1>7, <1>8,
           StreamHead, StreamTail
        DEF RingNext, Send, Recv

(* Messages of two pages or more arrive whole: every piece is put where it *)
(* belongs, of the message it belongs to, also when the last page is not   *)
(* full.                                                                   *)
THEOREM RingMessageIntact ==
  ASSUME 2 * PAGE <= SIZE, SIZE < SIZE_T
  PROVE  RingSpec => []MessageIntact
<1>1. RingInit => StreamInv
  BY RingAssumption
  DEF RingInit, StreamInv, PlaceIn, PlaceOut, Occupied, Index
<1>2. RingInv /\ StreamInv /\ [RingNext]_ring_vars => StreamInv'
  BY LargeMessage, StreamStep
<1>3. RingInv /\ StreamInv => MessageIntact
  <2> SUFFICES ASSUME RingInv, StreamInv, r_pc = "tail"
               PROVE  /\ r_page.msg = r_msg
                      /\ r_page.from = data_received
                      /\ r_page.len >= to_receive
    BY DEF MessageIntact
  <2>1. /\ head \in Index /\ tail \in Index /\ head # tail
        /\ r_msg \in 0 .. Counters - 1
        /\ data_received \in Nat /\ data_received < SIZE
    BY DEF RingInv, RingTypeOK, Index
  <2>2. PlaceOf(tail) = <<r_msg, data_received>> /\ r_page = mem[tail]
    BY <2>1, PlaceFacts DEF StreamInv, PlaceOut
  <2>3. mem[tail].len = PAGE
    BY <2>1, OccupiedRange DEF StreamInv
  <2>4. to_receive \in 0 .. PAGE
    BY <2>1, ToReceiveType
  <2> QED BY <2>2, <2>3, <2>4, RingAssumption DEF PlaceOf
<1> QED BY <1>1, <1>2, <1>3, RingInvariant, PTL DEF RingSpec
=============================================================================
