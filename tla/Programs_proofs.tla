--------------------------- MODULE Programs_proofs --------------------------
(***************************************************************************)
(* What readers receive: messages that are whole, from one writer, in      *)
(* order and counted as they were sent, however processes are started and  *)
(* killed around them; for any writers, any keys in the table and any      *)
(* sizes, with one reader per channel.                                     *)
(***************************************************************************)
EXTENDS Programs, SequenceTheorems, TLAPS

(* No two readers accept the same channel.  Two that do take pages from    *)
(* each other: the code's ring has one receiver.                           *)
OneReader ==
  \A r, q \in Readers : r # q =>
    \A k : ~(Matches(k, ClientKey[r]) /\ Matches(k, ClientKey[q]))

\* r is inside a message of channel i
Inside(r, i) == c_chan[r] = i /\ recv_buf[r] # <<>>

\* pages of channel i are under way, in it or in a reader's buffer
UnderWay(i) == queue[i] # <<>> \/ \E r \in Readers : Inside(r, i)

\* a writer that has not sent anything yet
Fresh(w) == w \notin started \/ c_pc[w] \in {"flag", "wait", "failed"}

LastOf(s) == s[Len(s)]

\* a writer that may still write
Writing(w) == w \in up \/ w \notin started

TypeInv ==
  /\ ProgramsTypeOK
  /\ recv_buf \in [Readers -> Seq(Page)]
  /\ queue \in [Slots -> Seq(Page)]
  /\ owners \in Seq(Key \cup {Stray})
  /\ Len(owners) \in 0 .. IVSHMEM_MAX_CHANNELS
  /\ c_pc \in [Clients -> {"idle", "flag", "wait", "have", "failed"}]
  /\ c_chan \in [Clients -> Slots \cup {NULL}]
  /\ t_pc = "down" => Len(owners) = 0
  /\ \A r \in Readers : Len(recv_buf[r]) <= Parts

(* Where a client is and what it has.                                      *)
PlacesInv ==
  /\ \A c \in Clients :
       /\ c_pc[c] = "have" => c_chan[c] = Lookup(c) /\ Lookup(c) # NULL
       /\ c_pc[c] # "have" => c_chan[c] = NULL
       /\ c \notin up => c_pc[c] = "idle"
  /\ \A r \in Readers :
       /\ recv_buf[r] # <<>> => c_pc[r] = "have"
       /\ c_pc[r] \in {"idle", "have", "failed"}
       /\ r \notin up \/ Lookup(r) = NULL => expected_counter[r] = 0
  /\ \A w \in Writers :
       /\ w \in up => w \in started
       /\ c_pc[w] # "have" => sent[w] = 0
       /\ w \notin refused /\ Lookup(w) = NULL => counter[w] = 0
  /\ \A i \in Slots : i >= Len(owners) =>
       queue[i] = <<>> /\ i \notin torn \cup served \cup met
  /\ torn \subseteq served

(* What has been put and not yet returned of a channel, in a reader's      *)
(* buffer and in the channel, is one run of consecutive pages up to the    *)
(* one its writer puts next.                                               *)
StreamAt(i) ==
  /\ \A k \in 1 .. Len(queue[i]) - 1 : Follows(queue[i][k], queue[i][k + 1])
  /\ \A r \in Readers : Inside(r, i) =>
       /\ \A k \in 1 .. Len(recv_buf[r]) - 1 :
            Follows(recv_buf[r][k], recv_buf[r][k + 1])
       /\ queue[i] # <<>> => Follows(LastOf(recv_buf[r]), queue[i][1])
  /\ \A w \in Writers \cap up : Lookup(w) = i =>
       /\ queue[i] # <<>> => Follows(LastOf(queue[i]), ThePage(w))
       /\ \A r \in Readers : queue[i] = <<>> /\ Inside(r, i) =>
            Follows(LastOf(recv_buf[r]), ThePage(w))

(* In a channel that is not torn it starts with a message.                 *)
AlignedAt(i) ==
  /\ \A r \in Readers : Inside(r, i) =>
       \A k \in 1 .. Len(recv_buf[r]) :
         recv_buf[r][k] = [recv_buf[r][1] EXCEPT !.part = k - 1]
  /\ queue[i] # <<>> /\ (\A r \in Readers : ~Inside(r, i)) =>
       queue[i][1].part = 0
  /\ \A w \in Writers \cap up :
       Lookup(w) = i /\ ~UnderWay(i) => sent[w] \in {0, Parts}

StreamInv ==
  \A i \in Slots \ met : StreamAt(i) /\ (i \notin torn => AlignedAt(i))

(* Nothing is under way in the channel of a writer that has sent nothing.  *)
FreshInv ==
  \A w \in Writers : Lookup(w) # NULL /\ Fresh(w) /\ Lookup(w) \notin met =>
    /\ ~UnderWay(Lookup(w))
    /\ Lookup(w) \notin torn

\* the number of the message that w puts next
NextMsg(w) == counter[w] + (IF sent[w] = Parts THEN 1 ELSE 0)

\* the number of the message that r receives next
Due(r) ==
  IF recv_buf[r] # <<>> THEN {recv_buf[r][1].msg}
  ELSE IF queue[Lookup(r)] # <<>> THEN {queue[Lookup(r)][1].msg}
  ELSE {NextMsg(w) :
          w \in {v \in Writers : Writing(v) /\ Lookup(v) = Lookup(r)}}

(* The first reader of a channel counts with its writer, if that one could *)
(* send everything.                                                        *)
Counted(r) ==
  /\ Lookup(r) \notin served \cup met
  /\ \A w \in refused : Lookup(w) # Lookup(r)

CountOf(r) ==
  Lookup(r) # NULL /\ Counted(r) => \A n \in Due(r) : n = expected_counter[r]

CountInv == \A r \in Readers : CountOf(r)

(* A reader that has judged a message will judge every later one like it.  *)
Judged(r) == verdict[r] \in {"match", "mismatch"}

VerdictOf(r) ==
  Judged(r) =>
    /\ Lookup(r) # NULL
    /\ Lookup(r) \notin met =>
         \A w \in Writers : Lookup(w) = Lookup(r) => ~Fresh(w)
    /\ r \in up /\ Lookup(r) \notin torn \cup met =>
         \A n \in Due(r) : n = expected_counter[r] <=> verdict[r] = "match"

VerdictInv == \A r \in Readers : VerdictOf(r)

\* what Decrypts asks of the message layout alone
LayoutDecrypts ==
  aes_gcm_decrypt(SubSeq(send_buf, 1, IV_LEN),
                  SubSeq(send_buf, IV_LEN + 1, IV_LEN + ct_len),
                  SubSeq(send_buf, IV_LEN + ct_len + 1,
                                   IV_LEN + ct_len + TAG_LEN))

AesInv ==
  \A r \in Readers :
    aes /\ Judged(r) /\ Lookup(r) \notin met => LayoutDecrypts

ProgramsInv ==
  /\ TypeInv
  /\ PlacesInv
  /\ StreamInv
  /\ FreshInv
  /\ CountInv
  /\ VerdictInv
  /\ AesInv
  /\ MismatchExplained

-----------------------------------------------------------------------------
(* Lookups.                                                                *)

\* slot i holds the first match for client c
FoundAt(c, i) ==
  /\ i \in 0 .. Len(owners) - 1
  /\ Matches(owners[i + 1], ClientKey[c])
  /\ \A j \in 0 .. i - 1 : ~Matches(owners[j + 1], ClientKey[c])

LEMMA LookupIs ==
  ASSUME Len(owners) \in 0 .. IVSHMEM_MAX_CHANNELS, NEW c
  PROVE  /\ Lookup(c) # NULL =>
              Lookup(c) \in Slots /\ FoundAt(c, Lookup(c))
         /\ \A i : FoundAt(c, i) => Lookup(c) = i
         /\ Lookup(c) \in Slots \cup {NULL}
<1> DEFINE chans == [i \in 0 .. Len(owners) - 1 |-> [key |-> owners[i + 1]]]
           n == Len(owners)
           P(i) == FirstMatch(chans, n, ClientKey[c], i)
<1>1. n \in Nat /\ n <= IVSHMEM_MAX_CHANNELS /\ IVSHMEM_MAX_CHANNELS \in Nat
  BY SizesAssumption
<1>2. \A i \in 0 .. n - 1 : chans[i].key = owners[i + 1]
  OBVIOUS
<1>3. ASSUME NEW i PROVE P(i) <=> FoundAt(c, i)
  <2>1. i \in 0 .. n - 1 => \A j \in 0 .. i - 1 : j \in 0 .. n - 1
    BY <1>1
  <2> HIDE DEF chans
  <2> QED BY <1>2, <2>1 DEF FirstMatch, FoundAt
<1>4. \A i : P(i) => i \in Slots
  <2>1. \A i \in 0 .. n - 1 : i \in Slots
    BY <1>1 DEF Slots
  <2> QED BY <2>1 DEF FirstMatch
<1>5. Lookup(c) = IF \E i \in Slots : P(i) THEN CHOOSE i \in Slots : P(i)
                                           ELSE NULL
  BY DEF Lookup, ivshmem_find_channel
<1>6. \A i, j : FoundAt(c, i) /\ FoundAt(c, j) => i = j
  <2> SUFFICES ASSUME NEW i, NEW j, FoundAt(c, i), FoundAt(c, j), i # j
               PROVE  FALSE
    OBVIOUS
  <2>1. i \in Int /\ j \in Int /\ i \in 0 .. n - 1 /\ j \in 0 .. n - 1
    BY <1>1 DEF FoundAt
  <2>2. i \in 0 .. j - 1 \/ j \in 0 .. i - 1
    BY <1>1, <2>1
  <2> QED BY <2>2 DEF FoundAt
<1>7. NULL \notin Slots
  BY <1>1 DEF NULL, Slots
<1> HIDE DEF P
<1>8. CASE \E i \in Slots : P(i)
  <2>1. Lookup(c) \in Slots /\ P(Lookup(c))
    BY <1>5, <1>8
  <2> QED BY <1>3, <1>6, <2>1
<1>9. CASE ~(\E i \in Slots : P(i))
  BY <1>3, <1>4, <1>5, <1>7, <1>9
<1> QED BY <1>8, <1>9

\* Writers have channels of their own.
LEMMA WriterAlone ==
  ASSUME Len(owners) \in 0 .. IVSHMEM_MAX_CHANNELS,
         NEW v \in Writers, NEW w \in Writers,
         Lookup(v) = Lookup(w), Lookup(w) # NULL
  PROVE  v = w
<1> DEFINE k == owners[Lookup(w) + 1]
<1>1. Matches(k, ClientKey[v]) /\ Matches(k, ClientKey[w])
  BY LookupIs DEF FoundAt
<1>2. /\ ClientKey[v] \in Key /\ ClientKey[w] \in Key
      /\ ClientKey[v].sender_pid # 0 /\ ClientKey[w].sender_pid # 0
      /\ ClientKey[v] = ClientKey[w] => v = w
  BY ProcessesAssumption DEF Clients
<1> HIDE DEF k
<1>3. /\ ClientKey[v].sender_vm = ClientKey[w].sender_vm
      /\ ClientKey[v].sender_pid = ClientKey[w].sender_pid
      /\ ClientKey[v].receiver_vm = ClientKey[w].receiver_vm
  BY <1>1, <1>2 DEF Matches
<1>4. ClientKey[v] = ClientKey[w]
  BY <1>2, <1>3 DEF Key
<1> QED BY <1>2, <1>4

\* So have readers.
LEMMA ReaderAlone ==
  ASSUME OneReader, Len(owners) \in 0 .. IVSHMEM_MAX_CHANNELS,
         NEW r \in Readers, NEW q \in Readers,
         Lookup(r) = Lookup(q), Lookup(q) # NULL
  PROVE  r = q
BY LookupIs DEF FoundAt, OneReader

\* What a lookup found it finds again, and a new channel is found by those
\* who had none.
LEMMA LookupStays ==
  ASSUME Len(owners) \in 0 .. IVSHMEM_MAX_CHANNELS,
         Len(owners') \in 0 .. IVSHMEM_MAX_CHANNELS,
         \/ owners' = owners
         \/ /\ Len(owners') = Len(owners) + 1
            /\ \A i \in 1 .. Len(owners) : owners'[i] = owners[i],
         NEW c
  PROVE  /\ Lookup(c) # NULL => Lookup(c)' = Lookup(c)
         /\ Lookup(c) = NULL => Lookup(c)' \in {NULL, Len(owners)}
         /\ owners' = owners => Lookup(c)' = Lookup(c)
<1>1. CASE owners' = owners
  BY <1>1 DEF Lookup
<1>2. CASE /\ Len(owners') = Len(owners) + 1
           /\ \A i \in 1 .. Len(owners) : owners'[i] = owners[i]
  <2>1. ASSUME NEW i, i \in 0 .. Len(owners) - 1
        PROVE  FoundAt(c, i) <=> FoundAt(c, i)'
    <3>1. /\ i \in 0 .. Len(owners') - 1 /\ i + 1 \in 1 .. Len(owners)
          /\ \A j \in 0 .. i - 1 : j + 1 \in 1 .. Len(owners)
      BY <1>2, <2>1
    <3> QED BY <1>2, <2>1, <3>1 DEF FoundAt
  <2>2. \A i : FoundAt(c, i)' => Lookup(c)' = i
    <3>1. Len(owners') \in 0 .. IVSHMEM_MAX_CHANNELS
      OBVIOUS
    <3>2. (Len(owners) \in 0 .. IVSHMEM_MAX_CHANNELS =>
             \A i : FoundAt(c, i) => Lookup(c) = i)'
      BY LookupIs, PTL
    <3> QED BY <3>1, <3>2
  <2>3. Lookup(c)' # NULL => FoundAt(c, Lookup(c))'
    <3>1. (Len(owners) \in 0 .. IVSHMEM_MAX_CHANNELS =>
             (Lookup(c) # NULL => FoundAt(c, Lookup(c))))'
      BY LookupIs, PTL
    <3> QED BY <3>1
  <2>4. CASE Lookup(c) # NULL
    <3>1. FoundAt(c, Lookup(c)) /\ Lookup(c) \in 0 .. Len(owners) - 1
      BY <2>4, LookupIs DEF FoundAt
    <3> QED BY <1>2, <2>1, <2>2, <2>4, <3>1
  <2>5. CASE Lookup(c) = NULL /\ Lookup(c)' # NULL
    <3> DEFINE l == Lookup(c)'
    <3>1. /\ l \in 0 .. Len(owners') - 1
          /\ Matches(owners'[l + 1], ClientKey[c])
          /\ \A j \in 0 .. l - 1 : ~Matches(owners'[j + 1], ClientKey[c])
      BY <2>3, <2>5 DEF FoundAt
    <3>2. l \in 0 .. Len(owners)
      BY <1>2, <3>1
    <3>3. l \notin 0 .. Len(owners) - 1
      <4> SUFFICES ASSUME l \in 0 .. Len(owners) - 1 PROVE FALSE
        OBVIOUS
      <4>1. /\ l + 1 \in 1 .. Len(owners)
            /\ \A j \in 0 .. l - 1 : j + 1 \in 1 .. Len(owners)
        OBVIOUS
      <4> HIDE DEF l
      <4>2. FoundAt(c, l)
        BY <1>2, <3>1, <4>1 DEF FoundAt
      <4>3. Lookup(c) = l
        BY <4>2, LookupIs
      <4> QED BY <2>5, <4>3 DEF l
    <3> QED BY <1>2, <2>5, <3>2, <3>3
  <2> QED BY <1>2, <2>4, <2>5
<1> QED BY <1>1, <1>2

-----------------------------------------------------------------------------
(* What a step that does not concern a channel leaves as it is.            *)

LEMMA LastIn ==
  ASSUME NEW S, NEW s \in Seq(S), s # <<>>
  PROVE  Len(s) \in 1 .. Len(s) /\ Len(s) \in Nat \ {0} /\ LastOf(s) \in S
BY DEF LastOf

LEMMA StreamKept ==
  ASSUME TypeInv, NEW i \in Slots, StreamAt(i), queue'[i] = queue[i],
         \A r \in Readers : Inside(r, i)' <=> Inside(r, i),
         \A r \in Readers : Inside(r, i) => recv_buf'[r] = recv_buf[r],
         \A w \in Writers \cap up' : Lookup(w)' = i =>
           \/ /\ w \in up /\ Lookup(w) = i
              /\ counter'[w] = counter[w] /\ sent'[w] = sent[w]
           \/ ~UnderWay(i) /\ sent'[w] \in {0, Parts}
           \/ /\ w \in up /\ Lookup(w) = i /\ sent'[w] \in {0, Parts}
              /\ \A p \in Page :
                   Follows(p, ThePage(w)) => Follows(p, ThePage(w)')
  PROVE  StreamAt(i)' /\ (AlignedAt(i) => AlignedAt(i)')
<1>1. \A k \in 1 .. Len(queue'[i]) - 1 :
        Follows(queue'[i][k], queue'[i][k + 1])
  BY DEF StreamAt
<1>2. ASSUME NEW r \in Readers, Inside(r, i)'
      PROVE  /\ \A k \in 1 .. Len(recv_buf'[r]) - 1 :
                  Follows(recv_buf'[r][k], recv_buf'[r][k + 1])
             /\ queue'[i] # <<>> => Follows(LastOf(recv_buf'[r]), queue'[i][1])
  BY <1>2 DEF StreamAt
<1>3. UnderWay(i)' <=> UnderWay(i)
  BY DEF UnderWay
<1>4. \A r \in Readers : recv_buf[r] # <<>> => LastOf(recv_buf[r]) \in Page
  BY LastIn DEF TypeInv
<1>5. ASSUME NEW w \in Writers \cap up', Lookup(w)' = i
      PROVE  /\ queue'[i] # <<>> => Follows(LastOf(queue'[i]), ThePage(w)')
             /\ \A r \in Readers : queue'[i] = <<>> /\ Inside(r, i)' =>
                  Follows(LastOf(recv_buf'[r]), ThePage(w)')
  <2>1. CASE ~UnderWay(i)
    BY <2>1 DEF UnderWay
  <2>2. CASE w \in up /\ Lookup(w) = i
    <3>1. /\ queue[i] # <<>> => Follows(LastOf(queue[i]), ThePage(w))
          /\ \A r \in Readers : queue[i] = <<>> /\ Inside(r, i) =>
               Follows(LastOf(recv_buf[r]), ThePage(w))
      BY <2>2 DEF StreamAt
    <3>2. CASE counter'[w] = counter[w] /\ sent'[w] = sent[w]
      <4>1. ThePage(w)' = ThePage(w)
        BY <3>2 DEF ThePage
      <4> QED BY <3>1, <4>1
    <3>3. CASE \A p \in Page :
                 Follows(p, ThePage(w)) => Follows(p, ThePage(w)')
      <4>1. queue[i] # <<>> => LastOf(queue[i]) \in Page
        BY LastIn DEF TypeInv
      <4> QED BY <1>4, <3>1, <3>3, <4>1 DEF Inside
    <3>4. CASE ~UnderWay(i)
      BY <2>1, <3>4
    <3> QED BY <1>5, <3>2, <3>3, <3>4
  <2> QED BY <1>5, <2>1, <2>2
<1>6. StreamAt(i)'
  BY <1>1, <1>2, <1>5 DEF StreamAt, LastOf, Follows
<1>7. ASSUME AlignedAt(i) PROVE AlignedAt(i)'
  <2>1. ASSUME NEW w \in Writers \cap up', Lookup(w)' = i, ~UnderWay(i)
        PROVE  sent'[w] \in {0, Parts}
    <3>1. w \in up /\ Lookup(w) = i => sent[w] \in {0, Parts}
      BY <1>7, <2>1 DEF AlignedAt
    <3> QED BY <2>1, <3>1
  <2>2. ASSUME NEW r \in Readers, Inside(r, i)'
        PROVE  \A k \in 1 .. Len(recv_buf'[r]) :
                 recv_buf'[r][k] = [recv_buf'[r][1] EXCEPT !.part = k - 1]
    BY <1>7, <2>2 DEF AlignedAt
  <2>3. queue'[i] # <<>> /\ (\A r \in Readers : ~Inside(r, i)') =>
          queue'[i][1].part = 0
    BY <1>7 DEF AlignedAt
  <2> QED BY <1>3, <2>1, <2>2, <2>3 DEF AlignedAt
<1> QED BY <1>6, <1>7

LEMMA DueKept ==
  ASSUME NEW r \in Readers, Lookup(r)' = Lookup(r),
         recv_buf'[r] = recv_buf[r],
         queue'[Lookup(r)] = queue[Lookup(r)],
         \A w \in Writers : Writing(w)' /\ Lookup(w)' = Lookup(r) =>
           /\ Writing(w) /\ Lookup(w) = Lookup(r)
           /\ NextMsg(w)' = NextMsg(w)
  PROVE  Due(r)' \subseteq Due(r)
<1>1. CASE recv_buf[r] # <<>>
  BY <1>1 DEF Due
<1>2. CASE recv_buf[r] = <<>> /\ queue[Lookup(r)] # <<>>
  BY <1>2 DEF Due
<1>3. CASE recv_buf[r] = <<>> /\ queue[Lookup(r)] = <<>>
  <2>1. Due(r) = {NextMsg(w) :
          w \in {v \in Writers : Writing(v) /\ Lookup(v) = Lookup(r)}}
    BY <1>3 DEF Due
  <2>2. Due(r)' = {NextMsg(w)' :
          w \in {v \in Writers : Writing(v)' /\ Lookup(v)' = Lookup(r)}}
    BY <1>3 DEF Due
  <2> QED BY <2>1, <2>2
<1> QED BY <1>1, <1>2, <1>3

\* The counts of a reader whose own step this is not.
LEMMA CountsKept ==
  ASSUME ProgramsInv, NEW r \in Readers, Lookup(r)' = Lookup(r),
         expected_counter'[r] = expected_counter[r], verdict'[r] = verdict[r],
         r \in up' => r \in up,
         torn \subseteq torn', served \subseteq served', met \subseteq met',
         \A w \in refused : w \in refused' /\ (Lookup(r) # NULL =>
           (Lookup(w) = Lookup(r) => Lookup(w)' = Lookup(r))),
         \A w \in Writers : Lookup(r) # NULL /\ Lookup(w)' = Lookup(r) =>
           Lookup(w) = Lookup(r) /\ (Fresh(w)' => Fresh(w)),
         (/\ Lookup(r) # NULL /\ Lookup(r) \notin torn \cup met'
          /\ Counted(r)' \/ (Judged(r) /\ r \in up'))
           => Due(r)' \subseteq Due(r)
  PROVE  CountOf(r)' /\ VerdictOf(r)'
<1>1. CountOf(r) /\ VerdictOf(r) /\ torn \subseteq served
  BY DEF ProgramsInv, CountInv, VerdictInv, PlacesInv
<1>2. Lookup(r) # NULL /\ Counted(r)' =>
        Counted(r) /\ Lookup(r) \notin torn \cup met'
  BY <1>1 DEF Counted
<1>3. CountOf(r)'
  BY <1>1, <1>2 DEF CountOf
<1>4. VerdictOf(r)'
  <2> SUFFICES ASSUME Judged(r)
               PROVE  /\ Lookup(r) # NULL
                      /\ Lookup(r) \notin met' =>
                           \A w \in Writers :
                             Lookup(w)' = Lookup(r) => ~Fresh(w)'
                      /\ r \in up' /\ Lookup(r) \notin torn' \cup met' =>
                           \A n \in Due(r)' :
                             n = expected_counter[r] <=> verdict[r] = "match"
    BY DEF VerdictOf, Judged
  <2>1. /\ Lookup(r) # NULL
        /\ Lookup(r) \notin met =>
             \A w \in Writers : Lookup(w) = Lookup(r) => ~Fresh(w)
        /\ r \in up /\ Lookup(r) \notin torn \cup met =>
             \A n \in Due(r) :
               n = expected_counter[r] <=> verdict[r] = "match"
    BY <1>1 DEF VerdictOf
  <2> QED BY <2>1
<1> QED BY <1>3, <1>4

\* The reasons for a mismatch stay, and so does what decrypts.
LEMMA ReasonsKept ==
  ASSUME ProgramsInv, served \subseteq served', met \subseteq met',
         refused \subseteq refused', aes' = aes,
         \A c : Lookup(c) # NULL => Lookup(c)' = Lookup(c),
         \A r \in Readers : Judged(r)' => verdict'[r] = verdict[r]
  PROVE  MismatchExplained' /\ AesInv'
<1>1. \A r \in Readers : Judged(r)' =>
        /\ Judged(r) /\ verdict'[r] = verdict[r]
        /\ Lookup(r) # NULL /\ Lookup(r)' = Lookup(r)
  BY DEF Judged, ProgramsInv, VerdictInv, VerdictOf
<1>2. MismatchExplained'
  <2> SUFFICES ASSUME NEW r \in Readers, verdict'[r] = "mismatch"
               PROVE  \/ Lookup(r)' \in served' \cup met'
                      \/ \E w \in refused' : Lookup(w)' = Lookup(r)'
    BY DEF MismatchExplained
  <2>1. /\ verdict[r] = "mismatch"
        /\ Lookup(r) # NULL /\ Lookup(r)' = Lookup(r)
    BY <1>1 DEF Judged
  <2>2. \/ Lookup(r) \in served \cup met
        \/ \E w \in refused : Lookup(w) = Lookup(r)
    BY <2>1 DEF ProgramsInv, MismatchExplained
  <2> QED BY <2>1, <2>2
<1>3. AesInv'
  <2>1. LayoutDecrypts' <=> LayoutDecrypts
    BY DEF LayoutDecrypts, aes_gcm_decrypt, send_buf, ct_len, Bytes
  <2> QED BY <1>1, <2>1 DEF ProgramsInv, AesInv
<1> QED BY <1>2, <1>3

-----------------------------------------------------------------------------
(* The first state, and the steps of the host.                             *)

LEMMA ProgramsInvInit == ProgramsInit => ProgramsInv
<1> SUFFICES ASSUME ProgramsInit PROVE ProgramsInv
  OBVIOUS
<1> USE DEF ProgramsInit, TableInit
<1>1. Len(owners) = 0 /\ owners \in Seq(Key \cup {Stray})
  OBVIOUS
<1>2. \A c : Lookup(c) = NULL
  <2>1. Len(owners) \in 0 .. IVSHMEM_MAX_CHANNELS
    BY <1>1, SizesAssumption
  <2>2. \A c : ~FoundAt(c, Lookup(c))
    BY <1>1 DEF FoundAt
  <2> QED BY <2>1, <2>2, LookupIs
<1>3. \A i \in Slots : Len(queue[i]) = 0
  OBVIOUS
<1>4. TypeInv
  BY <1>1, SizesAssumption, ProgramsAssumption
     DEF TypeInv, ProgramsTypeOK, Clients
<1>5. PlacesInv
  BY <1>2 DEF PlacesInv, Clients
<1>6. StreamInv
  BY <1>2, <1>3 DEF StreamInv, StreamAt, AlignedAt, Inside
<1>7. CountInv /\ VerdictInv
  BY <1>2 DEF CountInv, CountOf, VerdictInv, VerdictOf, Judged
<1> QED BY <1>2, <1>4, <1>5, <1>6, <1>7
        DEF ProgramsInv, FreshInv, AesInv, Judged, MismatchExplained

\* Steps that the programs do not see, those of a request, and the move of
\* buffers: it leaves the other channels alone.
LEMMA QuietStep ==
  ASSUME ProgramsInv,
         UNCHANGED <<owners, c_chan, processes, writers, readers>>,
         (queue' = queue /\ met' = met) \/ MoveBuffers,
         balanced' \in BOOLEAN,
         \/ c_pc' = c_pc
         \/ \E w \in Writers :
              c_pc[w] = "flag" /\ c_pc' = [c_pc EXCEPT ![w] = "wait"],
         t_pc' = "down" => Len(owners) = 0
  PROVE  ProgramsInv'
<1>1. /\ owners' = owners /\ c_chan' = c_chan
      /\ aes' = aes /\ up' = up /\ started' = started
      /\ counter' = counter /\ sent' = sent /\ refused' = refused
      /\ expected_counter' = expected_counter /\ recv_buf' = recv_buf
      /\ verdict' = verdict /\ served' = served /\ torn' = torn
  BY DEF processes, writers, readers
<1>2. \A c : Lookup(c)' = Lookup(c)
  BY <1>1 DEF Lookup
<1>3. /\ c_pc' \in [Clients -> {"idle", "flag", "wait", "have", "failed"}]
      /\ \A c \in Clients :
           \/ c_pc'[c] = c_pc[c]
           \/ c \in Writers /\ c_pc[c] = "flag" /\ c_pc'[c] = "wait"
  <2>1. c_pc \in [Clients -> {"idle", "flag", "wait", "have", "failed"}]
    BY DEF ProgramsInv, TypeInv
  <2> QED BY <2>1
<1>4. /\ met \subseteq met' /\ met' \subseteq Slots
      /\ queue' \in [Slots -> Seq(Page)]
      /\ \A i \in Slots : /\ queue'[i] \in {queue[i], <<>>}
                          /\ i \notin met' => queue'[i] = queue[i]
                          /\ i >= Len(owners) => i \notin met'
  <2>1. /\ met \subseteq Slots /\ queue \in [Slots -> Seq(Page)]
        /\ \A i \in Slots : i >= Len(owners) => queue[i] = <<>> /\ i \notin met
    BY DEF ProgramsInv, TypeInv, ProgramsTypeOK, PlacesInv
  <2>2. CASE queue' = queue /\ met' = met
    BY <2>1, <2>2
  <2>3. CASE MoveBuffers
    <3>1. PICK past \in SUBSET Polled :
            /\ met' = met \cup past \cup {i \in Slots : queue[i] # <<>>}
            /\ queue' = [i \in Slots |-> IF i \in met' THEN <<>> ELSE queue[i]]
      BY <2>3 DEF MoveBuffers
    <3>2. ASSUME NEW i \in Polled PROVE i \in Slots /\ i < Len(owners)
      <4>1. PICK c \in Clients : c_pc[c] = "have" /\ i = c_chan[c]
        BY DEF Polled
      <4>2. i = Lookup(c) /\ Lookup(c) # NULL
        BY <4>1 DEF ProgramsInv, PlacesInv
      <4> QED BY <4>2, LookupIs DEF FoundAt, ProgramsInv, TypeInv
    <3>3. \A i \in Slots : i >= Len(owners) => i \notin Polled
      BY <3>2 DEF Slots, ProgramsInv, TypeInv
    <3> QED BY <2>1, <3>1, <3>2, <3>3
  <2> QED BY <2>2, <2>3
<1>5. TypeInv'
  <2>1. \A i \in Slots : Len(queue'[i]) <= Capacity
    BY <1>4, ProgramsAssumption DEF ProgramsInv, TypeInv, ProgramsTypeOK
  <2> QED BY <1>1, <1>3, <1>4, <2>1 DEF ProgramsInv, TypeInv, ProgramsTypeOK
<1>6. PlacesInv'
  <2>1. \A r \in Readers : c_pc'[r] = c_pc[r]
    BY <1>3, ProcessesAssumption DEF Clients
  <2>2. \A c \in Clients : c_pc'[c] = "have" <=> c_pc[c] = "have"
    BY <1>3
  <2>3. \A c \in Clients : c_pc[c] = "idle" => c_pc'[c] = "idle"
    BY <1>3
  <2>4. \A i \in Slots : i >= Len(owners) =>
          queue'[i] = <<>> /\ i \notin torn \cup served \cup met'
    BY <1>4 DEF ProgramsInv, PlacesInv
  <2> QED BY <1>1, <1>2, <2>1, <2>2, <2>3, <2>4
          DEF ProgramsInv, PlacesInv, Clients
<1>7. \A i \in Slots : i \notin met' => (UnderWay(i)' <=> UnderWay(i))
  BY <1>1, <1>4 DEF UnderWay, Inside
<1>8. \A w \in Writers : Fresh(w)' <=> Fresh(w)
  BY <1>1, <1>3 DEF Fresh, Clients
<1>9. StreamInv'
  <2> SUFFICES ASSUME NEW i \in Slots \ met'
               PROVE  StreamAt(i)' /\ (i \notin torn => AlignedAt(i)')
    BY <1>1 DEF StreamInv
  <2>1. StreamAt(i) /\ (i \notin torn => AlignedAt(i)) /\ queue'[i] = queue[i]
    BY <1>4 DEF ProgramsInv, StreamInv
  <2> QED BY <1>1, <1>2, <2>1, StreamKept DEF Inside, ProgramsInv
<1>10. FreshInv'
  <2> SUFFICES ASSUME NEW w \in Writers, Lookup(w) # NULL, Fresh(w),
                      Lookup(w) \notin met'
               PROVE  ~UnderWay(Lookup(w))' /\ Lookup(w) \notin torn
    BY <1>1, <1>2, <1>8 DEF FreshInv, UnderWay, Inside
  <2>1. Lookup(w) \in Slots
    BY LookupIs DEF ProgramsInv, TypeInv
  <2>2. ~UnderWay(Lookup(w)) /\ Lookup(w) \notin torn
    BY <1>4 DEF ProgramsInv, FreshInv
  <2>3. UnderWay(Lookup(w))' <=> UnderWay(Lookup(w))
    <3>1. queue'[Lookup(w)] = queue[Lookup(w)]
      BY <1>4, <2>1
    <3> QED BY <1>1, <1>2, <3>1 DEF UnderWay, Inside
  <2> QED BY <2>2, <2>3
<1>11. AesInv' /\ MismatchExplained'
  BY <1>1, <1>2, <1>4, ReasonsKept
<1>12. ASSUME NEW r \in Readers PROVE CountOf(r)' /\ VerdictOf(r)'
  <2>1. ASSUME Lookup(r) # NULL, Lookup(r) \notin met'
        PROVE  Due(r)' \subseteq Due(r)
    <3>1. Lookup(r) \in Slots
      BY <2>1, LookupIs DEF ProgramsInv, TypeInv
    <3> QED BY <1>1, <1>2, <1>4, <2>1, <3>1, DueKept DEF Writing, NextMsg
  <2> QED BY <1>1, <1>2, <1>4, <1>8, <2>1, CountsKept
<1> QED BY <1>5, <1>6, <1>9, <1>10, <1>11, <1>12
        DEF ProgramsInv, CountInv, VerdictInv

\* A channel is made, for whatever key.
LEMMA CreateStep ==
  ASSUME ProgramsInv, Len(owners) < IVSHMEM_MAX_CHANNELS,
         NEW k \in Key \cup {Stray}, owners' = Append(owners, k),
         UNCHANGED <<c_pc, c_chan, processes, writers, readers, queue, met>>,
         balanced' \in BOOLEAN, t_pc' # "down"
  PROVE  ProgramsInv'
<1>1. /\ c_pc' = c_pc /\ c_chan' = c_chan
      /\ aes' = aes /\ up' = up /\ started' = started
      /\ counter' = counter /\ sent' = sent /\ refused' = refused
      /\ expected_counter' = expected_counter /\ recv_buf' = recv_buf
      /\ verdict' = verdict /\ served' = served /\ torn' = torn
      /\ queue' = queue /\ met' = met
  BY DEF processes, writers, readers
<1> DEFINE new == Len(owners)
<1>2. /\ new \in Nat /\ new \in Slots
      /\ Len(owners') = new + 1 /\ Len(owners') \in 0 .. IVSHMEM_MAX_CHANNELS
      /\ owners' \in Seq(Key \cup {Stray})
      /\ \A i \in 1 .. Len(owners) : owners'[i] = owners[i]
  BY SizesAssumption DEF ProgramsInv, TypeInv, Slots
<1> HIDE DEF new
<1>3. \A c : /\ Lookup(c) # NULL => Lookup(c)' = Lookup(c)
             /\ Lookup(c) = NULL => Lookup(c)' \in {NULL, new}
             /\ Lookup(c) # NULL => Lookup(c) # new
             /\ Lookup(c) \in Slots \cup {NULL}
  <2>1. Len(owners) \in 0 .. IVSHMEM_MAX_CHANNELS
    BY DEF ProgramsInv, TypeInv
  <2>2. \A c : FoundAt(c, Lookup(c)) => Lookup(c) # new
    BY <1>2 DEF FoundAt, new
  <2> QED BY <1>2, <2>1, <2>2, LookupStays, LookupIs DEF new
<1>4. TypeInv'
  BY <1>1, <1>2 DEF ProgramsInv, TypeInv, ProgramsTypeOK
<1>5. /\ queue[new] = <<>> /\ new \notin torn \cup served \cup met
      /\ \A r \in Readers : ~Inside(r, new)
  <2>1. queue[new] = <<>> /\ new \notin torn \cup served \cup met
    BY <1>2 DEF ProgramsInv, PlacesInv, new
  <2>2. ASSUME NEW r \in Readers, Inside(r, new) PROVE FALSE
    <3>1. c_pc[r] = "have" /\ c_chan[r] = new
      BY <2>2 DEF ProgramsInv, PlacesInv, Inside
    <3>2. Lookup(r) = new /\ Lookup(r) # NULL
      BY <3>1 DEF ProgramsInv, PlacesInv, Clients
    <3> QED BY <1>3, <3>2
  <2> QED BY <2>1, <2>2
<1>6. PlacesInv'
  <2>1. \A i \in Slots : i >= Len(owners') => i >= Len(owners)
    BY <1>2 DEF Slots, new
  <2> QED BY <1>1, <1>3, <2>1 DEF ProgramsInv, PlacesInv, Clients
<1>7. \A i : UnderWay(i)' <=> UnderWay(i)
  BY <1>1 DEF UnderWay, Inside
<1>8. \A w \in Writers : Fresh(w)' <=> Fresh(w)
  BY <1>1 DEF Fresh
<1>9. ~UnderWay(new)
  BY <1>5 DEF UnderWay
<1>10. \A w \in Writers : Lookup(w) = NULL => sent[w] = 0
  BY DEF ProgramsInv, PlacesInv, Clients
<1>11. StreamInv'
  <2> SUFFICES ASSUME NEW i \in Slots \ met
               PROVE  StreamAt(i)' /\ (i \notin torn => AlignedAt(i)')
    BY <1>1 DEF StreamInv
  <2>1. StreamAt(i) /\ (i \notin torn => AlignedAt(i))
    BY DEF ProgramsInv, StreamInv
  <2>2. ASSUME NEW w \in Writers \cap up', Lookup(w)' = i
        PROVE  \/ /\ w \in up /\ Lookup(w) = i
                  /\ counter'[w] = counter[w] /\ sent'[w] = sent[w]
               \/ ~UnderWay(i) /\ sent'[w] \in {0, Parts}
    <3>1. i # NULL
      BY SizesAssumption DEF Slots, NULL
    <3>2. CASE Lookup(w) # NULL
      BY <1>1, <1>3, <2>2, <3>2
    <3>3. CASE Lookup(w) = NULL
      BY <1>1, <1>3, <1>9, <1>10, <2>2, <3>1, <3>3
    <3> QED BY <3>2, <3>3
  <2> QED BY <1>1, <2>1, <2>2, StreamKept DEF Inside, ProgramsInv
<1>12. FreshInv'
  BY <1>1, <1>3, <1>5, <1>7, <1>8, <1>9 DEF ProgramsInv, FreshInv
<1>14. AesInv' /\ MismatchExplained'
  BY <1>1, <1>3, ReasonsKept
<1>15. ASSUME NEW r \in Readers, Lookup(r)' = Lookup(r)
       PROVE  CountOf(r)' /\ VerdictOf(r)'
  <2>1. CASE Lookup(r) = NULL
    BY <1>1, <1>15, <2>1
    DEF ProgramsInv, CountOf, VerdictInv, VerdictOf, Judged
  <2>2. CASE Lookup(r) # NULL
    <3>1. \A w \in Writers : Lookup(w)' = Lookup(r) => Lookup(w) = Lookup(r)
      BY <1>3, <2>2
    <3>2. Due(r)' \subseteq Due(r)
      BY <1>1, <1>15, <3>1, DueKept DEF Writing, NextMsg
    <3>3. \A w \in refused : Lookup(w) = Lookup(r) => Lookup(w)' = Lookup(r)
      BY <1>3, <2>2
    <3> QED BY <1>1, <1>8, <1>15, <3>1, <3>2, <3>3, CountsKept
  <2> QED BY <2>1, <2>2
<1>16. ASSUME NEW r \in Readers, Lookup(r)' # Lookup(r)
       PROVE  CountOf(r)' /\ VerdictOf(r)'
  <2>1. Lookup(r) = NULL /\ Lookup(r)' = new
    BY <1>3, <1>16
  <2>2. ~Judged(r)
    BY <2>1 DEF ProgramsInv, VerdictInv, VerdictOf
  <2>3. VerdictOf(r)'
    BY <1>1, <2>2 DEF VerdictOf, Judged
  <2>4. recv_buf[r] = <<>> /\ expected_counter[r] = 0
    BY <2>1 DEF ProgramsInv, PlacesInv, Clients
  <2>5. ASSUME Counted(r)', NEW n \in Due(r)' PROVE n = expected_counter[r]
    <3>1. PICK w \in Writers : n = NextMsg(w)' /\ Lookup(w)' = new
      BY <1>1, <1>5, <2>1, <2>4, <2>5 DEF Due
    <3>2. Lookup(w) = NULL /\ w \notin refused
      BY <1>1, <1>3, <2>1, <2>5, <3>1 DEF Counted
    <3>3. counter[w] = 0 /\ sent[w] = 0
      BY <1>10, <3>2 DEF ProgramsInv, PlacesInv
    <3> QED BY <1>1, <2>4, <3>1, <3>3, ProgramsAssumption DEF NextMsg
  <2>6. CountOf(r)'
    BY <1>1, <2>5 DEF CountOf
  <2> QED BY <2>3, <2>6
<1> QED BY <1>4, <1>6, <1>11, <1>12, <1>14, <1>15, <1>16
        DEF ProgramsInv, CountInv, VerdictInv

LEMMA HostStep ==
  ASSUME ProgramsInv, Hosting
  PROVE  ProgramsInv'
<1>1. CASE TrustedStart /\ UNCHANGED program_vars
  <2>1. owners' = owners
    BY <1>1 DEF TrustedStart, ProgramsInv, TypeInv
  <2> QED BY <1>1, <2>1, QuietStep
          DEF TrustedStart, program_vars, moves, ProgramsInv, TypeInv,
              ProgramsTypeOK
<1>2. CASE /\ RebalanceBegin \/ ControlLock \/ ControlClear \/ ControlUnlock
           /\ UNCHANGED program_vars
  BY <1>2, QuietStep
  DEF RebalanceBegin, ControlLock, ControlClear, ControlUnlock,
      program_vars, moves, ProgramsInv, TypeInv, ProgramsTypeOK
<1>3. CASE RebalanceEnds
  BY <1>3, QuietStep DEF RebalanceEnds, RebalanceEnd
<1>4. CASE ChannelCreated
  <2>1. /\ ControlCreate(started)
        /\ UNCHANGED <<processes, writers, readers, queue, met>>
        /\ balanced' \in BOOLEAN /\ started \subseteq Writers
    BY <1>4 DEF ChannelCreated, ProgramsInv, TypeInv, ProgramsTypeOK
  <2>2. CASE UNCHANGED owners
    BY <2>1, <2>2, QuietStep DEF ControlCreate
  <2>3. CASE /\ Len(owners) < IVSHMEM_MAX_CHANNELS
             /\ \E k \in Readable(started) : owners' = Append(owners, k)
    <3>1. PICK key \in Readable(started) : owners' = Append(owners, key)
      BY <2>3
    <3>2. \A w \in started : ClientKey[w] \in Key
      BY <2>1, ProcessesAssumption DEF Clients
    <3>3. NoKey \in Key
      BY DEF NoKey, Key
    <3> DEFINE stored == {ClientKey[w] : w \in started} \cup {NoKey}
               Mixed(a, b) == Owner([a EXCEPT !.receiver_vm = b.receiver_vm])
    <3>4. Readable(started) = {Mixed(k, l) : k, l \in stored}
      BY DEF Readable
    <3> HIDE DEF Mixed, stored
    <3>5. \A x \in {Mixed(k, l) : k, l \in stored} :
            \E a \in stored : \E b \in stored : x = Mixed(a, b)
      OBVIOUS
    <3>6. PICK a \in stored, b \in stored : key = Mixed(a, b)
      BY <3>1, <3>4, <3>5
    <3>7. a \in Key /\ b \in Key
      BY <3>2, <3>3 DEF stored
    <3>8. [a EXCEPT !.receiver_vm = b.receiver_vm] \in Key
      BY <3>7 DEF Key
    <3>9. key \in Key \cup {Stray}
      BY <3>6, <3>8 DEF Owner, Mixed
    <3> QED BY <2>1, <2>3, <3>1, <3>9, CreateStep DEF ControlCreate
  <2> QED BY <2>1, <2>2, <2>3 DEF ControlCreate
<1> QED BY <1>1, <1>2, <1>3, <1>4 DEF Hosting

LEMMA RaiseFlagStep ==
  ASSUME ProgramsInv, NEW w \in Writers, RaiseFlag(w),
         UNCHANGED program_vars
  PROVE  ProgramsInv'
BY QuietStep DEF RaiseFlag, ProgramsInv, TypeInv, ProgramsTypeOK,
                 program_vars, moves

-----------------------------------------------------------------------------
(* Lookups, starts and ends of the programs.                               *)

\* A client has a channel, or goes on without one.
LEMMA FoundStep ==
  ASSUME ProgramsInv, NEW c \in Clients,
         NEW o \in {"flag", "failed"}, c \in Readers => o = "failed",
         c \in up, c_pc[c] # "have",
         Found(c, o), UNCHANGED program_vars
  PROVE  ProgramsInv'
<1>1. /\ owners' = owners /\ t_pc' = t_pc
      /\ aes' = aes /\ up' = up /\ started' = started
      /\ counter' = counter /\ sent' = sent /\ refused' = refused
      /\ expected_counter' = expected_counter /\ recv_buf' = recv_buf
      /\ verdict' = verdict /\ served' = served /\ torn' = torn
      /\ queue' = queue /\ balanced' = balanced /\ met' = met
  BY DEF Found, program_vars, processes, writers, readers, moves
<1>2. \A d : Lookup(d)' = Lookup(d)
  BY <1>1 DEF Lookup
<1>3. /\ c_pc' \in [Clients -> {"idle", "flag", "wait", "have", "failed"}]
      /\ c_chan' \in [Clients -> Slots \cup {NULL}]
      /\ c_pc'[c] = IF Lookup(c) # NULL THEN "have" ELSE o
      /\ c_chan'[c] = Lookup(c)
      /\ \A d \in Clients \ {c} :
           c_pc'[d] = c_pc[d] /\ c_chan'[d] = c_chan[d]
  <2>1. /\ c_pc \in [Clients -> {"idle", "flag", "wait", "have", "failed"}]
        /\ c_chan \in [Clients -> Slots \cup {NULL}]
        /\ Len(owners) \in 0 .. IVSHMEM_MAX_CHANNELS
    BY DEF ProgramsInv, TypeInv
  <2>2. Lookup(c) \in Slots \cup {NULL}
    BY <2>1, LookupIs
  <2> QED BY <2>1, <2>2 DEF Found
<1>4. TypeInv'
  BY <1>1, <1>3 DEF ProgramsInv, TypeInv, ProgramsTypeOK
<1>5. c_chan[c] = NULL /\ (c \in Readers => recv_buf[c] = <<>>)
  BY DEF ProgramsInv, PlacesInv, Clients
<1>6. PlacesInv'
  BY <1>1, <1>2, <1>3, <1>5, ProcessesAssumption
  DEF ProgramsInv, PlacesInv, Clients
<1>7. \A r \in Readers, i \in Slots : Inside(r, i)' <=> Inside(r, i)
  BY <1>1, <1>3, <1>5 DEF Inside, Clients
<1>8. \A i \in Slots : UnderWay(i)' <=> UnderWay(i)
  BY <1>1, <1>7 DEF UnderWay
<1>9. \A w \in Writers : Lookup(w) # NULL /\ Fresh(w)' => Fresh(w)
  BY <1>1, <1>3 DEF Fresh, Clients
<1>10. StreamInv'
  <2> SUFFICES ASSUME NEW i \in Slots \ met
               PROVE  StreamAt(i)' /\ (i \notin torn => AlignedAt(i)')
    BY <1>1 DEF StreamInv
  <2>1. StreamAt(i) /\ (i \notin torn => AlignedAt(i))
    BY DEF ProgramsInv, StreamInv
  <2> QED BY <1>1, <1>2, <1>7, <2>1, StreamKept DEF ProgramsInv
<1>11. FreshInv'
  <2>1. \A w : Lookup(w) \in Slots \cup {NULL}
    BY LookupIs DEF ProgramsInv, TypeInv
  <2> QED BY <1>1, <1>2, <1>8, <1>9, <2>1 DEF ProgramsInv, FreshInv
<1>12. AesInv' /\ MismatchExplained'
  BY <1>1, <1>2, ReasonsKept
<1>13. ASSUME NEW r \in Readers PROVE CountOf(r)' /\ VerdictOf(r)'
  <2>1. Due(r)' \subseteq Due(r)
    BY <1>1, <1>2, DueKept DEF Writing, NextMsg
  <2> QED BY <1>1, <1>2, <1>9, <2>1, CountsKept
<1> QED BY <1>4, <1>6, <1>10, <1>11, <1>12, <1>13
        DEF ProgramsInv, CountInv, VerdictInv

LEMMA StartStep ==
  ASSUME ProgramsInv, NEW c \in Clients, Start(c)
  PROVE  ProgramsInv'
<1>1. /\ owners' = owners /\ c_chan' = c_chan /\ c_pc' = c_pc /\ t_pc' = t_pc
      /\ aes' = aes /\ up' = up \cup {c}
      /\ counter' = counter /\ sent' = sent /\ refused' = refused
      /\ expected_counter' = expected_counter
      /\ recv_buf' = recv_buf /\ served' = served /\ torn' = torn
      /\ queue' = queue /\ balanced' = balanced /\ met' = met
  BY DEF Start, table_vars, writers, moves
<1>2. \A d : Lookup(d)' = Lookup(d)
  BY <1>1 DEF Lookup
<1>3. /\ c \notin up /\ c \notin started
      /\ started' = started \cup ({c} \cap Writers)
      /\ verdict' = [r \in Readers |-> IF r = c THEN "none" ELSE verdict[r]]
  BY DEF Start
<1>4. TypeInv'
  BY <1>1, <1>3 DEF ProgramsInv, TypeInv, ProgramsTypeOK
<1>5. c_pc[c] = "idle" /\ (c \in Writers => sent[c] = 0)
  BY <1>3 DEF ProgramsInv, PlacesInv, Clients
<1>6. PlacesInv'
  BY <1>1, <1>2, <1>3 DEF ProgramsInv, PlacesInv, Clients
<1>7. \A i : UnderWay(i)' <=> UnderWay(i)
  BY <1>1 DEF UnderWay, Inside
<1>8. \A w \in Writers : Fresh(w)' => Fresh(w)
  BY <1>1, <1>3 DEF Fresh
<1>9. StreamInv'
  <2> SUFFICES ASSUME NEW i \in Slots \ met
               PROVE  StreamAt(i)' /\ (i \notin torn => AlignedAt(i)')
    BY <1>1 DEF StreamInv
  <2>1. StreamAt(i) /\ (i \notin torn => AlignedAt(i))
    BY DEF ProgramsInv, StreamInv
  <2>2. ASSUME c \in Writers, Lookup(c) = i PROVE ~UnderWay(i)
    <3>1. i # NULL
      BY SizesAssumption DEF Slots, NULL
    <3> QED BY <1>3, <2>2, <3>1 DEF ProgramsInv, FreshInv, Fresh
  <2> QED BY <1>1, <1>2, <1>5, <2>1, <2>2, StreamKept
          DEF ProgramsInv, Inside
<1>10. FreshInv'
  BY <1>1, <1>2, <1>7, <1>8 DEF ProgramsInv, FreshInv
<1>11. \A r \in Readers : \/ r # c /\ verdict'[r] = verdict[r]
                          \/ r = c /\ verdict'[r] = "none"
  BY <1>3
<1>12. AesInv' /\ MismatchExplained'
  <2>1. \A r \in Readers : Judged(r)' => verdict'[r] = verdict[r]
    BY <1>11 DEF Judged
  <2> QED BY <1>1, <1>2, <2>1, ReasonsKept
<1>13. \A r \in Readers : Due(r)' \subseteq Due(r)
  <2>1. \A w \in Writers :
          Writing(w)' => Writing(w) /\ NextMsg(w)' = NextMsg(w)
    BY <1>1, <1>3 DEF Writing, NextMsg
  <2> QED BY <1>1, <1>2, <2>1, DueKept
<1>14. ASSUME NEW r \in Readers PROVE CountOf(r)' /\ VerdictOf(r)'
  <2>1. CASE r # c
    <3>1. verdict'[r] = verdict[r]
      BY <1>11, <2>1
    <3> QED BY <1>1, <1>2, <1>8, <1>13, <2>1, <3>1, CountsKept
  <2>2. CASE r = c
    <3>1. ~Judged(r)'
      BY <1>11, <2>2 DEF Judged
    <3>2. Counted(r)' => Counted(r)
      BY <1>1, <1>2 DEF Counted
    <3> QED BY <1>1, <1>2, <1>13, <3>1, <3>2
            DEF ProgramsInv, CountInv, CountOf, VerdictOf
  <2> QED BY <2>1, <2>2
<1> QED BY <1>4, <1>6, <1>9, <1>10, <1>12, <1>14
        DEF ProgramsInv, CountInv, VerdictInv

(* A reader that has all pages of a message and lets go of them leaves the *)
(* channel at the start of the next one.                                   *)
LEMMA StreamAfterMessage ==
  ASSUME OneReader, ProgramsInv, NEW r \in Readers, NEW i \in Slots \ met,
         c_pc[r] = "have", c_chan[r] = i,
         UNCHANGED <<owners, queue, counter, sent>>, up' \subseteq up,
         recv_buf' = [recv_buf EXCEPT ![r] = <<>>],
         c_chan' = [c_chan EXCEPT ![r] = NULL]
  PROVE  /\ StreamAt(i)'
         /\ AlignedAt(i) /\ Len(recv_buf[r]) = Parts => AlignedAt(i)'
<1>1. i \in Slots /\ i = Lookup(r) /\ i # NULL
  BY LookupIs DEF ProgramsInv, PlacesInv, Clients, TypeInv
<1>2. StreamAt(i)
  BY DEF ProgramsInv, StreamInv
<1>3. ASSUME NEW q \in Readers PROVE ~Inside(q, i)'
  <2>1. CASE q = r
    BY <2>1 DEF Inside, ProgramsInv, TypeInv
  <2>2. CASE q # r
    <3>1. Inside(q, i)' => Inside(q, i)
      BY <2>2 DEF Inside, ProgramsInv, TypeInv, Clients
    <3>2. Inside(q, i) => Lookup(q) = i
      BY DEF Inside, ProgramsInv, PlacesInv, Clients
    <3>3. Len(owners) \in 0 .. IVSHMEM_MAX_CHANNELS
      BY DEF ProgramsInv, TypeInv
    <3> QED BY <1>1, <2>2, <3>1, <3>2, <3>3, ReaderAlone
  <2> QED BY <2>1, <2>2
<1>4. UnderWay(i)' <=> queue[i] # <<>>
  BY <1>3 DEF UnderWay
<1>5. ASSUME NEW w \in Writers \cap up', Lookup(w)' = i
      PROVE  /\ w \in up /\ Lookup(w) = i /\ sent'[w] = sent[w]
             /\ ThePage(w)' = ThePage(w)
  BY <1>5 DEF Lookup, ThePage
<1>6. StreamAt(i)'
  <2>1. queue' = queue
    OBVIOUS
  <2>2. \A k \in 1 .. Len(queue'[i]) - 1 :
          Follows(queue'[i][k], queue'[i][k + 1])
    BY <1>2, <2>1 DEF StreamAt
  <2>3. ASSUME NEW w \in Writers \cap up', Lookup(w)' = i
        PROVE  queue'[i] # <<>> => Follows(LastOf(queue'[i]), ThePage(w)')
    BY <1>2, <1>5, <2>1, <2>3 DEF StreamAt
  <2> QED BY <1>3, <2>1, <2>2, <2>3 DEF StreamAt, Follows, LastOf
<1>7. ASSUME AlignedAt(i), Len(recv_buf[r]) = Parts PROVE AlignedAt(i)'
  <2> DEFINE last == LastOf(recv_buf[r])
  <2>1. Parts \in Nat \ {0} /\ recv_buf[r] # <<>> /\ Inside(r, i)
    BY <1>7, ProgramsAssumption DEF Inside
  <2>2. last \in Page /\ last.part = Parts - 1
    <3>1. last \in Page
      BY <2>1, LastIn DEF ProgramsInv, TypeInv
    <3>2. recv_buf[r][Parts] = [recv_buf[r][1] EXCEPT !.part = Parts - 1]
      BY <1>7, <2>1 DEF AlignedAt
    <3>3. recv_buf[r][1] \in Page
      BY <2>1 DEF ProgramsInv, TypeInv
    <3> QED BY <1>7, <3>1, <3>2, <3>3 DEF LastOf, Page
  <2>3. ASSUME queue[i] # <<>> PROVE queue[i][1].part = 0
    <3>1. queue[i] \in Seq(Page)
      BY <1>1 DEF ProgramsInv, TypeInv
    <3>2. queue[i][1] \in Page
      BY <2>3, <3>1
    <3>3. queue[i][1].part \in 0 .. Parts - 1
      BY <3>2 DEF Page
    <3>4. Follows(last, queue[i][1])
      BY <1>2, <2>1, <2>3 DEF StreamAt
    <3> QED BY <2>1, <2>2, <3>3, <3>4 DEF Follows
  <2>4. ASSUME NEW w \in Writers \cap up', Lookup(w)' = i, queue[i] = <<>>
        PROVE  sent'[w] \in {0, Parts}
    <3>1. ThePage(w).part = sent[w] /\ sent[w] \in 0 .. Parts
      BY DEF ThePage, ProgramsInv, TypeInv, ProgramsTypeOK
    <3>2. Follows(last, ThePage(w))
      BY <1>2, <1>5, <2>1, <2>4 DEF StreamAt
    <3>3. sent[w] \in {0, Parts}
      BY <2>1, <2>2, <3>1, <3>2 DEF Follows
    <3> QED BY <1>5, <2>4, <3>3
  <2>5. queue' = queue
    OBVIOUS
  <2> QED BY <1>3, <1>4, <2>3, <2>4, <2>5 DEF AlignedAt
<1> QED BY <1>6, <1>7

(* A process is gone.  What is missing of a message it was receiving is    *)
(* torn out of the channel, unless it had all of it.                       *)
LEMMA LeavesStep ==
  ASSUME OneReader, ProgramsInv, NEW c \in Clients, c \in up, Leaves(c),
         \/ torn' = torn /\ (c \in Readers /\ recv_buf[c] # <<>> =>
                               \/ Len(recv_buf[c]) = Parts
                               \/ c_chan[c] \in met)
         \/ /\ torn' = torn \cup {c_chan[c]}
            /\ c \in Readers /\ recv_buf[c] # <<>>,
         verdict' \in [Readers ->
                         {"none", "match", "mismatch", "tag", "torn"}],
         \A r \in Readers : \/ verdict'[r] = verdict[r]
                            \/ r = c /\ verdict'[r] \in {"none", "tag", "torn"}
  PROVE  ProgramsInv'
<1>1. /\ owners' = owners /\ t_pc' = t_pc /\ aes' = aes
      /\ started' = started /\ refused' = refused /\ queue' = queue
      /\ balanced' = balanced /\ met' = met /\ up' = up \ {c}
  BY DEF Leaves, moves
<1>2. \A d : Lookup(d)' = Lookup(d)
  BY <1>1 DEF Lookup
<1>3. /\ c_pc' \in [Clients -> {"idle", "flag", "wait", "have", "failed"}]
      /\ c_chan' \in [Clients -> Slots \cup {NULL}]
      /\ c_pc'[c] = "idle" /\ c_chan'[c] = NULL
      /\ \A d \in Clients \ {c} :
           c_pc'[d] = c_pc[d] /\ c_chan'[d] = c_chan[d]
  BY DEF Leaves, ProgramsInv, TypeInv
<1>4. /\ counter' \in [Writers -> Nat] /\ sent' \in [Writers -> 0 .. Parts]
      /\ \A w \in Writers : IF w = c THEN counter'[w] = 0 /\ sent'[w] = 0
                            ELSE counter'[w] = counter[w] /\ sent'[w] = sent[w]
  <2>1. /\ counter' = [w \in Writers |-> IF w = c THEN 0 ELSE counter[w]]
        /\ sent' = [w \in Writers |-> IF w = c THEN 0 ELSE sent[w]]
    BY DEF Leaves
  <2> QED BY <2>1, ProgramsAssumption
          DEF ProgramsInv, TypeInv, ProgramsTypeOK
<1>5. /\ recv_buf' \in [Readers -> Seq(Page)]
      /\ recv_buf' = [r \in Readers |-> IF r = c THEN <<>> ELSE recv_buf[r]]
      /\ \A r \in Readers : Len(recv_buf'[r]) <= Parts
      /\ expected_counter' \in [Readers -> Nat]
      /\ \A r \in Readers :
           expected_counter'[r] = IF r = c THEN 0 ELSE expected_counter[r]
  <2>1. /\ recv_buf' = [r \in Readers |-> IF r = c THEN <<>> ELSE recv_buf[r]]
        /\ expected_counter' = [r \in Readers |->
                                  IF r = c THEN 0 ELSE expected_counter[r]]
    BY DEF Leaves
  <2>2. Len(<<>>) <= Parts
    BY ProgramsAssumption
  <2> QED BY <2>1, <2>2 DEF ProgramsInv, TypeInv, ProgramsTypeOK
<1>6. /\ c \in Readers /\ recv_buf[c] # <<>> =>
           c_pc[c] = "have" /\ c_chan[c] = Lookup(c) /\ Lookup(c) # NULL
      /\ c \in Readers /\ HasTaken(c) => Lookup(c) # NULL
      /\ Lookup(c) # NULL => Lookup(c) \in Slots /\ Lookup(c) < Len(owners)
  <2>1. Lookup(c) # NULL => Lookup(c) \in Slots /\ Lookup(c) < Len(owners)
    BY LookupIs DEF FoundAt, ProgramsInv, TypeInv
  <2>2. c \in Readers /\ recv_buf[c] # <<>> =>
          c_pc[c] = "have" /\ c_chan[c] = Lookup(c) /\ Lookup(c) # NULL
    BY DEF ProgramsInv, PlacesInv, Clients
  <2>3. c \in Readers /\ expected_counter[c] > 0 => Lookup(c) # NULL
    BY DEF ProgramsInv, PlacesInv
  <2> QED BY <2>1, <2>2, <2>3 DEF HasTaken
<1>7. /\ torn \subseteq torn' /\ served \subseteq served'
      /\ torn' # torn => /\ c \in Readers /\ recv_buf[c] # <<>>
                         /\ torn' = torn \cup {Lookup(c)}
      /\ served' = IF c \in Readers /\ HasTaken(c)
                     THEN served \cup {Lookup(c)} ELSE served
  BY <1>6 DEF Leaves
<1>8. torn' \subseteq served' /\ torn' \subseteq Slots /\ served' \subseteq Slots
  BY <1>6, <1>7
  DEF HasTaken, ProgramsInv, PlacesInv, TypeInv, ProgramsTypeOK
<1>9. TypeInv'
  BY <1>1, <1>3, <1>4, <1>5, <1>8
  DEF ProgramsInv, TypeInv, ProgramsTypeOK
<1>10. PlacesInv'
  <2>1. ASSUME NEW d \in Clients
        PROVE  /\ c_pc'[d] = "have" => c_chan'[d] = Lookup(d)
                                      /\ Lookup(d) # NULL
               /\ c_pc'[d] # "have" => c_chan'[d] = NULL
               /\ d \notin up' => c_pc'[d] = "idle"
    BY <1>1, <1>3 DEF ProgramsInv, PlacesInv
  <2>2. ASSUME NEW r \in Readers
        PROVE  /\ recv_buf'[r] # <<>> => c_pc'[r] = "have"
               /\ c_pc'[r] \in {"idle", "have", "failed"}
               /\ r \notin up' \/ Lookup(r) = NULL => expected_counter'[r] = 0
    BY <1>1, <1>3, <1>5 DEF ProgramsInv, PlacesInv, Clients
  <2>3. ASSUME NEW w \in Writers
        PROVE  /\ w \in up' => w \in started
               /\ c_pc'[w] # "have" => sent'[w] = 0
               /\ w \notin refused /\ Lookup(w) = NULL => counter'[w] = 0
    BY <1>1, <1>3, <1>4 DEF ProgramsInv, PlacesInv, Clients
  <2>4. ASSUME NEW i \in Slots, i >= Len(owners)
        PROVE  queue[i] = <<>> /\ i \notin torn' \cup served' \cup met
    <3>1. queue[i] = <<>> /\ i \notin torn \cup served \cup met
      BY <2>4 DEF ProgramsInv, PlacesInv
    <3>2. Lookup(c) # NULL => Lookup(c) # i
      BY <1>6, <2>4 DEF Slots, ProgramsInv, TypeInv
    <3> QED BY <1>6, <1>7, <3>1, <3>2
  <2> QED BY <1>1, <1>2, <1>8, <2>1, <2>2, <2>3, <2>4 DEF PlacesInv
<1>11. ASSUME NEW i \in Slots, NEW r \in Readers
       PROVE  /\ Inside(r, i)' => Inside(r, i) /\ r # c
              /\ Inside(r, i) => \/ Inside(r, i)' /\ recv_buf'[r] = recv_buf[r]
                                 \/ r = c
  BY <1>3, <1>5 DEF Inside, Clients
<1>12. \A i \in Slots : UnderWay(i)' => UnderWay(i)
  BY <1>1, <1>11 DEF UnderWay
<1>13. \A w \in Writers : Fresh(w)' => Fresh(w)
  <2>1. c \in Writers => c \in started
    BY DEF ProgramsInv, PlacesInv
  <2> QED BY <1>1, <1>3, <2>1 DEF Fresh, Clients
<1>14. StreamInv'
  <2> SUFFICES ASSUME NEW i \in Slots \ met
               PROVE  StreamAt(i)' /\ (i \notin torn' => AlignedAt(i)')
    BY <1>1 DEF StreamInv
  <2>1. StreamAt(i) /\ (i \notin torn' => AlignedAt(i))
    BY <1>7 DEF ProgramsInv, StreamInv
  <2>2. CASE c \in Readers /\ Inside(c, i)
    <3>1. c_chan[c] = i /\ c_pc[c] = "have"
      BY <1>6, <2>2 DEF Inside
    <3>2. counter' = counter /\ sent' = sent
      BY <2>2, <1>4, ProcessesAssumption
      DEF ProgramsInv, TypeInv, ProgramsTypeOK
    <3>3. /\ recv_buf' = [recv_buf EXCEPT ![c] = <<>>]
          /\ c_chan' = [c_chan EXCEPT ![c] = NULL]
      BY <1>5 DEF Leaves, ProgramsInv, TypeInv
    <3>4. i \notin torn' => Len(recv_buf[c]) = Parts
      BY <2>2, <3>1 DEF Inside
    <3>5. up' \subseteq up
      BY <1>1
    <3> QED BY <1>1, <2>1, <2>2, <3>1, <3>2, <3>3, <3>4, <3>5,
               StreamAfterMessage
  <2>3. CASE ~(c \in Readers /\ Inside(c, i))
    <3>1. \A r \in Readers : Inside(r, i)' <=> Inside(r, i)
      BY <1>11, <2>3
    <3>2. \A r \in Readers : Inside(r, i) => recv_buf'[r] = recv_buf[r]
      BY <1>11, <2>3
    <3> QED BY <1>1, <1>2, <1>4, <2>1, <3>1, <3>2, StreamKept
            DEF ProgramsInv
  <2> QED BY <2>2, <2>3
<1>15. FreshInv'
  <2> SUFFICES ASSUME NEW w \in Writers, Lookup(w) # NULL, Fresh(w)',
                      Lookup(w) \notin met
               PROVE  ~UnderWay(Lookup(w))' /\ Lookup(w) \notin torn'
    BY <1>1, <1>2 DEF FreshInv, UnderWay, Inside
  <2>1. ~UnderWay(Lookup(w)) /\ Lookup(w) \notin torn /\ Lookup(w) \in Slots
    BY <1>13, LookupIs DEF ProgramsInv, FreshInv, TypeInv
  <2>2. Lookup(w) \notin torn'
    BY <1>6, <1>7, <2>1 DEF UnderWay, Inside
  <2>3. ~UnderWay(Lookup(w))'
    BY <1>1, <1>2, <1>11, <2>1 DEF UnderWay, Inside
  <2> QED BY <2>2, <2>3
<1>16. AesInv' /\ MismatchExplained'
  <2>1. \A r \in Readers : Judged(r)' => verdict'[r] = verdict[r]
    BY DEF Judged
  <2> QED BY <1>1, <1>2, <1>7, <2>1, ReasonsKept
<1>17. ASSUME NEW r \in Readers PROVE CountOf(r)' /\ VerdictOf(r)'
  <2>1. CASE r # c
    <3>1. /\ recv_buf'[r] = recv_buf[r] /\ verdict'[r] = verdict[r]
          /\ expected_counter'[r] = expected_counter[r]
      BY <1>5, <2>1
    <3>2. c \in Writers => c \in started
      BY DEF ProgramsInv, PlacesInv
    <3>3. \A w \in Writers :
            Writing(w)' => Writing(w) /\ NextMsg(w)' = NextMsg(w)
      BY <1>1, <1>4, <3>2 DEF Writing, NextMsg
    <3>4. Due(r)' \subseteq Due(r)
      BY <1>1, <1>2, <3>1, <3>3, DueKept
    <3> QED BY <1>1, <1>2, <1>7, <1>13, <3>1, <3>4, CountsKept
  <2>2. CASE r = c /\ HasTaken(r)
    <3>1. ~Counted(r)'
      BY <1>2, <1>7, <2>2 DEF Counted
    <3>2. r \notin up' /\ (Judged(r)' => Judged(r))
      BY <1>1, <2>2 DEF Judged
    <3> QED BY <1>1, <1>2, <1>13, <3>1, <3>2
            DEF ProgramsInv, CountOf, VerdictInv, VerdictOf
  <2>3. CASE r = c /\ ~HasTaken(r)
    <3>1. expected_counter[r] = 0 /\ recv_buf[r] = <<>> /\ served' = served
      BY <1>7, <2>3 DEF HasTaken, ProgramsInv, TypeInv, ProgramsTypeOK
    <3>2. recv_buf' = recv_buf /\ expected_counter' = expected_counter
      BY <1>5, <2>3, <3>1 DEF ProgramsInv, TypeInv, ProgramsTypeOK
    <3>3. counter' = counter /\ sent' = sent
      BY <2>3, <1>4, ProcessesAssumption
      DEF ProgramsInv, TypeInv, ProgramsTypeOK
    <3>4. c \notin Writers
      BY <2>3, ProcessesAssumption
    <3>5. Due(r)' \subseteq Due(r)
      BY <1>1, <1>2, <3>2, <3>3, <3>4, DueKept DEF Writing, NextMsg
    <3>6. Counted(r)' => Counted(r)
      BY <1>1, <1>2, <3>1 DEF Counted
    <3>7. r \notin up' /\ (Judged(r)' => Judged(r))
      BY <1>1, <2>3 DEF Judged
    <3> QED BY <1>1, <1>2, <1>13, <3>2, <3>5, <3>6, <3>7
            DEF ProgramsInv, CountInv, CountOf, VerdictInv, VerdictOf
  <2> QED BY <2>1, <2>2, <2>3
<1> QED BY <1>9, <1>10, <1>14, <1>15, <1>16, <1>17
        DEF ProgramsInv, CountInv, VerdictInv

-----------------------------------------------------------------------------
(* The writer's steps.                                                     *)

LEMMA PutPageStep ==
  ASSUME ProgramsInv, NEW w \in Writers, PutPage(w)
  PROVE  ProgramsInv'
<1>1. /\ owners' = owners /\ c_chan' = c_chan /\ c_pc' = c_pc /\ t_pc' = t_pc
      /\ aes' = aes /\ up' = up /\ started' = started
      /\ counter' = counter /\ refused' = refused /\ verdict' = verdict
      /\ expected_counter' = expected_counter /\ recv_buf' = recv_buf
      /\ served' = served /\ torn' = torn
      /\ balanced' = balanced /\ met' = met
  BY DEF PutPage, table_vars, processes, readers, moves
<1>2. \A d : Lookup(d)' = Lookup(d)
  BY <1>1 DEF Lookup
<1> PICK i : i = c_chan[w]
  OBVIOUS
<1>3. /\ i \in Slots /\ i = Lookup(w) /\ i # NULL /\ i < Len(owners)
      /\ w \in up /\ i \notin met /\ ~Fresh(w)
  <2>1. c_pc[w] = "have" /\ w \in Clients
    BY DEF PutPage, Clients
  <2>2. i = Lookup(w) /\ i # NULL /\ w \in up /\ w \in started
    BY <2>1 DEF ProgramsInv, PlacesInv
  <2>3. i \notin met
    BY DEF PutPage
  <2> QED BY <2>1, <2>2, <2>3, LookupIs
          DEF FoundAt, Fresh, ProgramsInv, TypeInv
<1>4. /\ sent[w] \in 0 .. Parts - 1 /\ sent' \in [Writers -> 0 .. Parts]
      /\ sent'[w] = sent[w] + 1
      /\ \A v \in Writers \ {w} : sent'[v] = sent[v]
  <2>1. sent \in [Writers -> 0 .. Parts] /\ Parts \in Nat
    BY ProgramsAssumption DEF ProgramsInv, TypeInv, ProgramsTypeOK
  <2>2. sent[w] < Parts /\ sent' = [sent EXCEPT ![w] = @ + 1]
    BY DEF PutPage
  <2> QED BY <2>1, <2>2
<1> DEFINE p == ThePage(w)
<1>5. p \in Page /\ p.part = sent[w] /\ p.msg = counter[w] /\ p.from = w
  BY <1>4 DEF ThePage, Page, ProgramsInv, TypeInv, ProgramsTypeOK
<1>6. /\ queue' \in [Slots -> Seq(Page)]
      /\ queue[i] \in Seq(Page) /\ queue'[i] = Append(queue[i], p)
      /\ \A j \in Slots \ {i} : queue'[j] = queue[j]
      /\ Len(queue'[i]) <= Capacity
  <2>1. queue \in [Slots -> Seq(Page)]
    BY DEF ProgramsInv, TypeInv
  <2>2. /\ queue' = [queue EXCEPT ![i] = Append(@, p)]
        /\ Len(queue[i]) < Capacity
    BY DEF PutPage
  <2> HIDE DEF p
  <2>3. queue[i] \in Seq(Page) /\ Len(queue[i]) \in Nat /\ Capacity \in Nat
    BY <1>3, <2>1, ProgramsAssumption
  <2>4. Append(queue[i], p) \in Seq(Page)
    BY <1>5, <2>3
  <2>5. Len(Append(queue[i], p)) = Len(queue[i]) + 1
    BY <2>3
  <2> QED BY <1>3, <2>1, <2>2, <2>3, <2>4, <2>5
<1> HIDE DEF p
<1>7. /\ Len(queue'[i]) = Len(queue[i]) + 1 /\ Len(queue[i]) \in Nat
      /\ queue'[i] # <<>> /\ LastOf(queue'[i]) = p
      /\ \A k \in 1 .. Len(queue[i]) : queue'[i][k] = queue[i][k]
      /\ queue[i] = <<>> => queue'[i][1] = p
      /\ queue[i] # <<>> => queue'[i][1] = queue[i][1]
  BY <1>5, <1>6 DEF LastOf
<1>8. TypeInv'
  BY <1>1, <1>4, <1>6 DEF ProgramsInv, TypeInv, ProgramsTypeOK
<1>9. PlacesInv'
  <2>1. \A v \in Writers : c_pc[v] # "have" => v # w
    BY DEF PutPage
  <2>2. \A j \in Slots : j >= Len(owners) => j # i
    BY <1>3 DEF Slots, ProgramsInv, TypeInv
  <2> QED BY <1>1, <1>2, <1>4, <1>6, <2>1, <2>2
          DEF ProgramsInv, PlacesInv, Clients
<1>10. ASSUME NEW v \in Writers, Lookup(v) = i PROVE v = w
  BY <1>3, <1>10, WriterAlone DEF ProgramsInv, TypeInv
<1>11. StreamAt(i)'
  <2>1. StreamAt(i)
    BY <1>3 DEF ProgramsInv, StreamInv
  <2>2. queue[i] # <<>> => Follows(LastOf(queue[i]), p)
    BY <1>3, <2>1 DEF StreamAt, p
  <2>3. ASSUME NEW k \in 1 .. Len(queue'[i]) - 1
        PROVE  Follows(queue'[i][k], queue'[i][k + 1])
    <3>1. CASE k < Len(queue[i])
      <4>1. k \in 1 .. Len(queue[i]) - 1 /\ k + 1 \in 1 .. Len(queue[i])
        BY <1>7, <2>3, <3>1
      <4> QED BY <1>7, <2>1, <4>1 DEF StreamAt
    <3>2. CASE k = Len(queue[i])
      <4>1. queue[i] # <<>> /\ k \in 1 .. Len(queue[i])
        BY <1>6, <1>7, <2>3, <3>2
      <4>2. queue'[i][k] = LastOf(queue[i]) /\ queue'[i][k + 1] = p
        BY <1>7, <3>2, <4>1 DEF LastOf
      <4> QED BY <2>2, <4>1, <4>2
    <3> QED BY <1>7, <2>3, <3>1, <3>2
  <2>4. ASSUME NEW r \in Readers, Inside(r, i)'
        PROVE  /\ \A k \in 1 .. Len(recv_buf[r]) - 1 :
                    Follows(recv_buf[r][k], recv_buf[r][k + 1])
               /\ Follows(LastOf(recv_buf[r]), queue'[i][1])
    <3>1. Inside(r, i)
      BY <1>1, <2>4 DEF Inside
    <3>2. queue[i] = <<>> => Follows(LastOf(recv_buf[r]), p)
      BY <1>3, <2>1, <3>1 DEF StreamAt, p
    <3> QED BY <1>7, <2>1, <3>1, <3>2 DEF StreamAt
  <2>5. ASSUME NEW v \in Writers \cap up', Lookup(v)' = i
        PROVE  Follows(LastOf(queue'[i]), ThePage(v)')
    <3>1. v = w
      BY <1>2, <1>10, <2>5
    <3>2. ThePage(w)' = [from |-> w, msg |-> counter[w],
                         part |-> sent[w] + 1]
      BY <1>1, <1>4 DEF ThePage
    <3> QED BY <1>5, <1>7, <3>1, <3>2 DEF Follows
  <2> QED BY <1>1, <1>7, <2>3, <2>4, <2>5
          DEF StreamAt, LastOf, Follows, Inside
<1>12. StreamInv'
  <2> SUFFICES ASSUME NEW j \in Slots \ met
               PROVE  StreamAt(j)' /\ (j \notin torn => AlignedAt(j)')
    BY <1>1 DEF StreamInv
  <2>1. CASE j = i
    <3>1. ASSUME AlignedAt(i) PROVE AlignedAt(i)'
      <4>1. ASSUME \A r \in Readers : ~Inside(r, i)'
            PROVE  queue'[i][1].part = 0
        <5>1. \A r \in Readers : ~Inside(r, i)
          BY <1>1, <4>1 DEF Inside
        <5>2. queue[i] = <<>> => sent[w] \in {0, Parts}
          BY <1>3, <3>1, <5>1 DEF AlignedAt, UnderWay
        <5>3. queue[i] = <<>> => sent[w] = 0
          BY <1>4, <5>2, ProgramsAssumption
        <5> QED BY <1>5, <1>7, <3>1, <5>1, <5>3 DEF AlignedAt
      <4>2. UnderWay(i)'
        BY <1>7 DEF UnderWay
      <4> QED BY <1>1, <3>1, <4>1, <4>2 DEF AlignedAt, Inside
    <3> QED BY <1>3, <1>11, <2>1, <3>1 DEF ProgramsInv, StreamInv
  <2>2. CASE j # i
    <3>1. /\ StreamAt(j) /\ (j \notin torn => AlignedAt(j))
          /\ queue'[j] = queue[j]
      BY <1>6, <2>2 DEF ProgramsInv, StreamInv
    <3>2. \A v \in Writers : Lookup(v) = j => sent'[v] = sent[v]
      BY <1>3, <1>4, <2>2
    <3> QED BY <1>1, <1>2, <3>1, <3>2, StreamKept DEF Inside, ProgramsInv
  <2> QED BY <2>1, <2>2
<1>13. FreshInv'
  <2> SUFFICES ASSUME NEW v \in Writers, Lookup(v) # NULL, Fresh(v)',
                      Lookup(v) \notin met
               PROVE  ~UnderWay(Lookup(v))' /\ Lookup(v) \notin torn
    BY <1>1, <1>2 DEF FreshInv, UnderWay, Inside
  <2>1. Fresh(v)
    BY <1>1 DEF Fresh
  <2>2. Lookup(v) # i /\ Lookup(v) \in Slots
    BY <1>3, <1>10, <2>1, LookupIs DEF ProgramsInv, TypeInv
  <2>3. ~UnderWay(Lookup(v)) /\ Lookup(v) \notin torn
    BY <2>1 DEF ProgramsInv, FreshInv
  <2> QED BY <1>1, <1>2, <1>6, <2>2, <2>3 DEF UnderWay, Inside
<1>14. AesInv' /\ MismatchExplained'
  BY <1>1, <1>2, ReasonsKept
<1>15. ASSUME NEW r \in Readers, Lookup(r) # NULL
       PROVE  Due(r)' \subseteq Due(r)
  <2>1. Lookup(r) \in Slots
    BY <1>15, LookupIs DEF ProgramsInv, TypeInv
  <2>2. CASE Lookup(r) # i
    <3>1. \A v \in Writers : Lookup(v) = Lookup(r) => NextMsg(v)' = NextMsg(v)
      BY <1>1, <1>3, <1>4, <2>2 DEF NextMsg
    <3>2. queue'[Lookup(r)] = queue[Lookup(r)]
      BY <1>6, <2>1, <2>2
    <3> QED BY <1>1, <1>2, <3>1, <3>2, DueKept DEF Writing
  <2>3. CASE Lookup(r) = i
    <3>1. CASE recv_buf[r] # <<>>
      BY <1>1, <3>1 DEF Due
    <3>2. CASE recv_buf[r] = <<>>
      <4>1. Due(r)' = {queue'[i][1].msg}
        BY <1>1, <1>2, <1>7, <2>3, <3>2 DEF Due
      <4>2. CASE queue[i] # <<>>
        BY <1>7, <2>3, <3>2, <4>1, <4>2 DEF Due
      <4>3. CASE queue[i] = <<>>
        <5>1. Due(r)' = {counter[w]}
          BY <1>5, <1>7, <4>1, <4>3
        <5>2. NextMsg(w) = counter[w]
          BY <1>4, ProgramsAssumption
          DEF NextMsg, ProgramsInv, TypeInv, ProgramsTypeOK
        <5>3. NextMsg(w) \in Due(r)
          BY <1>3, <2>3, <3>2, <4>3 DEF Due, Writing
        <5> QED BY <5>1, <5>2, <5>3
      <4> QED BY <4>2, <4>3
    <3> QED BY <3>1, <3>2
  <2> QED BY <2>2, <2>3
<1>16. ASSUME NEW r \in Readers PROVE CountOf(r)' /\ VerdictOf(r)'
  BY <1>1, <1>2, <1>15, CountsKept DEF Fresh
<1> QED BY <1>8, <1>9, <1>12, <1>13, <1>14, <1>16
        DEF ProgramsInv, CountInv, VerdictInv

\* The call returns, with the message sent or without.
LEMMA SendEndsStep ==
  ASSUME ProgramsInv, NEW w \in Writers,
         SendReturns(w) \/ SendFails(w)
  PROVE  ProgramsInv'
<1>1. /\ owners' = owners /\ t_pc' = t_pc
      /\ aes' = aes /\ up' = up /\ started' = started /\ verdict' = verdict
      /\ refused \subseteq refused' /\ refused' \subseteq refused \cup {w}
      /\ expected_counter' = expected_counter
      /\ recv_buf' = recv_buf /\ served' = served /\ torn' = torn
      /\ queue' = queue /\ balanced' = balanced /\ met' = met
  BY DEF SendReturns, SendFails, Return, processes, readers, moves
<1>2. \A d : Lookup(d)' = Lookup(d)
  BY <1>1 DEF Lookup
<1>3. /\ w \in Clients /\ w \notin Readers /\ w \in up /\ w \in started
      /\ c_pc[w] = "have" => Lookup(w) # NULL /\ Lookup(w) \in Slots
      /\ c_pc[w] = "failed" => sent[w] = 0
      /\ c_pc[w] \in {"have", "failed"}
  <2>1. w \in Clients /\ w \notin Readers
    BY ProcessesAssumption DEF Clients
  <2>2. c_pc[w] \in {"have", "failed"}
    BY DEF SendReturns, SendFails
  <2> QED BY <2>1, <2>2, LookupIs DEF ProgramsInv, PlacesInv, TypeInv
<1>4. /\ c_pc' \in [Clients -> {"idle", "flag", "wait", "have", "failed"}]
      /\ c_chan' \in [Clients -> Slots \cup {NULL}]
      /\ c_pc'[w] = "idle" /\ c_chan'[w] = NULL
      /\ \A d \in Clients \ {w} :
           c_pc'[d] = c_pc[d] /\ c_chan'[d] = c_chan[d]
  BY <1>3 DEF SendReturns, SendFails, Return, ProgramsInv, TypeInv
<1>5. /\ counter[w] \in Nat /\ counter' \in [Writers -> Nat]
      /\ sent' \in [Writers -> 0 .. Parts]
      /\ counter'[w] = counter[w] + 1 /\ sent'[w] = 0
      /\ \A v \in Writers \ {w} :
           counter'[v] = counter[v] /\ sent'[v] = sent[v]
  <2>1. counter' = [counter EXCEPT ![w] = @ + 1]
    BY DEF SendReturns, SendFails
  <2>2. sent' = sent \/ sent' = [sent EXCEPT ![w] = 0]
    BY DEF SendReturns, SendFails
  <2>3. sent' = sent => sent[w] = 0
    <3>1. SendFails(w) => c_pc[w] = "failed"
      BY DEF SendFails
    <3>2. SendReturns(w) => sent' = [sent EXCEPT ![w] = 0]
      BY DEF SendReturns
    <3> QED BY <1>3, <3>1, <3>2 DEF ProgramsInv, TypeInv, ProgramsTypeOK
  <2>4. counter \in [Writers -> Nat] /\ sent \in [Writers -> 0 .. Parts]
    BY DEF ProgramsInv, TypeInv, ProgramsTypeOK
  <2> QED BY <2>1, <2>2, <2>3, <2>4, ProgramsAssumption
<1>6. TypeInv'
  BY <1>1, <1>4, <1>5 DEF ProgramsInv, TypeInv, ProgramsTypeOK
<1>7. PlacesInv'
  <2>1. ASSUME NEW d \in Clients
        PROVE  /\ c_pc'[d] = "have" => c_chan'[d] = Lookup(d)
                                      /\ Lookup(d) # NULL
               /\ c_pc'[d] # "have" => c_chan'[d] = NULL
               /\ d \notin up => c_pc'[d] = "idle"
    BY <1>4 DEF ProgramsInv, PlacesInv
  <2>2. ASSUME NEW r \in Readers
        PROVE  /\ recv_buf[r] # <<>> => c_pc'[r] = "have"
               /\ c_pc'[r] \in {"idle", "have", "failed"}
    BY <1>3, <1>4 DEF ProgramsInv, PlacesInv, Clients
  <2>3. ASSUME NEW v \in Writers
        PROVE  /\ c_pc'[v] # "have" => sent'[v] = 0
               /\ v \notin refused' /\ Lookup(v) = NULL => counter'[v] = 0
    <3>1. w \notin refused' => Lookup(w) # NULL
      BY <1>3 DEF SendReturns, SendFails
    <3> QED BY <1>1, <1>3, <1>4, <1>5, <3>1
            DEF ProgramsInv, PlacesInv, Clients
  <2> QED BY <1>1, <1>2, <2>1, <2>2, <2>3 DEF ProgramsInv, PlacesInv
<1>8. \A r \in Readers : \A i : Inside(r, i)' <=> Inside(r, i)
  BY <1>1, <1>3, <1>4 DEF Inside, Clients
<1>9. \A i : UnderWay(i)' <=> UnderWay(i)
  BY <1>1, <1>8 DEF UnderWay
<1>10. \A v \in Writers : Fresh(v)' => Fresh(v) /\ v # w
  BY <1>1, <1>3, <1>4 DEF Fresh, Clients
<1>11. StreamInv'
  <2> SUFFICES ASSUME NEW i \in Slots \ met
               PROVE  StreamAt(i)' /\ (i \notin torn => AlignedAt(i)')
    BY <1>1 DEF StreamInv
  <2>1. StreamAt(i) /\ (i \notin torn => AlignedAt(i))
    BY DEF ProgramsInv, StreamInv
  <2>2. CASE SendReturns(w)
    <3>1. Lookup(w) = i => sent[w] = Parts
      BY <2>2 DEF SendReturns, ProgramsInv, PlacesInv, Clients
    <3>2. Lookup(w) = i => \A p \in Page :
            Follows(p, ThePage(w)) => Follows(p, ThePage(w)')
      BY <1>5, <3>1, ProgramsAssumption DEF Follows, ThePage, Page
    <3> QED BY <1>1, <1>2, <1>5, <1>8, <2>1, <3>2, StreamKept
            DEF ProgramsInv
  <2>3. CASE SendFails(w)
    <3>1. Fresh(w) /\ i # NULL
      BY <2>3, SizesAssumption DEF SendFails, Fresh, Slots, NULL
    <3>2. Lookup(w) = i => ~UnderWay(i)
      BY <3>1 DEF ProgramsInv, FreshInv
    <3> QED BY <1>1, <1>2, <1>5, <1>8, <2>1, <3>2, StreamKept
            DEF ProgramsInv
  <2> QED BY <2>2, <2>3
<1>12. FreshInv'
  <2> SUFFICES ASSUME NEW v \in Writers, Lookup(v) # NULL, Fresh(v)',
                      Lookup(v) \notin met
               PROVE  ~UnderWay(Lookup(v))' /\ Lookup(v) \notin torn
    BY <1>1, <1>2 DEF FreshInv, UnderWay, Inside
  <2>1. ~UnderWay(Lookup(v)) /\ Lookup(v) \notin torn
    BY <1>10 DEF ProgramsInv, FreshInv
  <2> QED BY <1>1, <1>2, <1>8, <2>1 DEF UnderWay, Inside
<1>13. AesInv' /\ MismatchExplained'
  BY <1>1, <1>2, ReasonsKept
<1>14. ASSUME NEW r \in Readers, Lookup(r) # NULL, Lookup(r) \notin met,
              Counted(r)' \/ Judged(r)
       PROVE  Due(r)' \subseteq Due(r)
  <2>1. ASSUME NEW v \in Writers, Lookup(v) = Lookup(r)
        PROVE  NextMsg(v)' = NextMsg(v)
    <3>1. CASE v # w
      BY <1>5, <3>1 DEF NextMsg
    <3>2. CASE v = w /\ SendReturns(w)
      <4>1. sent[w] = Parts
        BY <1>14, <2>1, <3>2 DEF SendReturns, ProgramsInv, PlacesInv, Clients
      <4> QED BY <1>5, <3>2, <4>1, ProgramsAssumption DEF NextMsg
    <3>3. CASE v = w /\ SendFails(w)
      <4>1. w \in refused' /\ Fresh(w)
        BY <3>3 DEF SendFails, Fresh
      <4> QED BY <1>2, <1>14, <2>1, <3>3, <4>1
              DEF Counted, ProgramsInv, VerdictInv, VerdictOf
    <3> QED BY <3>1, <3>2, <3>3
  <2> QED BY <1>1, <1>2, <2>1, DueKept DEF Writing
<1>15. ASSUME NEW r \in Readers PROVE CountOf(r)' /\ VerdictOf(r)'
  BY <1>1, <1>2, <1>10, <1>14, CountsKept
<1> QED BY <1>6, <1>7, <1>11, <1>12, <1>13, <1>15
        DEF ProgramsInv, CountInv, VerdictInv

-----------------------------------------------------------------------------
(* The reader's steps.                                                     *)

LEMMA TakePageStep ==
  ASSUME OneReader, ProgramsInv, NEW r \in Readers, TakePage(r)
  PROVE  ProgramsInv'
<1>1. /\ owners' = owners /\ c_chan' = c_chan /\ c_pc' = c_pc /\ t_pc' = t_pc
      /\ aes' = aes /\ up' = up /\ started' = started /\ verdict' = verdict
      /\ counter' = counter /\ sent' = sent /\ refused' = refused
      /\ expected_counter' = expected_counter
      /\ served' = served /\ torn' = torn
      /\ balanced' = balanced /\ met' = met
  BY DEF TakePage, table_vars, processes, writers, moves
<1>2. \A d : Lookup(d)' = Lookup(d)
  BY <1>1 DEF Lookup
<1> PICK i : i = c_chan[r]
  OBVIOUS
<1>3. /\ i \in Slots /\ i = Lookup(r) /\ i # NULL
      /\ c_pc[r] = "have" /\ i \notin met
  <2>1. c_pc[r] = "have" /\ r \in Clients /\ i \notin met
    BY DEF TakePage, Clients
  <2> QED BY <2>1, LookupIs DEF ProgramsInv, PlacesInv, TypeInv
<1> DEFINE buf == recv_buf[r]
           n == Len(buf)
           p == queue[i][1]
<1>4. /\ buf \in Seq(Page) /\ queue[i] \in Seq(Page) /\ queue[i] # <<>>
      /\ n \in Nat /\ n < Parts /\ p \in Page /\ Parts \in Nat \ {0}
      /\ Head(queue[i]) = p
  <2>1. /\ buf \in Seq(Page) /\ queue[i] \in Seq(Page) /\ Parts \in Nat \ {0}
        /\ queue[i] # <<>> /\ n < Parts
    BY <1>3, ProgramsAssumption DEF TakePage, ProgramsInv, TypeInv
  <2> QED BY <2>1
<1>5. /\ recv_buf' \in [Readers -> Seq(Page)]
      /\ recv_buf'[r] = Append(buf, p)
      /\ \A q \in Readers \ {r} : recv_buf'[q] = recv_buf[q]
      /\ queue' \in [Slots -> Seq(Page)]
      /\ queue'[i] = Tail(queue[i])
      /\ \A j \in Slots \ {i} : queue'[j] = queue[j]
  <2>1. recv_buf \in [Readers -> Seq(Page)] /\ queue \in [Slots -> Seq(Page)]
    BY DEF ProgramsInv, TypeInv
  <2>2. /\ recv_buf' = [recv_buf EXCEPT ![r] = Append(@, Head(queue[i]))]
        /\ queue' = [queue EXCEPT ![i] = Tail(@)]
    BY DEF TakePage
  <2> HIDE DEF p
  <2>3. Append(buf, p) \in Seq(Page) /\ Tail(queue[i]) \in Seq(Page)
    BY <1>4
  <2> QED BY <1>3, <1>4, <2>1, <2>2, <2>3
<1> HIDE DEF p
<1>6. /\ Len(recv_buf'[r]) = n + 1 /\ recv_buf'[r] # <<>>
      /\ LastOf(recv_buf'[r]) = p
      /\ \A k \in 1 .. n : recv_buf'[r][k] = buf[k]
      /\ recv_buf'[r][n + 1] = p
      /\ n = 0 <=> buf = <<>>
      /\ n = 0 => recv_buf'[r][1] = p
      /\ n # 0 => recv_buf'[r][1] = buf[1]
  BY <1>4, <1>5 DEF LastOf
<1>7. /\ Len(queue[i]) \in Nat \ {0}
      /\ Len(queue'[i]) = Len(queue[i]) - 1
      /\ \A k \in 1 .. Len(queue[i]) - 1 : queue'[i][k] = queue[i][k + 1]
      /\ queue'[i] = <<>> => Len(queue[i]) = 1
      /\ queue'[i] # <<>> => Len(queue[i]) > 1
      /\ Len(queue[i]) = 1 => LastOf(queue[i]) = p
      /\ Len(queue[i]) > 1 => LastOf(queue'[i]) = LastOf(queue[i])
  <2>1. Len(queue[i]) \in Nat \ {0}
    BY <1>4
  <2>2. Len(queue'[i]) = Len(queue[i]) - 1
    BY <1>4, <1>5
  <2>3. \A k \in 1 .. Len(queue[i]) - 1 : queue'[i][k] = queue[i][k + 1]
    BY <1>4, <1>5
  <2>4. queue'[i] \in Seq(Page)
    BY <1>3, <1>5
  <2>5. queue'[i] = <<>> <=> Len(queue[i]) = 1
    <3>1. queue'[i] # <<>> => Len(queue'[i]) \in Nat \ {0}
      BY <2>4, EmptySeq
    <3>2. queue'[i] = <<>> => Len(queue'[i]) = 0
      BY Zenon, EmptySeq
    <3> QED BY <2>1, <2>2, <3>1, <3>2
  <2>6. Len(queue[i]) > 1 => LastOf(queue'[i]) = LastOf(queue[i])
    BY <2>1, <2>2, <2>3 DEF LastOf
  <2>7. Len(queue[i]) = 1 => LastOf(queue[i]) = p
    BY DEF LastOf, p
  <2> QED BY <2>1, <2>2, <2>3, <2>5, <2>6, <2>7
<1>8. TypeInv'
  <2>1. \A j \in Slots : Len(queue'[j]) <= Capacity
    <3>1. \A j \in Slots : Len(queue[j]) <= Capacity
      BY DEF ProgramsInv, TypeInv, ProgramsTypeOK
    <3>2. Len(queue'[i]) <= Capacity
      BY <1>3, <1>7, <3>1, ProgramsAssumption
    <3> QED BY <1>5, <3>1, <3>2
  <2>2. \A q \in Readers : Len(recv_buf'[q]) <= Parts
    BY <1>4, <1>5, <1>6 DEF ProgramsInv, TypeInv
  <2> QED BY <1>1, <1>5, <2>1, <2>2 DEF ProgramsInv, TypeInv, ProgramsTypeOK
<1>9. PlacesInv'
  <2>1. \A q \in Readers : recv_buf'[q] # <<>> => c_pc[q] = "have"
    BY <1>3, <1>5 DEF ProgramsInv, PlacesInv
  <2>2. \A j \in Slots : j >= Len(owners) => queue'[j] = <<>>
    BY <1>4, <1>5 DEF ProgramsInv, PlacesInv
  <2> QED BY <1>1, <1>2, <2>1, <2>2 DEF ProgramsInv, PlacesInv, Clients
<1>10. ASSUME NEW q \in Readers, NEW j \in Slots
       PROVE  /\ Inside(q, j)' <=> Inside(q, j) \/ (q = r /\ j = i)
              /\ Lookup(q) = i => q = r
              /\ Inside(q, j) => Lookup(q) = j
  <2>1. Lookup(q) = i => q = r
    BY <1>3, ReaderAlone DEF ProgramsInv, TypeInv
  <2>2. Inside(q, j) => Lookup(q) = j
    BY DEF Inside, ProgramsInv, PlacesInv, Clients
  <2> QED BY <1>1, <1>5, <1>6, <2>1, <2>2 DEF Inside
<1>11. \A j \in Slots : UnderWay(j)' <=> UnderWay(j)
  <2>1. UnderWay(i) /\ UnderWay(i)'
    BY <1>4, <1>3, <1>10 DEF UnderWay
  <2> QED BY <1>5, <1>10, <2>1 DEF UnderWay
<1>12. StreamAt(i)'
  <2>1. StreamAt(i)
    BY <1>3 DEF ProgramsInv, StreamInv
  <2>2. ASSUME NEW k \in 1 .. Len(queue'[i]) - 1
        PROVE  Follows(queue'[i][k], queue'[i][k + 1])
    <3>1. k + 1 \in 1 .. Len(queue[i]) - 1 /\ k \in 1 .. Len(queue[i]) - 1
      BY <1>7, <2>2
    <3> QED BY <1>7, <2>1, <3>1 DEF StreamAt
  <2>3. buf # <<>> =>
          /\ \A k \in 1 .. n - 1 : Follows(buf[k], buf[k + 1])
          /\ Follows(LastOf(buf), p)
    BY <1>3, <1>4, <2>1 DEF StreamAt, Inside, p
  <2>4. ASSUME NEW k \in 1 .. n
        PROVE  Follows(recv_buf'[r][k], recv_buf'[r][k + 1])
    <3>1. buf # <<>> /\ recv_buf'[r][k] = buf[k]
      BY <1>4, <1>6, <2>4
    <3>2. CASE k = n
      BY <1>6, <2>3, <3>1, <3>2 DEF LastOf
    <3>3. CASE k # n
      <4>1. k \in 1 .. n - 1 /\ k + 1 \in 1 .. n
        BY <1>4, <2>4, <3>3
      <4> QED BY <1>6, <2>3, <3>1, <4>1
    <3> QED BY <3>2, <3>3
  <2>5. queue'[i] # <<>> => Follows(p, queue'[i][1])
    <3>1. queue'[i] # <<>> => 1 \in 1 .. Len(queue[i]) - 1
      BY <1>7
    <3> QED BY <1>7, <2>1, <3>1 DEF StreamAt, p
  <2>6. ASSUME NEW w \in Writers \cap up', Lookup(w)' = i
        PROVE  /\ queue'[i] # <<>> => Follows(LastOf(queue'[i]), ThePage(w)')
               /\ queue'[i] = <<>> => Follows(p, ThePage(w)')
    <3>1. ThePage(w)' = ThePage(w) /\ w \in Writers \cap up /\ Lookup(w) = i
      BY <1>1, <1>2, <2>6 DEF ThePage
    <3>2. Follows(LastOf(queue[i]), ThePage(w))
      BY <1>4, <2>1, <3>1 DEF StreamAt
    <3> QED BY <1>7, <3>1, <3>2
  <2>7. \A q \in Readers : Inside(q, i)' => q = r
    BY <1>3, <1>10
  <2>8. \A k \in 1 .. Len(recv_buf'[r]) - 1 :
          Follows(recv_buf'[r][k], recv_buf'[r][k + 1])
    <3>1. Len(recv_buf'[r]) - 1 = n
      BY <1>4, <1>6
    <3> QED BY <2>4, <3>1
  <2> HIDE DEF buf, n
  <2>9. \A q \in Readers : Inside(q, i)' =>
           /\ \A k \in 1 .. Len(recv_buf'[q]) - 1 :
                Follows(recv_buf'[q][k], recv_buf'[q][k + 1])
           /\ queue'[i] # <<>> => Follows(LastOf(recv_buf'[q]), queue'[i][1])
    BY <1>6, <2>5, <2>7, <2>8
  <2>10. \A w \in Writers \cap up' : Lookup(w)' = i =>
           /\ queue'[i] # <<>> => Follows(LastOf(queue'[i]), ThePage(w)')
           /\ \A q \in Readers : queue'[i] = <<>> /\ Inside(q, i)' =>
                Follows(LastOf(recv_buf'[q]), ThePage(w)')
    BY <1>6, <2>6, <2>7
  <2> QED BY <2>2, <2>9, <2>10 DEF StreamAt
<1>13. ASSUME AlignedAt(i) PROVE AlignedAt(i)'
  <2>1. StreamAt(i)
    BY <1>3 DEF ProgramsInv, StreamInv
  <2>2. buf # <<>> =>
          /\ \A k \in 1 .. n : buf[k] = [buf[1] EXCEPT !.part = k - 1]
          /\ Follows(LastOf(buf), p)
    BY <1>3, <1>4, <1>13, <2>1 DEF StreamAt, AlignedAt, Inside, p
  <2>3. buf = <<>> => p.part = 0
    <3>1. buf = <<>> => \A q \in Readers : ~Inside(q, i)
      BY <1>3, <1>10 DEF Inside
    <3> QED BY <1>4, <1>13, <3>1 DEF AlignedAt, p
  <2>4. \A k \in 1 .. n + 1 :
          recv_buf'[r][k] = [recv_buf'[r][1] EXCEPT !.part = k - 1]
    <3>1. CASE buf = <<>>
      <4>1. p = [p EXCEPT !.part = 1 - 1]
        BY <1>4, <2>3, <3>1 DEF Page
      <4> QED BY <1>6, <3>1, <4>1
    <3>2. CASE buf # <<>>
      <4>1. n \in 1 .. n /\ n # 0 /\ 1 \in 1 .. n /\ buf[1] \in Page
        BY <1>4, <1>6, <3>2
      <4>2. buf[n] = [buf[1] EXCEPT !.part = n - 1]
        BY <2>2, <3>2, <4>1
      <4>3. Follows(buf[n], p)
        BY <2>2, <3>2 DEF LastOf
      <4>4. buf[n].part = n - 1 /\ buf[n].msg = buf[1].msg
              /\ buf[n].from = buf[1].from
        BY <4>1, <4>2 DEF Page
      <4>5. p.part = n /\ p.msg = buf[1].msg /\ p.from = buf[1].from
        BY <1>4, <4>3, <4>4 DEF Follows
      <4>6. p = [buf[1] EXCEPT !.part = n]
        BY <1>4, <4>1, <4>5 DEF Page
      <4>7. ASSUME NEW k \in 1 .. n + 1
            PROVE  recv_buf'[r][k] = [buf[1] EXCEPT !.part = k - 1]
        <5>1. CASE k = n + 1
          BY <1>4, <1>6, <4>6, <5>1
        <5>2. CASE k # n + 1
          <6>1. k \in 1 .. n
            BY <1>4, <5>2
          <6> QED BY <1>6, <2>2, <3>2, <6>1
        <5> QED BY <5>1, <5>2
      <4> QED BY <1>6, <4>1, <4>7
    <3> QED BY <3>1, <3>2
  <2>5. \A q \in Readers : Inside(q, i)' => q = r
    BY <1>3, <1>10
  <2>6. Inside(r, i)' /\ UnderWay(i)'
    BY <1>3, <1>4, <1>10, <1>11 DEF UnderWay
  <2> QED BY <1>6, <2>4, <2>5, <2>6 DEF AlignedAt
<1>14. StreamInv'
  <2> SUFFICES ASSUME NEW j \in Slots \ met
               PROVE  StreamAt(j)' /\ (j \notin torn => AlignedAt(j)')
    BY <1>1 DEF StreamInv
  <2>1. CASE j = i
    BY <1>12, <1>13, <2>1 DEF ProgramsInv, StreamInv
  <2>2. CASE j # i
    <3>1. /\ StreamAt(j) /\ (j \notin torn => AlignedAt(j))
          /\ queue'[j] = queue[j]
      BY <1>5, <2>2 DEF ProgramsInv, StreamInv
    <3>2. \A q \in Readers : Inside(q, j)' <=> Inside(q, j)
      BY <1>10, <2>2
    <3>3. \A q \in Readers : Inside(q, j) => recv_buf'[q] = recv_buf[q]
      BY <1>3, <1>5, <1>10, <2>2
    <3> QED BY <1>1, <1>2, <3>1, <3>2, <3>3, StreamKept DEF ProgramsInv
  <2> QED BY <2>1, <2>2
<1>15. FreshInv'
  <2> SUFFICES ASSUME NEW v \in Writers, Lookup(v) # NULL, Fresh(v)',
                      Lookup(v) \notin met
               PROVE  ~UnderWay(Lookup(v))' /\ Lookup(v) \notin torn
    BY <1>1, <1>2 DEF FreshInv, UnderWay, Inside
  <2>1. Fresh(v) /\ Lookup(v) \in Slots
    BY <1>1, LookupIs DEF Fresh, ProgramsInv, TypeInv
  <2>2. ~UnderWay(Lookup(v)) /\ Lookup(v) \notin torn
    BY <2>1 DEF ProgramsInv, FreshInv
  <2>3. Lookup(v) # i
    BY <1>4, <2>2 DEF UnderWay
  <2> QED BY <1>1, <1>2, <1>5, <1>10, <2>1, <2>2, <2>3 DEF UnderWay, Inside
<1>16. AesInv' /\ MismatchExplained'
  BY <1>1, <1>2, ReasonsKept
<1>17. ASSUME NEW q \in Readers, Lookup(q) # NULL, Lookup(q) \notin torn
       PROVE  Due(q)' \subseteq Due(q)
  <2>1. CASE q # r
    <3>1. Lookup(q) \in Slots \ {i}
      BY <1>10, <1>17, <2>1, <1>3, LookupIs DEF ProgramsInv, TypeInv
    <3> QED BY <1>1, <1>2, <1>5, <2>1, <3>1, DueKept DEF Writing, NextMsg
  <2>2. CASE q = r
    <3>1. Due(r)' = {recv_buf'[r][1].msg}
      BY <1>6 DEF Due
    <3>2. buf # <<>> => Due(r) = {buf[1].msg}
      BY DEF Due
    <3>3. buf = <<>> => Due(r) = {p.msg}
      BY <1>3, <1>4 DEF Due, p
    <3> QED BY <1>6, <2>2, <3>1, <3>2, <3>3
  <2> QED BY <2>1, <2>2
<1>18. ASSUME NEW q \in Readers PROVE CountOf(q)' /\ VerdictOf(q)'
  BY <1>1, <1>2, <1>17, CountsKept DEF Fresh
<1> QED BY <1>8, <1>9, <1>14, <1>15, <1>16, <1>18
        DEF ProgramsInv, CountInv, VerdictInv

(* A reader that has all pages of a message: the pages are those of one    *)
(* message, and the next to come is of the next message.                   *)
LEMMA MessageReceived ==
  ASSUME OneReader, ProgramsInv, NEW r \in Readers,
         c_pc[r] = "have", Len(recv_buf[r]) = Parts, c_chan[r] \notin met
  PROVE  /\ c_chan[r] \in Slots /\ c_chan[r] = Lookup(r) /\ Lookup(r) # NULL
         /\ r \in up /\ recv_buf[r] # <<>>
         /\ recv_buf[r][1] \in Page /\ Due(r) = {recv_buf[r][1].msg}
         /\ UnderWay(Lookup(r))
         /\ Lookup(r) \notin torn =>
              /\ Whole(recv_buf[r])
              /\ recv_buf[r][1].part = 0
              /\ LastOf(recv_buf[r]) =
                   [recv_buf[r][1] EXCEPT !.part = Parts - 1]
<1> DEFINE buf == recv_buf[r]
<1>1. /\ Parts \in Nat \ {0} /\ buf # <<>> /\ buf \in Seq(Page)
      /\ r \in Clients
  BY ProgramsAssumption DEF ProgramsInv, TypeInv, Clients
<1>2. /\ c_chan[r] \in Slots /\ c_chan[r] = Lookup(r) /\ Lookup(r) # NULL
      /\ r \in up
  BY <1>1, LookupIs DEF ProgramsInv, PlacesInv, TypeInv
<1>3. buf[1] \in Page /\ Inside(r, Lookup(r))
  BY <1>1, <1>2 DEF Inside
<1>4. Lookup(r) \notin torn =>
        \A k \in 1 .. Parts : buf[k] = [buf[1] EXCEPT !.part = k - 1]
  BY <1>2, <1>3 DEF ProgramsInv, StreamInv, AlignedAt
<1>5. Lookup(r) \notin torn =>
        /\ Whole(buf) /\ buf[1].part = 0
        /\ LastOf(buf) = [buf[1] EXCEPT !.part = Parts - 1]
  <2> SUFFICES ASSUME Lookup(r) \notin torn
               PROVE  /\ Whole(buf) /\ buf[1].part = 0
                      /\ LastOf(buf) = [buf[1] EXCEPT !.part = Parts - 1]
    OBVIOUS
  <2> HIDE DEF buf
  <2>5. DOMAIN buf = 1 .. Parts /\ 1 \in 1 .. Parts /\ Parts \in 1 .. Parts
    BY <1>1 DEF buf
  <2>6. \A k \in 1 .. Parts : buf[k] = [buf[1] EXCEPT !.part = k - 1]
    BY <1>4
  <2>1. Whole(buf)
    BY <2>5, <2>6 DEF Whole
  <2>2. buf[1] = [buf[1] EXCEPT !.part = 1 - 1]
    BY <2>5, <2>6
  <2>3. buf[1].part = 0
    BY <1>3, <2>2 DEF Page
  <2>4. buf[Parts] = [buf[1] EXCEPT !.part = Parts - 1]
    BY <2>5, <2>6
  <2>7. LastOf(buf) = buf[Parts]
    BY DEF LastOf, buf
  <2> QED BY <2>1, <2>3, <2>4, <2>7
<1> QED BY <1>1, <1>2, <1>3, <1>5 DEF Due, UnderWay

LEMMA RecvReturnsStep ==
  ASSUME OneReader, ProgramsInv, NEW r \in Readers, RecvReturns(r)
  PROVE  ProgramsInv'
<1>1. /\ owners' = owners /\ t_pc' = t_pc
      /\ aes' = aes /\ up' = up /\ started' = started /\ queue' = queue
      /\ counter' = counter /\ sent' = sent /\ refused' = refused
      /\ served' = served /\ torn' = torn
      /\ balanced' = balanced /\ met' = met
      /\ c_pc[r] = "have"
      /\ c_chan[r] \notin met => Len(recv_buf[r]) = Parts
  BY DEF RecvReturns, HasBuffer, Return, processes, writers, moves
<1>2. \A d : Lookup(d)' = Lookup(d)
  BY <1>1 DEF Lookup
<1> PICK i : i = Lookup(r)
  OBVIOUS
<1> DEFINE buf == recv_buf[r]
           m == buf[1].msg
           e == expected_counter[r]
<1>3. /\ i \in Slots /\ i # NULL /\ c_chan[r] = i /\ r \in up /\ e \in Nat
      /\ i \notin met =>
           /\ buf # <<>> /\ buf[1] \in Page /\ m \in Nat
           /\ Due(r) = {m} /\ UnderWay(i)
           /\ i \notin torn =>
                /\ buf[1].part = 0
                /\ LastOf(buf) = [buf[1] EXCEPT !.part = Parts - 1]
  <2>1. e \in Nat /\ r \in Clients
    BY DEF ProgramsInv, TypeInv, ProgramsTypeOK, Clients
  <2>2. i \in Slots /\ i # NULL /\ c_chan[r] = i /\ r \in up
    BY <1>1, <2>1, LookupIs DEF ProgramsInv, PlacesInv, TypeInv
  <2> QED BY <1>1, <2>1, <2>2, MessageReceived DEF Page
<1>4. /\ c_pc' \in [Clients -> {"idle", "flag", "wait", "have", "failed"}]
      /\ c_chan' \in [Clients -> Slots \cup {NULL}]
      /\ c_pc'[r] = "idle" /\ c_chan'[r] = NULL
      /\ c_chan' = [c_chan EXCEPT ![r] = NULL]
      /\ \A d \in Clients \ {r} :
           c_pc'[d] = c_pc[d] /\ c_chan'[d] = c_chan[d]
  BY DEF RecvReturns, Return, ProgramsInv, TypeInv, Clients
<1>5. /\ recv_buf' = [recv_buf EXCEPT ![r] = <<>>]
      /\ recv_buf' \in [Readers -> Seq(Page)] /\ recv_buf'[r] = <<>>
      /\ \A q \in Readers \ {r} : recv_buf'[q] = recv_buf[q]
  BY DEF RecvReturns, ProgramsInv, TypeInv
<1>6. /\ expected_counter' \in [Readers -> Nat]
      /\ expected_counter'[r] = e + 1
      /\ verdict' \in [Readers ->
                         {"none", "match", "mismatch", "tag", "torn"}]
      /\ verdict'[r] \in Judgements(r)
      /\ \A q \in Readers \ {r} : /\ expected_counter'[q] = expected_counter[q]
                                  /\ verdict'[q] = verdict[q]
  <2>1. PICK v \in Judgements(r) : verdict' = [verdict EXCEPT ![r] = v]
    BY DEF RecvReturns
  <2>2. v \in {"match", "mismatch"}
    BY DEF Judgements
  <2>3. expected_counter' = [expected_counter EXCEPT ![r] = @ + 1]
    BY DEF RecvReturns
  <2> QED BY <2>1, <2>2, <2>3 DEF ProgramsInv, TypeInv, ProgramsTypeOK
<1>7. i \notin torn \cup met =>
        verdict'[r] = IF m = e THEN "match" ELSE "mismatch"
  BY <1>3, <1>6 DEF received_counter, Judgements
<1> HIDE DEF m, e
<1>8. TypeInv'
  <2>1. \A q \in Readers : Len(recv_buf'[q]) <= Parts
    BY <1>5, ProgramsAssumption DEF ProgramsInv, TypeInv
  <2> QED BY <1>1, <1>4, <1>5, <1>6, <2>1
          DEF ProgramsInv, TypeInv, ProgramsTypeOK
<1>9. PlacesInv'
  <2>1. ASSUME NEW d \in Clients
        PROVE  /\ c_pc'[d] = "have" => c_chan'[d] = Lookup(d)
                                      /\ Lookup(d) # NULL
               /\ c_pc'[d] # "have" => c_chan'[d] = NULL
               /\ d \notin up => c_pc'[d] = "idle"
    BY <1>4 DEF ProgramsInv, PlacesInv
  <2>2. ASSUME NEW q \in Readers
        PROVE  /\ recv_buf'[q] # <<>> => c_pc'[q] = "have"
               /\ c_pc'[q] \in {"idle", "have", "failed"}
               /\ q \notin up \/ Lookup(q) = NULL => expected_counter'[q] = 0
    BY <1>3, <1>4, <1>5, <1>6 DEF ProgramsInv, PlacesInv, Clients
  <2>3. ASSUME NEW v \in Writers PROVE c_pc'[v] # "have" => sent[v] = 0
    BY <1>4, ProcessesAssumption DEF ProgramsInv, PlacesInv, Clients
  <2> QED BY <1>1, <1>2, <2>1, <2>2, <2>3 DEF ProgramsInv, PlacesInv
<1>10. ASSUME NEW q \in Readers, NEW j \in Slots
       PROVE  /\ Inside(q, j)' <=> Inside(q, j) /\ q # r
              /\ Inside(r, j) => j = i
              /\ Lookup(q) = i => q = r
  <2>1. Lookup(q) = i => q = r
    BY <1>3, ReaderAlone DEF ProgramsInv, TypeInv
  <2> QED BY <1>3, <1>4, <1>5, <2>1 DEF Inside, Clients
<1>11. \A j \in Slots : UnderWay(j)' => UnderWay(j)
  BY <1>1, <1>10 DEF UnderWay
<1>12. \A v \in Writers : Fresh(v)' <=> Fresh(v)
  BY <1>1, <1>4, ProcessesAssumption DEF Fresh, Clients
<1>13. StreamInv'
  <2> SUFFICES ASSUME NEW j \in Slots \ met
               PROVE  StreamAt(j)' /\ (j \notin torn => AlignedAt(j)')
    BY <1>1 DEF StreamInv
  <2>1. CASE j = i
    BY <1>1, <1>3, <1>4, <1>5, <2>1, StreamAfterMessage
    DEF ProgramsInv, StreamInv
  <2>2. CASE j # i
    <3>1. StreamAt(j) /\ (j \notin torn => AlignedAt(j))
      BY DEF ProgramsInv, StreamInv
    <3>2. \A q \in Readers : Inside(q, j)' <=> Inside(q, j)
      BY <1>10, <2>2
    <3>3. \A q \in Readers : Inside(q, j) => recv_buf'[q] = recv_buf[q]
      BY <1>5, <1>10, <2>2
    <3> QED BY <1>1, <1>2, <3>1, <3>2, <3>3, StreamKept DEF ProgramsInv
  <2> QED BY <2>1, <2>2
<1>14. FreshInv'
  <2> SUFFICES ASSUME NEW v \in Writers, Lookup(v) # NULL, Fresh(v),
                      Lookup(v) \notin met
               PROVE  ~UnderWay(Lookup(v))' /\ Lookup(v) \notin torn
    BY <1>1, <1>2, <1>12 DEF FreshInv, UnderWay, Inside
  <2>1. /\ ~UnderWay(Lookup(v)) /\ Lookup(v) \notin torn
        /\ Lookup(v) \in Slots
    BY LookupIs DEF ProgramsInv, FreshInv, TypeInv
  <2> QED BY <1>1, <1>2, <1>10, <2>1 DEF UnderWay, Inside
<1>15. AesInv'
  <2>1. aes /\ i \notin met => LayoutDecrypts
    BY <1>3 DEF RecvReturns, Decrypts, LayoutDecrypts
  <2>2. LayoutDecrypts' <=> LayoutDecrypts
    BY DEF LayoutDecrypts, aes_gcm_decrypt, send_buf, ct_len, Bytes
  <2>3. ASSUME NEW q \in Readers, aes, Judged(q)', Lookup(q) \notin met
        PROVE  LayoutDecrypts
    <3>1. q # r => Judged(q)
      BY <1>6, <2>3 DEF Judged
    <3> QED BY <2>1, <2>3, <3>1 DEF ProgramsInv, AesInv
  <2> QED BY <1>1, <1>2, <2>2, <2>3 DEF AesInv
<1>16. Counted(r) => i \notin torn \cup met /\ m = e
  <2> SUFFICES ASSUME Counted(r) PROVE i \notin torn \cup met /\ m = e
    OBVIOUS
  <2>1. i \notin torn \cup met
    BY DEF Counted, ProgramsInv, PlacesInv
  <2>2. CountOf(r)
    BY DEF ProgramsInv, CountInv
  <2> QED BY <1>3, <2>1, <2>2 DEF CountOf, e
<1>17. MismatchExplained'
  <2> SUFFICES ASSUME NEW q \in Readers, verdict'[q] = "mismatch"
               PROVE  \/ Lookup(q) \in served \cup met
                      \/ \E w \in refused : Lookup(w) = Lookup(q)
    BY <1>1, <1>2 DEF MismatchExplained
  <2>1. CASE q # r
    BY <1>6, <2>1 DEF ProgramsInv, MismatchExplained
  <2>2. CASE q = r
    <3>1. ~Counted(r)
      BY <1>7, <1>16, <2>2
    <3> QED BY <2>2, <3>1 DEF Counted
  <2> QED BY <2>1, <2>2
<1>18. ASSUME i \notin torn \cup met, NEW k \in Due(r)' PROVE k = m + 1
  <2> DEFINE last == LastOf(buf)
  <2>1. /\ last = [buf[1] EXCEPT !.part = Parts - 1]
        /\ last.part = Parts - 1 /\ last.msg = m
        /\ Parts \in Nat \ {0}
    BY <1>3, <1>18, ProgramsAssumption DEF Page, m
  <2> HIDE DEF last
  <2>2. StreamAt(i) /\ Inside(r, i)
    BY <1>3, <1>18 DEF ProgramsInv, StreamInv, Inside
  <2>3. CASE queue[i] # <<>>
    <3>1. k = queue[i][1].msg
      BY <1>1, <1>2, <1>5, <1>18, <2>3 DEF Due
    <3>2. queue[i][1] \in Page
      BY <1>3, <2>3 DEF ProgramsInv, TypeInv
    <3>3. queue[i][1].part \in 0 .. Parts - 1
      BY <3>2 DEF Page
    <3>4. Follows(last, queue[i][1])
      BY <2>2, <2>3 DEF StreamAt, last
    <3> QED BY <2>1, <3>1, <3>3, <3>4 DEF Follows
  <2>4. CASE queue[i] = <<>>
    <3>1. PICK v \in Writers : Writing(v) /\ Lookup(v) = i /\ k = NextMsg(v)
      <4>1. Due(r)' = {NextMsg(v)' :
              v \in {u \in Writers : Writing(u)' /\ Lookup(u)' = Lookup(r)'}}
        BY <1>1, <1>2, <1>5, <2>4 DEF Due
      <4>2. \A v \in Writers : /\ NextMsg(v)' = NextMsg(v)
                               /\ Writing(v)' <=> Writing(v)
        BY <1>1 DEF NextMsg, Writing
      <4> QED BY <1>2, <1>18, <4>1, <4>2
    <3>2. v \in up
      BY <1>3, <1>18, <3>1 DEF Writing, Fresh, ProgramsInv, FreshInv
    <3>3. Follows(last, ThePage(v))
      BY <2>2, <2>4, <3>1, <3>2 DEF StreamAt, last
    <3>4. sent[v] \in 0 .. Parts /\ counter[v] \in Nat
      BY DEF ProgramsInv, TypeInv, ProgramsTypeOK
    <3> QED BY <2>1, <3>1, <3>3, <3>4 DEF Follows, ThePage, NextMsg
  <2> QED BY <2>3, <2>4
<1>19. ASSUME NEW q \in Readers PROVE CountOf(q)' /\ VerdictOf(q)'
  <2>1. CASE q # r
    <3>1. Due(q)' \subseteq Due(q)
      BY <1>1, <1>2, <1>5, <2>1, DueKept DEF Writing, NextMsg
    <3> QED BY <1>1, <1>2, <1>6, <1>12, <2>1, <3>1, CountsKept
  <2>2. CASE q = r
    <3>1. Counted(r)' <=> Counted(r)
      BY <1>1, <1>2 DEF Counted
    <3>2. CountOf(r)'
      <4>1. \A k \in Due(r)' : Counted(r) => k = e + 1
        BY <1>16, <1>18
      <4> QED BY <1>6, <3>1, <4>1 DEF CountOf
    <3>3. VerdictOf(r)'
      <4>1. i \notin met => \A v \in Writers : Lookup(v) = i => ~Fresh(v)
        BY <1>3 DEF ProgramsInv, FreshInv
      <4>2. i \notin torn \cup met =>
              \A k \in Due(r)' : k = e + 1 <=> verdict'[r] = "match"
        BY <1>3, <1>7, <1>18 DEF m, e
      <4> QED BY <1>1, <1>2, <1>3, <1>6, <1>12, <4>1, <4>2 DEF VerdictOf
    <3> QED BY <2>2, <3>2, <3>3
  <2> QED BY <2>1, <2>2
<1> QED BY <1>8, <1>9, <1>13, <1>14, <1>15, <1>17, <1>19
        DEF ProgramsInv, CountInv, VerdictInv

-----------------------------------------------------------------------------
(* Theorems.                                                               *)

LEMMA ProgramsInvNext ==
  ASSUME OneReader, ProgramsInv, [ProgramsNext]_all_vars
  PROVE  ProgramsInv'
<1>1. ASSUME NEW c \in Clients, Kill(c) PROVE ProgramsInv'
  <2>1. /\ c \in up /\ Leaves(c)
        /\ verdict' = [r \in Readers |-> IF r = c THEN "none" ELSE verdict[r]]
        /\ torn' = IF c \in Readers /\ recv_buf[c] # <<>>
                     THEN torn \cup {c_chan[c]} ELSE torn
    BY <1>1 DEF Kill
  <2>2. /\ verdict' \in [Readers ->
                           {"none", "match", "mismatch", "tag", "torn"}]
        /\ \A r \in Readers : \/ verdict'[r] = verdict[r]
                              \/ r = c /\ verdict'[r] = "none"
    BY <2>1 DEF ProgramsInv, TypeInv, ProgramsTypeOK
  <2> QED BY <2>1, <2>2, LeavesStep
<1>2. ASSUME NEW w \in Writers, BeginSend(w) \/ AwaitChannel(w)
      PROVE  ProgramsInv'
  <2>1. w \in Clients /\ w \notin Readers
    BY ProcessesAssumption DEF Clients
  <2>2. CASE BeginSend(w)
    BY <2>1, <2>2, FoundStep DEF BeginSend, RequestChannel
  <2>3. CASE PollDone(w) /\ UNCHANGED program_vars
    <3>1. c_pc[w] = "wait" /\ Found(w, "failed")
      BY <2>3 DEF PollDone
    <3>2. w \in up
      BY <2>1, <3>1 DEF ProgramsInv, PlacesInv
    <3> QED BY <2>1, <2>3, <3>1, <3>2, FoundStep
  <2> QED BY <1>2, <2>2, <2>3, RaiseFlagStep DEF AwaitChannel
<1>3. ASSUME NEW r \in Readers, BeginRecv(r) PROVE ProgramsInv'
  BY <1>3, FoundStep DEF BeginRecv, FindForReceive, Clients
<1>4. ASSUME NEW r \in Readers, RecvFails(r) \/ DecryptFails(r)
      PROVE  ProgramsInv'
  <2>1. r \in Clients /\ Leaves(r) /\ torn' = torn
    BY <1>4 DEF RecvFails, DecryptFails, Clients
  <2>2. verdict \in [Readers -> {"none", "match", "mismatch", "tag", "torn"}]
    BY DEF ProgramsInv, TypeInv, ProgramsTypeOK
  <2>3. r \in up
    BY <1>4, <2>1 DEF RecvFails, DecryptFails, ProgramsInv, PlacesInv
  <2>4. recv_buf[r] # <<>> => Len(recv_buf[r]) = Parts \/ c_chan[r] \in met
    BY <1>4 DEF RecvFails, DecryptFails, HasBuffer, ProgramsInv, PlacesInv
  <2>5. \/ verdict' = verdict
        \/ \E v \in {"tag", "torn"} : verdict' = [verdict EXCEPT ![r] = v]
    BY <1>4 DEF RecvFails, DecryptFails
  <2>6. /\ verdict' \in [Readers ->
                           {"none", "match", "mismatch", "tag", "torn"}]
        /\ \A q \in Readers : \/ verdict'[q] = verdict[q]
                              \/ q = r /\ verdict'[q] \in {"tag", "torn"}
    BY <2>2, <2>5
  <2> QED BY <2>1, <2>3, <2>4, <2>6, LeavesStep
<1>5. CASE UNCHANGED all_vars
  BY <1>5, QuietStep
  DEF all_vars, table_vars, program_vars, moves, ProgramsInv, TypeInv,
      ProgramsTypeOK
<1> QED BY <1>1, <1>2, <1>3, <1>4, <1>5, HostStep, StartStep,
           PutPageStep, SendEndsStep, TakePageStep, RecvReturnsStep
        DEF ProgramsNext, Sending, Receiving

(* Whatever processes are started and killed, in any order, the pages in   *)
(* a channel are those of one stream, and the counts agree with it.        *)
THEOREM ProgramsInvariant ==
  ASSUME OneReader
  PROVE  ProgramsSpec => []ProgramsInv
<1>1. ProgramsInv /\ [ProgramsNext]_all_vars => ProgramsInv'
  BY ProgramsInvNext
<1> QED BY <1>1, ProgramsInvInit, PTL DEF ProgramsSpec

(* The states of the two programs and of their channels are of the types   *)
(* that Programs declares; no channel holds more than its pages.           *)
THEOREM ProgramsTypeCorrect ==
  ASSUME OneReader
  PROVE  ProgramsSpec => []ProgramsTypeOK
<1>1. ProgramsInv => ProgramsTypeOK
  BY DEF ProgramsInv, TypeInv
<1> QED BY <1>1, ProgramsInvariant, PTL

(* What ivshmem_recv_buffer returns are the pages of one message; behind   *)
(* an earlier reader that was killed inside one they are consecutive pages *)
(* of one writer.  Either way only in a channel never moved in use.        *)
THEOREM ProgramsWholeMessages ==
  ASSUME OneReader
  PROVE  ProgramsSpec => []WholeMessages
<1>1. ASSUME ProgramsInv, NEW r \in Readers, c_chan[r] \notin met
      PROVE  /\ \A k \in 1 .. Len(recv_buf[r]) - 1 :
                  Follows(recv_buf[r][k], recv_buf[r][k + 1])
             /\ c_chan[r] \notin torn => Whole(recv_buf[r])
  <2>1. CASE recv_buf[r] = <<>>
    BY <2>1 DEF Whole
  <2>2. CASE recv_buf[r] # <<>>
    <3>1. c_chan[r] \in Slots \ met /\ Inside(r, c_chan[r])
      BY <1>1, <2>2, LookupIs
      DEF Inside, ProgramsInv, PlacesInv, TypeInv, Clients
    <3>2. \A k \in 1 .. Len(recv_buf[r]) - 1 :
            Follows(recv_buf[r][k], recv_buf[r][k + 1])
      BY <1>1, <3>1 DEF ProgramsInv, StreamInv, StreamAt
    <3>3. c_chan[r] \notin torn =>
            \A k \in 1 .. Len(recv_buf[r]) :
              recv_buf[r][k] = [recv_buf[r][1] EXCEPT !.part = k - 1]
      BY <1>1, <3>1 DEF ProgramsInv, StreamInv, AlignedAt
    <3>4. DOMAIN recv_buf[r] = 1 .. Len(recv_buf[r])
      BY <1>1 DEF ProgramsInv, TypeInv
    <3> QED BY <3>2, <3>3, <3>4 DEF Whole
  <2> QED BY <2>1, <2>2
<1>2. ProgramsInv => WholeMessages
  BY <1>1 DEF WholeMessages
<1> QED BY <1>2, ProgramsInvariant, PTL

(* "Data mismatch" is printed only by a reader of whose channel an earlier *)
(* reader took pages, whose writer counted a message it could not send, or *)
(* whose channel a rebalancing moved in use.                               *)
THEOREM ProgramsMismatchExplained ==
  ASSUME OneReader
  PROVE  ProgramsSpec => []MismatchExplained
<1>1. ProgramsInv => MismatchExplained
  BY DEF ProgramsInv
<1> QED BY <1>1, ProgramsInvariant, PTL

(* A reader says of every message what it said of the first, on a channel  *)
(* that is neither torn nor moved in use.                                  *)
THEOREM ProgramsVerdictStays ==
  ASSUME OneReader
  PROVE  ProgramsSpec => VerdictStays
<1>1. ASSUME ProgramsInv, [ProgramsNext]_all_vars, NEW r \in Readers,
             verdict[r] \in {"match", "mismatch"},
             Lookup(r) \notin torn \cup met
      PROVE  verdict'[r] \in {verdict[r], "none"}
  <2>1. ASSUME c_pc[r] = "have", HasBuffer(r)
        PROVE  /\ c_chan[r] \notin met /\ Len(recv_buf[r]) = Parts
               /\ r \in up /\ Whole(recv_buf[r])
               /\ recv_buf[r][1].part = 0
               /\ Due(r) = {recv_buf[r][1].msg}
    <3>1. c_chan[r] \notin met
      BY <1>1, <2>1 DEF ProgramsInv, PlacesInv, Clients
    <3>2. Len(recv_buf[r]) = Parts
      BY <2>1, <3>1 DEF HasBuffer
    <3> QED BY <1>1, <2>1, <3>1, <3>2, MessageReceived
  <2>2. CASE RecvReturns(r)
    <3>1. /\ c_chan[r] \notin met /\ r \in up
          /\ received_counter(r) = recv_buf[r][1].msg
          /\ Due(r) = {recv_buf[r][1].msg}
      BY <2>1, <2>2 DEF RecvReturns, received_counter
    <3>2. received_counter(r) = expected_counter[r] <=> verdict[r] = "match"
      BY <1>1, <3>1 DEF ProgramsInv, VerdictInv, VerdictOf, Judged
    <3>3. PICK v \in Judgements(r) : verdict' = [verdict EXCEPT ![r] = v]
      BY <2>2 DEF RecvReturns
    <3>4. v = verdict[r]
      BY <1>1, <3>1, <3>2, <3>3 DEF Judgements
    <3> QED BY <1>1, <3>3, <3>4 DEF ProgramsInv, TypeInv, ProgramsTypeOK
  <2>3. CASE DecryptFails(r)
    <3>1. aes /\ ~Decrypts(recv_buf[r]) /\ Whole(recv_buf[r])
      BY <2>1, <2>3 DEF DecryptFails
    <3>2. LayoutDecrypts
      BY <1>1, <3>1 DEF ProgramsInv, AesInv, Judged
    <3> QED BY <3>1, <3>2 DEF Decrypts, LayoutDecrypts
  <2>4. CASE \E c \in Clients : Start(c) \/ Kill(c)
    BY <2>4 DEF Start, Kill
  <2>5. CASE \E q \in Readers \ {r} : RecvReturns(q) \/ DecryptFails(q)
    BY <1>1, <2>5
    DEF RecvReturns, DecryptFails, ProgramsInv, TypeInv, ProgramsTypeOK
  <2>6. CASE verdict' = verdict
    BY <2>6
  <2>7. ASSUME NEW w \in Writers, Sending(w) PROVE verdict' = verdict
    BY <2>7 DEF Sending, BeginSend, AwaitChannel, PutPage, SendReturns,
                SendFails, program_vars, readers
  <2>8. ASSUME NEW q \in Readers,
               BeginRecv(q) \/ RecvFails(q) \/ TakePage(q)
        PROVE  verdict' = verdict
    BY <2>8 DEF BeginRecv, RecvFails, TakePage, program_vars, readers
  <2>9. Hosting => verdict' = verdict
    BY DEF Hosting, RebalanceEnds, ChannelCreated, program_vars, readers
  <2>10. UNCHANGED all_vars => verdict' = verdict
    BY DEF all_vars, program_vars, readers
  <2> QED BY <1>1, <2>2, <2>3, <2>4, <2>5, <2>6, <2>7, <2>8, <2>9, <2>10
          DEF ProgramsNext, Receiving
<1> DEFINE A == \A r \in Readers :
                  verdict[r] \in {"match", "mismatch"}
                    /\ Lookup(r) \notin torn \cup met
                    => verdict'[r] \in {verdict[r], "none"}
<1>2. ProgramsInv /\ [ProgramsNext]_all_vars => [A]_all_vars
  BY <1>1
<1> HIDE DEF A
<1>3. ProgramsSpec => [][A]_all_vars
  BY <1>2, ProgramsInvariant, PTL DEF ProgramsSpec
<1> QED BY <1>3 DEF VerdictStays, A
=============================================================================
