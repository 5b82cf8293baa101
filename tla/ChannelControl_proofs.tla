----------------------- MODULE ChannelControl_proofs ------------------------
(***************************************************************************)
(* The control plane for every table length, all sizes the headers may     *)
(* give, any clients and any number of host starts: the table stays        *)
(* well formed through creations, rebalancings and crashes, and pointers   *)
(* into it stay good.  One lemma per kind of step, then the consequences.  *)
(***************************************************************************)
EXTENDS ChannelControl, SequenceTheorems, TLAPS

(* The sizes of the headers as numbers, without the arithmetic facts that  *)
(* make the provers slow.                                                  *)
LEMMA Sizes ==
  /\ IVSHMEM_PAGE_SIZE \in Nat \ {0}
  /\ IVSHMEM_MAX_CHANNELS \in Nat \ {0}
  /\ IVSHMEM_CHANNEL_INIT_SIZE \in Nat
  /\ DATA_SECTION_SIZE \in Nat
BY SizesAssumption

(* C's division of naturals rounds down.                                   *)
LEMMA DivNat ==
  ASSUME NEW a \in Nat, NEW b \in Nat \ {0}
  PROVE  a \div b \in Nat /\ (a \div b) * b <= a
BY SMT

(* Multiplication is monotone.                                             *)
LEMMA MulMono ==
  ASSUME NEW a \in Nat, NEW b \in Nat, NEW c \in Nat, a <= b
  PROVE  c * a <= c * b
BY SMT

(* The share ivshmem_trusted_rebalancing computes is a natural number of   *)
(* pages and of bytes.                                                     *)
LEMMA ShareNat ==
  ASSUME NEW n \in Nat \ {0}
  PROVE  NumPage(n) \in Nat /\ AllocatedBufferSize(n) \in Nat
<1> DEFINE X == DATA_SECTION_SIZE - IVSHMEM_CHANNEL_INIT_SIZE - 1
<1>1. X \in Nat
  <2>1. IVSHMEM_MAX_CHANNELS * (2 * IVSHMEM_PAGE_SIZE) \in Nat
    BY SizesAssumption
  <2> QED BY <2>1, SizesAssumption
<1>2. X \div n \in Nat
  BY <1>1, DivNat
<1>3. NumPage(n) \in Nat
  BY <1>2, DivNat, SizesAssumption DEF NumPage
<1> QED BY <1>3, SizesAssumption DEF AllocatedBufferSize

(* All the shares together leave the reserve: the two roundings of         *)
(* ivshmem_trusted_rebalancing go down.                                    *)
LEMMA ShareBound ==
  ASSUME NEW n \in Nat \ {0}
  PROVE  n * AllocatedBufferSize(n)
           <= DATA_SECTION_SIZE - IVSHMEM_CHANNEL_INIT_SIZE - 1
<1> DEFINE X == DATA_SECTION_SIZE - IVSHMEM_CHANNEL_INIT_SIZE - 1
           q == X \div n
<1>1. X \in Nat
  <2>1. IVSHMEM_MAX_CHANNELS * (2 * IVSHMEM_PAGE_SIZE) \in Nat
    BY SizesAssumption
  <2> QED BY <2>1, SizesAssumption
<1>2. q \in Nat /\ q * n <= X
  BY <1>1, DivNat
<1>3. AllocatedBufferSize(n) <= q
  <2> HIDE DEF q
  <2>1. (q \div IVSHMEM_PAGE_SIZE) * IVSHMEM_PAGE_SIZE <= q
    BY <1>2, DivNat, SizesAssumption
  <2> QED BY <2>1 DEF AllocatedBufferSize, NumPage, q
<1>4. AllocatedBufferSize(n) \in Nat
  BY ShareNat
<1>5. n * AllocatedBufferSize(n) <= n * q
  <2> HIDE DEF q
  <2> QED BY <1>2, <1>3, <1>4, MulMono
<1>6. n * q = q * n
  <2> HIDE DEF q
  <2> QED BY <1>2
<1>7. n * AllocatedBufferSize(n) \in Nat
  BY <1>4
<1> HIDE DEF q, X
<1>8. n * AllocatedBufferSize(n) <= X
  BY <1>1, <1>2, <1>4, <1>5, <1>6, <1>7
<1> QED BY <1>8 DEF X

(* ivshmem_find_channel returns a slot or NULL.                            *)
LEMMA LookupType ==
  ASSUME NEW chans, NEW n, NEW k
  PROVE  ivshmem_find_channel(chans, n, k) \in Slots \cup {NULL}
BY DEF ivshmem_find_channel

(* A cleared slot is a channel.                                            *)
LEMMA KeyTypes == NoKey \in Key /\ NoChannel \in Channel
BY DEF NoKey, NoChannel, Key, Channel

(* What ivshmem_init_channel writes is a channel.                          *)
LEMMA NewChannelType ==
  ASSUME NEW id \in Nat, NEW free \in Nat, NEW k \in Key
  PROVE  ivshmem_init_channel(id, free, k) \in Channel
<1>1. IVSHMEM_CHANNEL_INIT_SIZE \div IVSHMEM_PAGE_SIZE \in Nat
  BY DivNat, Sizes
<1> QED BY <1>1, Sizes DEF ivshmem_init_channel, Channel

(* What a turn of the rebalancing loop writes is a channel.                *)
LEMMA MovedChannelType ==
  ASSUME ControlTypeOK, num_active_channels # 0, NEW i \in Slots
  PROVE  /\ MoveChannel(i) \in Channel
         /\ AllocatedBufferSize(num_active_channels) \in Nat
<1>1. /\ NumPage(num_active_channels) \in Nat
      /\ AllocatedBufferSize(num_active_channels) \in Nat
  BY ShareNat, Sizes DEF ControlTypeOK
<1>2. p_chan_tmp[i] \in Channel
  BY DEF ControlTypeOK
<1> QED BY <1>1, <1>2 DEF MoveChannel, Channel, ControlTypeOK

(* Shared memory before the first start of the host is well typed.         *)
LEMMA ControlTypeInit == ControlInit => ControlTypeOK
<1> SUFFICES ASSUME ControlInit PROVE ControlTypeOK
  OBVIOUS
<1>1. channels \in [Slots -> Channel] /\ p_chan_tmp \in [Slots -> Channel]
  BY KeyTypes DEF ControlInit
<1>2. /\ c_pc \in [Clients -> ClientPC]
      /\ c_chan \in [Clients -> Slots \cup {NULL}]
      /\ c_start \in [Clients -> Nat]
  BY DEF ControlInit, ClientPC
<1>3. /\ num_active_channels \in 0 .. IVSHMEM_MAX_CHANNELS
      /\ cnt \in 0 .. IVSHMEM_MAX_CHANNELS
  BY Sizes DEF ControlInit
<1> QED BY <1>1, <1>2, <1>3, KeyTypes
        DEF ControlInit, ControlTypeOK, HostPC

(* Every step of the host and of a client keeps the types,                 *)
(* num_active_channels within the table included.                          *)
LEMMA ControlTypeStep ==
  ControlTypeOK /\ [ControlNext]_control_vars => ControlTypeOK'
<1> SUFFICES ASSUME ControlTypeOK, [ControlNext]_control_vars
             PROVE  ControlTypeOK'
  OBVIOUS
<1> USE DEF ControlTypeOK, HostPC
<1>1. CASE UNCHANGED control_vars
  BY <1>1 DEF control_vars, table, mailbox, host, client
<1>2. CASE TrustedStart
  <2>1. channels' \in [Slots -> Channel]
    BY <1>2, KeyTypes DEF TrustedStart
  <2>2. /\ free_start_offset' \in Nat
        /\ num_active_channels' \in 0 .. IVSHMEM_MAX_CHANNELS
        /\ last_channel_id' \in Nat
        /\ starts' \in Nat
    BY <1>2, Sizes DEF TrustedStart
  <2> QED BY <1>2, <2>1, <2>2 DEF TrustedStart, client
<1>3. CASE TrustedCrash
  BY <1>3, KeyTypes, Sizes DEF TrustedCrash, table, mailbox, client
<1>4. CASE RebalanceLock
  BY <1>4 DEF RebalanceLock, table, mailbox, client
<1>5. CASE RebalanceSkip
  BY <1>5 DEF RebalanceSkip, table, mailbox, client
<1>6. CASE RebalanceNoMemory
  BY <1>6 DEF RebalanceNoMemory, table, mailbox, client
<1>7. CASE RebalanceCopy
  BY <1>7, Sizes DEF RebalanceCopy, mailbox, client
<1>8. CASE RebalanceMove
  <2>1. cnt \in Slots /\ num_active_channels # 0
    BY <1>8, Sizes DEF RebalanceMove, Slots
  <2>2. /\ MoveChannel(cnt) \in Channel
        /\ AllocatedBufferSize(num_active_channels) \in Nat
    BY <2>1, MovedChannelType
  <2>3. channels' \in [Slots -> Channel]
    BY <1>8, <2>2 DEF RebalanceMove
  <2>5. free_start_offset' \in Nat
    BY <1>8, <2>2 DEF RebalanceMove
  <2>4. cnt' \in 0 .. IVSHMEM_MAX_CHANNELS
    BY <1>8, Sizes DEF RebalanceMove
  <2> QED BY <1>8, <2>3, <2>4, <2>5 DEF RebalanceMove, mailbox, client
<1>9. CASE RebalanceUnlock
  BY <1>9, KeyTypes, Sizes DEF RebalanceUnlock, mailbox, client
<1>10. CASE ControlLock
  BY <1>10 DEF ControlLock, table, mailbox, client
<1>11. CASE ControlReadKey
  BY <1>11 DEF ControlReadKey, table, mailbox, client
<1>12. CASE ControlCreate
  <2>1. CASE /\ HasRoom(free_start_offset, num_active_channels)
             /\ channels' = [channels EXCEPT ![num_active_channels] =
                               ivshmem_init_channel(last_channel_id,
                                                    free_start_offset,
                                                    CandidateRead)]
             /\ last_channel_id' = last_channel_id + 1
             /\ free_start_offset' =
                  free_start_offset + IVSHMEM_CHANNEL_INIT_SIZE
             /\ num_active_channels' = num_active_channels + 1
    <3>1. CandidateRead \in Key
      BY DEF CandidateRead, Key
    <3>2. ivshmem_init_channel(last_channel_id, free_start_offset,
                               CandidateRead) \in Channel
      BY <3>1, NewChannelType
    <3>3. channels' \in [Slots -> Channel]
      BY <2>1, <3>2
    <3>4. /\ num_active_channels' \in 0 .. IVSHMEM_MAX_CHANNELS
          /\ free_start_offset' \in Nat
          /\ last_channel_id' \in Nat
      BY <2>1, Sizes DEF HasRoom
    <3> QED BY <1>12, <3>3, <3>4, KeyTypes DEF ControlCreate, mailbox, client
  <2>2. CASE UNCHANGED table
    BY <1>12, <2>2, KeyTypes DEF ControlCreate, table, mailbox, client
  <2> QED BY <1>12, <2>1, <2>2 DEF ControlCreate
<1>13. CASE ControlClear
  BY <1>13 DEF ControlClear, table, client
<1>14. CASE ControlUnlock
  BY <1>14 DEF ControlUnlock, table, mailbox, client
<1>15. ASSUME NEW c \in Clients,
              RequestChannel(c) \/ PollDone(c) \/ FindForReceive(c)
       PROVE  ControlTypeOK'
  <2>1. Lookup(c) \in Slots \cup {NULL}
    BY LookupType DEF Lookup
  <2>2. \E l \in ClientPC : Found(c, l)
    BY <1>15 DEF RequestChannel, PollDone, FindForReceive, ClientPC
  <2>3. /\ c_chan' \in [Clients -> Slots \cup {NULL}]
        /\ c_start' \in [Clients -> Nat]
        /\ c_pc' \in [Clients -> ClientPC]
    BY <2>1, <2>2 DEF Found, ClientPC
  <2> QED BY <1>15, <2>3
          DEF RequestChannel, PollDone, FindForReceive, table, mailbox, host
<1>16. ASSUME NEW w \in Clients, WriterWork(w)
       PROVE  ControlTypeOK'
  <2>1. CASE RaiseFlag(w)
    BY <2>1 DEF RaiseFlag, ClientPC, table, host
  <2>2. CASE WriteSender(w)
    <3>1. channel_candidate' \in Key
      BY <2>2, ClientsAssumption DEF WriteSender, Key
    <3> QED BY <2>2, <3>1 DEF WriteSender, ClientPC, table, host
  <2>3. CASE WriteReceiver(w)
    <3>1. channel_candidate' \in Key
      BY <2>3, ClientsAssumption DEF WriteReceiver, Key
    <3> QED BY <2>3, <3>1 DEF WriteReceiver, ClientPC, table, host
  <2> QED BY <1>16, <2>1, <2>2, <2>3 DEF WriterWork
<1>17. ASSUME NEW c \in Clients, Return(c)
       PROVE  ControlTypeOK'
  BY <1>17 DEF Return, ClientPC, table, mailbox, host
<1> QED
  BY <1>1, <1>2, <1>3, <1>4, <1>5, <1>6, <1>7, <1>8, <1>9, <1>10, <1>11,
     <1>12, <1>13, <1>14, <1>15, <1>16, <1>17
  DEF ControlNext, Host, HostWork, Clients

(* Type correctness of the control section for any table length, sizes and *)
(* clients: num_active_channels never passes the table, every p_chan is a  *)
(* slot of it or NULL.                                                     *)
THEOREM ControlTypeCorrect == ControlSpec => []ControlTypeOK
BY ControlTypeInit, ControlTypeStep, PTL DEF ControlSpec

-----------------------------------------------------------------------------
(* The table and the pointers into it.                                     *)

(* A step that leaves the table alone keeps what is said of the table.     *)
LEMMA TableFrame ==
  ASSUME UNCHANGED table
  PROVE  /\ LaidOut(num_active_channels)' <=> LaidOut(num_active_channels)
         /\ SharesSettled' <=> SharesSettled
         /\ free_start_offset' = free_start_offset
         /\ num_active_channels' = num_active_channels
BY DEF table, LaidOut, SharesSettled, End

(* A step that keeps the owners of the active slots and the clients'       *)
(* locals keeps every pointer good.                                        *)
LEMMA PointerFrame ==
  ASSUME PointersMatch, UNCHANGED <<client, starts>>,
         Active \subseteq Active',
         \A i \in Active : channels'[i].key = channels[i].key
  PROVE  PointersMatch'
BY DEF PointersMatch, client

(* The slot ivshmem_find_channel returns is active and matches the key.    *)
LEMMA LookupMatches ==
  ASSUME NEW chans, NEW n, NEW k, ivshmem_find_channel(chans, n, k) # NULL
  PROVE  /\ ivshmem_find_channel(chans, n, k) \in 0 .. n - 1
         /\ Matches(chans[ivshmem_find_channel(chans, n, k)].key, k)
<1>1. \E i \in Slots : FirstMatch(chans, n, k, i)
  BY DEF ivshmem_find_channel
<1>2. FirstMatch(chans, n, k, ivshmem_find_channel(chans, n, k))
  BY <1>1 DEF ivshmem_find_channel
<1> QED BY <1>2 DEF FirstMatch

(* The invariant holds before the host is started.                         *)
LEMMA ControlInvInit == ControlInit => ControlInv
<1> SUFFICES ASSUME ControlInit PROVE ControlInv
  OBVIOUS
<1>1. ControlTypeOK
  BY ControlTypeInit
<1>2. ~Settled /\ t_pc = "down"
  BY DEF ControlInit, Settled
<1>3. PointersMatch /\ \A c \in Clients : c_start[c] <= starts
  BY DEF ControlInit, PointersMatch
<1> QED BY <1>1, <1>2, <1>3 DEF ControlInv

\* Host steps that leave the table alone and stay outside its loop.
LEMMA QuietHostStep ==
  ASSUME ControlInv, ControlTypeOK',
         \/ RebalanceLock \/ RebalanceSkip \/ RebalanceNoMemory
         \/ ControlLock \/ ControlReadKey \/ ControlClear \/ ControlUnlock
  PROVE  ControlInv'
<1>1. UNCHANGED <<table, client, starts>>
  BY DEF RebalanceLock, RebalanceSkip, RebalanceNoMemory, ControlLock,
         ControlReadKey, ControlClear, ControlUnlock
<1>2. /\ Settled /\ Settled'
      /\ t_pc' # "rb_move"
      /\ t_pc' = "rb_size" => num_active_channels > 0
  BY DEF RebalanceLock, RebalanceSkip, RebalanceNoMemory, ControlLock,
         ControlReadKey, ControlClear, ControlUnlock, Settled
<1>3. PointersMatch'
  <2>1. Active' = Active /\ channels' = channels
    BY <1>1 DEF table, Active
  <2> QED BY <1>1, <2>1, PointerFrame DEF ControlInv
<1>4. \A c \in Clients : c_start'[c] <= starts'
  BY <1>1 DEF ControlInv, client
<1> QED BY <1>1, <1>2, <1>3, <1>4, TableFrame DEF ControlInv

(* ivshmem_init_control_section: an empty table, and every pointer held is *)
(* from an earlier start.                                                  *)
LEMMA StartStep ==
  ASSUME ControlInv, ControlTypeOK', TrustedStart
  PROVE  ControlInv'
<1>1. num_active_channels' = 0 /\ free_start_offset' = 0 /\ t_pc' = "idle"
  BY DEF TrustedStart
<1>2. LaidOut(num_active_channels)'
  BY <1>1 DEF LaidOut
<1>3. SharesSettled'
  BY <1>1 DEF SharesSettled
<1>4. /\ PointersMatch'
      /\ \A c \in Clients : c_start'[c] <= starts'
  BY DEF ControlInv, ControlTypeOK, TrustedStart, client, PointersMatch
<1>5. free_start_offset' <= DATA_SECTION_SIZE
  BY <1>1, Sizes
<1> QED BY <1>1, <1>2, <1>3, <1>4, <1>5 DEF ControlInv

(* The host dies: nothing is claimed of the table until it is back.        *)
LEMMA CrashStep ==
  ASSUME ControlInv, ControlTypeOK', TrustedCrash
  PROVE  ControlInv'
<1>1. UNCHANGED <<table, client, starts>> /\ t_pc' = "down"
  BY DEF TrustedCrash
<1>2. PointersMatch'
  <2>1. Active' = Active /\ channels' = channels
    BY <1>1 DEF table, Active
  <2> QED BY <1>1, <2>1, PointerFrame DEF ControlInv
<1>3. ~Settled' /\ \A c \in Clients : c_start'[c] <= starts'
  BY <1>1 DEF ControlInv, client, Settled
<1> QED BY <1>1, <1>2, <1>3 DEF ControlInv

(* The table is copied aside: carving starts from offset 0 with all shares *)
(* still to give.                                                          *)
LEMMA CopyStep ==
  ASSUME ControlInv, ControlTypeOK', RebalanceCopy
  PROVE  ControlInv'
<1>1. /\ UNCHANGED <<num_active_channels, channels, client, starts>>
      /\ p_chan_tmp' = channels
      /\ free_start_offset' = 0
      /\ cnt' = 0
      /\ t_pc' = "rb_move"
  BY DEF RebalanceCopy
<1>2. num_active_channels \in Nat \ {0}
  BY Sizes DEF ControlInv, ControlTypeOK, RebalanceCopy
<1>3. PointersMatch'
  <2>1. Active' = Active
    BY <1>1 DEF Active
  <2> QED BY <1>1, <2>1, PointerFrame DEF ControlInv
<1>4. MoveUnderWay'
  <2>1. LaidOut(cnt)'
    BY <1>1 DEF LaidOut
  <2>2. num_active_channels * AllocatedBufferSize(num_active_channels)
          <= DATA_SECTION_SIZE - IVSHMEM_CHANNEL_INIT_SIZE - 1
    BY <1>2, ShareBound
  <2>3. AllocatedBufferSize(num_active_channels) \in Nat
    BY <1>2, ShareNat
  <2>4. AllocatedBufferSize(num_active_channels)'
          = AllocatedBufferSize(num_active_channels)
    BY <1>1
  <2>5. free_start_offset' + (num_active_channels' - cnt')
               * AllocatedBufferSize(num_active_channels)'
          = num_active_channels * AllocatedBufferSize(num_active_channels)
    BY <1>1, <1>2, <2>3, <2>4
  <2> QED BY <1>1, <1>2, <2>1, <2>2, <2>5 DEF MoveUnderWay, Active
<1>5. ~Settled' /\ \A c \in Clients : c_start'[c] <= starts'
  BY <1>1 DEF ControlInv, client, Settled
<1> QED BY <1>1, <1>3, <1>4, <1>5 DEF ControlInv

(* One turn of the rebalancing loop gives one more channel its share.      *)
LEMMA MoveStep ==
  ASSUME ControlInv, ControlTypeOK', RebalanceMove
  PROVE  ControlInv'
<1> DEFINE n == num_active_channels
           S == AllocatedBufferSize(n)
<1>1. /\ UNCHANGED <<num_active_channels, p_chan_tmp, client, starts, t_pc>>
      /\ t_pc = "rb_move"
      /\ cnt < n
      /\ channels' = [channels EXCEPT ![cnt] = MoveChannel(cnt)]
      /\ free_start_offset' = free_start_offset + S
      /\ cnt' = cnt + 1
  BY DEF RebalanceMove
<1>2. /\ n \in Nat \ {0}
      /\ n <= IVSHMEM_MAX_CHANNELS
      /\ cnt \in Nat
      /\ free_start_offset \in Nat
      /\ cnt \in Slots
  BY <1>1, Sizes DEF ControlInv, ControlTypeOK, Slots
<1>3. S \in Nat
  BY <1>2, ShareNat
<1>4. MoveUnderWay
  BY <1>1 DEF ControlInv
<1>5. channels \in [Slots -> Channel] /\ p_chan_tmp \in [Slots -> Channel]
  BY DEF ControlInv, ControlTypeOK
<1>6. \A i \in Slots : i # cnt => channels'[i] = channels[i]
  BY <1>1, <1>5
<1>7. /\ channels'[cnt].buf_offset = free_start_offset
      /\ channels'[cnt].buf_size = S
      /\ channels'[cnt].num_page = NumPage(n)
      /\ channels'[cnt].key = p_chan_tmp[cnt].key
      /\ channels'[cnt].id = p_chan_tmp[cnt].id
  <2>1. channels'[cnt] = MoveChannel(cnt)
    BY <1>1, <1>2, <1>5
  <2>2. p_chan_tmp[cnt] \in Channel
    BY <1>2, <1>5
  <2> QED BY <2>1, <2>2 DEF MoveChannel, Channel
<1>8. \A i \in 0 .. n - 1 : i \in Slots
  BY <1>2, Sizes DEF Slots
<1>9. \A i \in Active : /\ p_chan_tmp[i].key = channels'[i].key
                        /\ p_chan_tmp[i].id = channels'[i].id
  BY <1>4, <1>6, <1>7, <1>8 DEF MoveUnderWay, Active
<1>10. PointersMatch'
  <2>1. Active' = Active
    BY <1>1 DEF Active
  <2>2. \A i \in Active : channels'[i].key = channels[i].key
    BY <1>4, <1>9 DEF MoveUnderWay
  <2> QED BY <1>1, <2>1, <2>2, PointerFrame DEF ControlInv
<1>11. LaidOut(cnt)'
  <2>1. \A i \in 0 .. cnt - 1 :
          /\ channels'[i] = channels[i]
          /\ End(i) <= free_start_offset
          /\ End(i) \in Nat
    BY <1>1, <1>2, <1>4, <1>5, <1>6, <1>8
    DEF MoveUnderWay, LaidOut, End, Channel
  <2>3. \A i \in 0 .. cnt :
          channels'[i].buf_offset + channels'[i].buf_size
            <= free_start_offset'
    <3>1. \A i \in 0 .. cnt - 1 :
            channels'[i].buf_offset + channels'[i].buf_size
              <= free_start_offset'
      BY <1>1, <1>2, <1>3, <2>1 DEF End
    <3>2. channels'[cnt].buf_offset + channels'[cnt].buf_size
            <= free_start_offset'
      BY <1>1, <1>2, <1>3, <1>7
    <3> QED BY <1>2, <3>1, <3>2
  <2>4. \A i, j \in 0 .. cnt : i < j =>
          channels'[i].buf_offset + channels'[i].buf_size
            <= channels'[j].buf_offset
    <3> SUFFICES ASSUME NEW i \in 0 .. cnt, NEW j \in 0 .. cnt, i < j
                 PROVE  channels'[i].buf_offset + channels'[i].buf_size
                          <= channels'[j].buf_offset
      OBVIOUS
    <3>1. i \in 0 .. cnt - 1
      BY <1>2
    <3>2. CASE j = cnt
      BY <1>7, <2>1, <3>1, <3>2 DEF End
    <3>3. CASE j # cnt
      <4>1. j \in 0 .. cnt - 1
        BY <1>2, <3>3
      <4> QED BY <1>4, <2>1, <3>1, <4>1 DEF MoveUnderWay, LaidOut, End
    <3> QED BY <3>2, <3>3
  <2>5. cnt' - 1 = cnt
    BY <1>1, <1>2
  <2> QED BY <2>3, <2>4, <2>5 DEF LaidOut, End
<1>12. MoveUnderWay'
  <2>1. S' = S /\ NumPage(n)' = NumPage(n)
    BY <1>1
  <2>2. (n - cnt') * S = (n - cnt) * S - S
    BY <1>1, <1>2, <1>3
  <2>3. free_start_offset' + (n' - cnt') * S'
          <= DATA_SECTION_SIZE - IVSHMEM_CHANNEL_INIT_SIZE - 1
    <3>1. (n - cnt) * S \in Int
      BY <1>2, <1>3
    <3>2. free_start_offset + S + ((n - cnt) * S - S)
            = free_start_offset + (n - cnt) * S
      BY <1>2, <1>3, <3>1
    <3> QED BY <1>1, <1>4, <2>1, <2>2, <3>2 DEF MoveUnderWay
  <2>4. \A i \in 0 .. cnt' - 1 :
          /\ channels'[i].buf_size = S
          /\ channels'[i].num_page = NumPage(n)
    BY <1>1, <1>2, <1>4, <1>6, <1>7, <1>8 DEF MoveUnderWay
  <2>5. n' > 0 /\ cnt' <= n'
    BY <1>1, <1>2
  <2> QED BY <1>1, <1>9, <1>11, <2>1, <2>3, <2>4, <2>5
          DEF MoveUnderWay, Active
<1>13. ~Settled' /\ \A c \in Clients : c_start'[c] <= starts'
  BY <1>1 DEF ControlInv, client, Settled
<1> QED BY <1>1, <1>10, <1>12, <1>13 DEF ControlInv

(* The loop is over: the table is settled, with one share size.            *)
LEMMA UnlockStep ==
  ASSUME ControlInv, ControlTypeOK', RebalanceUnlock
  PROVE  ControlInv'
<1> DEFINE n == num_active_channels
<1>1. /\ UNCHANGED <<num_active_channels, free_start_offset, client, starts>>
      /\ t_pc = "rb_move" /\ t_pc' = "idle"
      /\ cnt = n
  BY DEF RebalanceUnlock
<1>2. n \in Nat \ {0} /\ free_start_offset \in Nat /\ MoveUnderWay
  BY <1>1, Sizes DEF ControlInv, ControlTypeOK, MoveUnderWay
<1>3. \A i \in 0 .. n - 1 : i \in Slots /\ channels'[i] = channels[i]
  BY <1>1, Sizes DEF ControlInv, ControlTypeOK, RebalanceUnlock, Slots
<1>4. LaidOut(num_active_channels)'
  BY <1>1, <1>2, <1>3 DEF MoveUnderWay, LaidOut, End
<1>5. free_start_offset' <= DATA_SECTION_SIZE
  <2>1. AllocatedBufferSize(n) \in Nat
    BY <1>2, ShareNat
  <2>2. (n - cnt) * AllocatedBufferSize(n) = 0
    BY <1>1, <1>2, <2>1
  <2> QED BY <1>1, <1>2, <2>2, Sizes DEF MoveUnderWay
<1>6. SharesSettled'
  <2>1. \A i \in 0 .. n - 1 : channels'[i].buf_size = AllocatedBufferSize(n)
    BY <1>1, <1>2, <1>3 DEF MoveUnderWay
  <2>2. n \in 0 .. n /\ n .. n - 1 = {}
    BY <1>2
  <2> QED BY <1>1, <2>1, <2>2 DEF SharesSettled
<1>7. PointersMatch'
  <2>1. Active' = Active
    BY <1>1 DEF Active
  <2>2. \A i \in Active : channels'[i].key = channels[i].key
    BY <1>3 DEF Active
  <2> QED BY <1>1, <2>1, <2>2, PointerFrame DEF ControlInv
<1>8. \A c \in Clients : c_start'[c] <= starts'
  BY <1>1 DEF ControlInv, client
<1> QED BY <1>1, <1>4, <1>5, <1>6, <1>7, <1>8 DEF ControlInv, Settled

(* ivshmem_create_channel: the new channel lies behind all others and has  *)
(* its first size.                                                         *)
LEMMA CreateStep ==
  ASSUME ControlInv, ControlTypeOK', ControlCreate
  PROVE  ControlInv'
<1> DEFINE n == num_active_channels
<1>1. /\ UNCHANGED <<client, starts>>
      /\ Settled
      /\ t_pc' = "ctl_clear"
  BY DEF ControlCreate, Settled
<1>2. \A c \in Clients : c_start'[c] <= starts'
  BY <1>1 DEF ControlInv, client
<1>3. CASE UNCHANGED table
  <2>1. PointersMatch'
    <3>1. Active' = Active /\ channels' = channels
      BY <1>3 DEF table, Active
    <3> QED BY <1>1, <3>1, PointerFrame DEF ControlInv
  <2> QED BY <1>1, <1>2, <1>3, <2>1, TableFrame DEF ControlInv, Settled
<1>4. CASE ~UNCHANGED table
  <2>1. /\ HasRoom(free_start_offset, n)
        /\ channels' = [channels EXCEPT ![n] =
                          ivshmem_init_channel(last_channel_id,
                                               free_start_offset,
                                               CandidateRead)]
        /\ free_start_offset' = free_start_offset + IVSHMEM_CHANNEL_INIT_SIZE
        /\ num_active_channels' = n + 1
    BY <1>4 DEF ControlCreate
  <2>2. /\ n \in Nat /\ n \in Slots
        /\ free_start_offset \in Nat
        /\ channels \in [Slots -> Channel]
    BY <2>1, Sizes DEF HasRoom, ControlInv, ControlTypeOK, Slots
  <2>3. \A i \in 0 .. n - 1 : /\ i \in Slots
                              /\ channels'[i] = channels[i]
                              /\ channels[i] \in Channel
    BY <2>1, <2>2, Sizes DEF Slots
  <2>4. /\ channels'[n].buf_offset = free_start_offset
        /\ channels'[n].buf_size = IVSHMEM_CHANNEL_INIT_SIZE
    BY <2>1, <2>2 DEF ivshmem_init_channel
  <2>5. free_start_offset' <= DATA_SECTION_SIZE
    BY <2>1, Sizes DEF HasRoom
  <2>6. LaidOut(num_active_channels)'
    <3>1. LaidOut(n)
      BY <1>1 DEF ControlInv
    <3>2. \A i \in 0 .. n :
            channels'[i].buf_offset + channels'[i].buf_size
              <= free_start_offset'
      <4>1. \A i \in 0 .. n - 1 :
              channels'[i].buf_offset + channels'[i].buf_size
                <= free_start_offset'
        BY <2>1, <2>2, <2>3, <3>1, Sizes DEF LaidOut, End, Channel
      <4>2. channels'[n].buf_offset + channels'[n].buf_size
              <= free_start_offset'
        BY <2>1, <2>2, <2>4, Sizes
      <4> QED BY <2>2, <4>1, <4>2
    <3>3. \A i, j \in 0 .. n : i < j =>
            channels'[i].buf_offset + channels'[i].buf_size
              <= channels'[j].buf_offset
      <4> SUFFICES ASSUME NEW i \in 0 .. n, NEW j \in 0 .. n, i < j
                   PROVE  channels'[i].buf_offset + channels'[i].buf_size
                            <= channels'[j].buf_offset
        OBVIOUS
      <4>1. i \in 0 .. n - 1
        BY <2>2
      <4>2. CASE j = n
        BY <2>3, <2>4, <3>1, <4>1, <4>2 DEF LaidOut, End
      <4>3. CASE j # n
        <5>1. j \in 0 .. n - 1
          BY <2>2, <4>3
        <5> QED BY <2>3, <3>1, <4>1, <5>1 DEF LaidOut, End
      <4> QED BY <4>2, <4>3
    <3>4. num_active_channels' - 1 = n
      BY <2>1, <2>2
    <3> QED BY <3>2, <3>3, <3>4 DEF LaidOut, End
  <2>7. SharesSettled'
    <3>1. PICK m \in 0 .. n :
            /\ \A i \in 0 .. m - 1 :
                 channels[i].buf_size = AllocatedBufferSize(m)
            /\ \A i \in m .. n - 1 :
                 channels[i].buf_size = IVSHMEM_CHANNEL_INIT_SIZE
      BY <1>1 DEF ControlInv, SharesSettled
    <3>2. m \in 0 .. num_active_channels'
      BY <2>1, <2>2
    <3>3. \A i \in 0 .. m - 1 :
            channels'[i].buf_size = AllocatedBufferSize(m)
      BY <2>2, <2>3, <3>1
    <3>4. \A i \in m .. num_active_channels' - 1 :
            channels'[i].buf_size = IVSHMEM_CHANNEL_INIT_SIZE
      BY <2>1, <2>2, <2>3, <2>4, <3>1
    <3> QED BY <3>2, <3>3, <3>4 DEF SharesSettled
  <2>8. PointersMatch'
    <3>1. Active \subseteq Active'
      BY <2>1, <2>2 DEF Active
    <3>2. \A i \in Active : channels'[i].key = channels[i].key
      BY <2>3 DEF Active
    <3> QED BY <1>1, <3>1, <3>2, PointerFrame DEF ControlInv
  <2> QED BY <1>1, <1>2, <2>5, <2>6, <2>7, <2>8 DEF ControlInv, Settled
<1> QED BY <1>3, <1>4

\* Client steps: only a lookup makes a client hold a pointer.
LEMMA ClientStep ==
  ASSUME ControlInv, ControlTypeOK', NEW c \in Clients,
         \/ RequestChannel(c) \/ PollDone(c) \/ FindForReceive(c)
         \/ WriterWork(c) \/ Return(c)
  PROVE  ControlInv'
<1>1. UNCHANGED <<table, host>>
  BY DEF RequestChannel, PollDone, FindForReceive, WriterWork, RaiseFlag,
         WriteSender, WriteReceiver, Return
<1>2. /\ MoveUnderWay' <=> MoveUnderWay
      /\ Settled' <=> Settled
  BY <1>1 DEF MoveUnderWay, LaidOut, End, Active, Settled, table, host
<1>3. /\ c_pc \in [Clients -> ClientPC]
      /\ c_chan \in [Clients -> Slots \cup {NULL}]
      /\ c_start \in [Clients -> Nat]
      /\ starts \in Nat
  BY DEF ControlInv, ControlTypeOK
<1>4. PointersMatch' /\ \A d \in Clients : c_start'[d] <= starts'
  <2>1. CASE \E l \in {"flag", "failed"} : Found(c, l)
    <3>1. PICK l \in {"flag", "failed"} : Found(c, l)
      BY <2>1
    <3>2. \A d \in Clients : c_start'[d] <= starts'
      BY <1>1, <1>3, <3>1 DEF Found, ControlInv, host
    <3>3. ASSUME NEW d \in Clients, c_pc'[d] = "have", c_start'[d] = starts
          PROVE  /\ c_chan'[d] \in Active
                 /\ Matches(channels[c_chan'[d]].key, ClientKey[d])
      <4>1. CASE d # c
        BY <1>3, <3>1, <3>3, <4>1 DEF Found, ControlInv, PointersMatch
      <4>2. CASE d = c
        <5>1. Lookup(c) # NULL /\ c_chan'[c] = Lookup(c)
          BY <1>3, <3>1, <3>3, <4>2 DEF Found
        <5> QED BY <4>2, <5>1, LookupMatches DEF Lookup, Active
      <4> QED BY <4>1, <4>2
    <3> QED BY <1>1, <3>2, <3>3 DEF PointersMatch, Active, table, host
  <2>2. CASE WriterWork(c)
    BY <1>1, <1>3, <2>2
    DEF WriterWork, RaiseFlag, WriteSender, WriteReceiver, ControlInv,
        PointersMatch, Active, table, host
  <2>3. CASE Return(c)
    BY <1>1, <1>3, <2>3
    DEF Return, ControlInv, PointersMatch, Active, table, host
  <2> QED BY <2>1, <2>2, <2>3 DEF RequestChannel, PollDone, FindForReceive
<1>5. t_pc' = t_pc /\ num_active_channels' = num_active_channels
  BY <1>1 DEF host, table
<1> QED BY <1>1, <1>2, <1>4, <1>5, TableFrame DEF ControlInv

(* Every step keeps the invariant.                                         *)
LEMMA ControlInvStep ==
  ControlInv /\ [ControlNext]_control_vars => ControlInv'
<1> SUFFICES ASSUME ControlInv, [ControlNext]_control_vars
             PROVE  ControlInv'
  OBVIOUS
<1>1. ControlTypeOK'
  BY ControlTypeStep DEF ControlInv
<1>2. CASE UNCHANGED control_vars
  <2>1. UNCHANGED <<table, host, client>>
    BY <1>2 DEF control_vars
  <2>2. /\ MoveUnderWay' <=> MoveUnderWay
        /\ Settled' <=> Settled
        /\ PointersMatch' <=> PointersMatch
    BY <2>1 DEF MoveUnderWay, LaidOut, End, Active, Settled, PointersMatch,
                table, host, client
  <2>3. UNCHANGED <<t_pc, num_active_channels, c_start, starts>>
    BY <2>1 DEF table, host, client
  <2> QED BY <1>1, <2>1, <2>2, <2>3, TableFrame DEF ControlInv
<1>3. CASE Host
  BY <1>1, <1>3, QuietHostStep, StartStep, CrashStep, CopyStep, MoveStep,
     UnlockStep, CreateStep
  DEF Host, HostWork
<1>4. CASE \/ \E w \in Writers :
                RequestChannel(w) \/ WriterWork(w) \/ PollDone(w)
           \/ \E r \in Readers : FindForReceive(r)
           \/ \E c \in Clients : Return(c)
  BY <1>1, <1>4, ClientStep DEF Clients
<1> QED BY <1>2, <1>3, <1>4 DEF ControlNext

(* The inductive invariant of the control plane: the table between         *)
(* rebalancings, in the middle of one, and every pointer a client took     *)
(* into it.                                                                *)
THEOREM ControlInvariant == ControlSpec => []ControlInv
BY ControlInvInit, ControlInvStep, PTL DEF ControlSpec

-----------------------------------------------------------------------------
(* What follows from the invariant.                                        *)

(* The buffers of the active channels never overlap and never leave the    *)
(* data section while the host is outside its rebalancing loop.            *)
THEOREM ControlBuffersDisjoint == ControlSpec => []BuffersDisjoint
<1>1. ControlInv => BuffersDisjoint
  BY DEF ControlInv, BuffersDisjoint, Settled, LaidOut, Active
<1> QED BY <1>1, ControlInvariant, PTL

(* A pointer into the channel table stays good until the host starts anew. *)
THEOREM ControlPointersMatch == ControlSpec => []PointersMatch
<1>1. ControlInv => PointersMatch
  BY DEF ControlInv
<1> QED BY <1>1, ControlInvariant, PTL

\* Every step of a live host, and of a client, keeps the owners.
LEMMA KeepsOwnersStep ==
  ASSUME ControlInv, ControlNext
  PROVE  KeepsOwners
<1> SUFFICES ASSUME t_pc # "down" PROVE KeepsOwners
  BY DEF KeepsOwners
<1>1. /\ num_active_channels \in 0 .. IVSHMEM_MAX_CHANNELS
      /\ channels \in [Slots -> Channel]
      /\ Active \subseteq Slots
  BY Sizes DEF ControlInv, ControlTypeOK, Active, Slots
<1>2. CASE UNCHANGED <<num_active_channels, channels>>
  BY <1>1, <1>2, Sizes DEF KeepsOwners
<1>3. CASE RebalanceMove
  <2>1. cnt \in Active /\ MoveUnderWay /\ cnt \in Slots
    BY <1>1, <1>3, Sizes
    DEF RebalanceMove, ControlInv, ControlTypeOK, Active
  <2>2. p_chan_tmp[cnt] \in Channel
    BY <2>1 DEF ControlInv, ControlTypeOK
  <2>3. /\ channels'[cnt].key = channels[cnt].key
        /\ channels'[cnt].id = channels[cnt].id
    BY <1>1, <1>3, <2>1, <2>2
    DEF RebalanceMove, MoveChannel, MoveUnderWay, Channel
  <2>4. \A i \in Active : i # cnt => channels'[i] = channels[i]
    BY <1>1, <1>3 DEF RebalanceMove
  <2>5. num_active_channels' = num_active_channels
    BY <1>3 DEF RebalanceMove
  <2> QED BY <1>1, <2>3, <2>4, <2>5, Sizes DEF KeepsOwners
<1>4. CASE RebalanceUnlock
  <2>1. \A i \in Active : channels'[i] = channels[i]
    BY <1>1, <1>4, Sizes DEF RebalanceUnlock, Active
  <2>2. num_active_channels' = num_active_channels
    BY <1>4 DEF RebalanceUnlock
  <2> QED BY <1>1, <2>1, <2>2, Sizes DEF KeepsOwners
<1>5. CASE ControlCreate
  <2>1. CASE UNCHANGED table
    BY <1>2, <2>1 DEF table
  <2>2. CASE ~UNCHANGED table
    <3>1. /\ num_active_channels' = num_active_channels + 1
          /\ \A i \in Slots : i # num_active_channels =>
               channels'[i] = channels[i]
      BY <1>1, <1>5, <2>2 DEF ControlCreate
    <3>2. \A i \in Active : i \in Slots /\ i # num_active_channels
      BY <1>1, Sizes DEF Active
    <3> QED BY <1>1, <3>1, <3>2, Sizes DEF KeepsOwners
  <2> QED BY <2>1, <2>2
<1>6. CASE \/ TrustedCrash \/ RebalanceLock \/ RebalanceSkip
           \/ RebalanceNoMemory \/ RebalanceCopy \/ ControlLock
           \/ ControlReadKey \/ ControlClear \/ ControlUnlock
  BY <1>2, <1>6
  DEF TrustedCrash, RebalanceLock, RebalanceSkip, RebalanceNoMemory,
      RebalanceCopy, ControlLock, ControlReadKey, ControlClear,
      ControlUnlock, table
<1>7. CASE \/ \E w \in Writers :
                RequestChannel(w) \/ WriterWork(w) \/ PollDone(w)
           \/ \E r \in Readers : FindForReceive(r)
           \/ \E c \in Clients : Return(c)
  BY <1>2, <1>7
  DEF RequestChannel, WriterWork, RaiseFlag, WriteSender, WriteReceiver,
      PollDone, FindForReceive, Return, table
<1>8. ~TrustedStart
  BY DEF TrustedStart
<1> QED BY <1>3, <1>4, <1>5, <1>6, <1>7, <1>8
        DEF ControlNext, Host, HostWork

(* Under a live host no active slot disappears or changes its owner.       *)
THEOREM ControlTableGrows == ControlSpec => TableGrows
<1>1. ControlInv /\ [ControlNext]_control_vars => [KeepsOwners]_control_vars
  BY KeepsOwnersStep
<1> QED BY <1>1, ControlInvariant, PTL DEF ControlSpec, TableGrows

(* Comparing the first channel's size is enough to know that the whole     *)
(* table is balanced.                                                      *)
THEOREM ControlSkipOnlyWhenBalanced == ControlSpec => SkipOnlyWhenBalanced
<1>1. ControlInv /\ [ControlNext]_control_vars => [SkipsBalanced]_control_vars
  <2> SUFFICES ASSUME ControlInv, ControlNext,
                      t_pc = "rb_size", t_pc' = "idle",
                      malloc_fails' = malloc_fails
               PROVE  \A i \in Active :
                        channels[i].buf_size =
                          AllocatedBufferSize(num_active_channels)
    BY DEF SkipsBalanced
  <2> DEFINE n == num_active_channels
  <2>1. /\ n \in 1 .. IVSHMEM_MAX_CHANNELS
        /\ SharesSettled
    BY Sizes DEF ControlInv, ControlTypeOK, Settled
  <2>2. AllocatedBufferSize(n) = channels[0].buf_size
    <3>1. RebalanceSkip \/ RebalanceNoMemory
      BY DEF ControlNext, Host, HostWork, TrustedStart, TrustedCrash,
             RebalanceLock, RebalanceCopy, RebalanceMove, RebalanceUnlock,
             ControlLock, ControlReadKey, ControlCreate, ControlClear,
             ControlUnlock, RequestChannel, WriterWork, RaiseFlag,
             WriteSender, WriteReceiver, PollDone, FindForReceive, Return,
             host
    <3>2. ~RebalanceNoMemory
      BY DEF RebalanceNoMemory, ControlInv, ControlTypeOK
    <3> QED BY <3>1, <3>2 DEF RebalanceSkip
  <2>3. PICK m \in 0 .. n :
          /\ \A i \in 0 .. m - 1 : channels[i].buf_size = AllocatedBufferSize(m)
          /\ \A i \in m .. n - 1 :
               channels[i].buf_size = IVSHMEM_CHANNEL_INIT_SIZE
    BY <2>1 DEF SharesSettled
  <2>4. m # 0
    <3> SUFFICES ASSUME m = 0 PROVE FALSE
      OBVIOUS
    <3>1. channels[0].buf_size = IVSHMEM_CHANNEL_INIT_SIZE
      BY <2>1, <2>3
    <3> QED BY <2>1, <2>2, <3>1, SharesAssumption
  <2>5. m \in 1 .. IVSHMEM_MAX_CHANNELS /\ 0 \in 0 .. m - 1
    BY <2>1, <2>4, Sizes
  <2>6. AllocatedBufferSize(m) = AllocatedBufferSize(n)
    BY <2>2, <2>3, <2>5
  <2>7. m = n
    BY <2>1, <2>5, <2>6, SharesAssumption
  <2> QED BY <2>3, <2>7 DEF Active
<1> QED BY <1>1, ControlInvariant, PTL DEF ControlSpec, SkipOnlyWhenBalanced

(* A lower bound on a quotient.                                            *)
LEMMA DivAtLeast ==
  ASSUME NEW a \in Nat, NEW b \in Nat \ {0}, NEW c \in Nat, b * c <= a
  PROVE  a \div b >= c
BY SMT

(* The share of every table length is at least the two pages a ring needs. *)
LEMMA ShareOfTwoPages ==
  ASSUME NEW n \in 1 .. IVSHMEM_MAX_CHANNELS
  PROVE  NumPage(n) >= 2
<1> DEFINE X == DATA_SECTION_SIZE - IVSHMEM_CHANNEL_INIT_SIZE - 1
           P == IVSHMEM_PAGE_SIZE
<1>1. P \in Nat \ {0} /\ n \in Nat \ {0} /\ 2 * P \in Nat
  BY Sizes
<1>2. X \in Nat /\ IVSHMEM_MAX_CHANNELS * (2 * P) <= X
  <2>1. IVSHMEM_MAX_CHANNELS * (2 * P) \in Nat
    BY Sizes
  <2> QED BY <2>1, SizesAssumption
<1>3. n * (2 * P) <= IVSHMEM_MAX_CHANNELS * (2 * P)
  <2> DEFINE t == 2 * P
  <2> HIDE DEF t
  <2>1. t * n <= t * IVSHMEM_MAX_CHANNELS
    BY <1>1, MulMono, Sizes DEF t
  <2>2. t * n = n * t /\ t * IVSHMEM_MAX_CHANNELS = IVSHMEM_MAX_CHANNELS * t
    BY <1>1, Sizes DEF t
  <2> QED BY <2>1, <2>2 DEF t
<1>4. n * (2 * P) <= X
  <2>1. n * (2 * P) \in Nat /\ IVSHMEM_MAX_CHANNELS * (2 * P) \in Nat
    BY <1>1, Sizes
  <2> HIDE DEF X
  <2> QED BY <1>2, <1>3, <2>1
<1>5. X \div n >= 2 * P /\ X \div n \in Nat
  <2> HIDE DEF X
  <2> QED BY <1>1, <1>2, <1>4, DivAtLeast, DivNat
<1>6. (X \div n) \div P >= 2
  <2> DEFINE q == X \div n
  <2> HIDE DEF q
  <2>1. P * 2 <= q /\ q \in Nat
    BY <1>1, <1>5 DEF q
  <2>2. q \div P >= 2
    BY <1>1, <2>1, DivAtLeast
  <2> QED BY <2>2 DEF q
<1> QED BY <1>6 DEF NumPage

(* A rebalancing gives all channels the same whole number of pages, at     *)
(* least two, and leaves room for one more first buffer.                   *)
THEOREM ControlBalancedWithReserve == ControlSpec => BalancedWithReserve
<1>1. ControlInv /\ [ControlNext]_control_vars => [LeavesReserve]_control_vars
  <2> SUFFICES ASSUME ControlInv, ControlNext,
                      t_pc = "rb_move", t_pc' = "idle"
               PROVE  LeavesReserve
    BY DEF LeavesReserve
  <2> DEFINE n == num_active_channels
  <2>1. RebalanceUnlock
    BY DEF ControlNext, Host, HostWork, TrustedStart, TrustedCrash,
           RebalanceLock, RebalanceSkip, RebalanceNoMemory, RebalanceCopy,
           RebalanceMove, ControlLock, ControlReadKey, ControlCreate,
           ControlClear, ControlUnlock, RequestChannel, WriterWork,
           RaiseFlag, WriteSender, WriteReceiver, PollDone, FindForReceive,
           Return, host
  <2>2. MoveUnderWay /\ n \in 1 .. IVSHMEM_MAX_CHANNELS /\ cnt = n
    BY <2>1, Sizes DEF ControlInv, ControlTypeOK, MoveUnderWay,
                       RebalanceUnlock
  <2>3. \A i \in Active : channels'[i].num_page = NumPage(n)
    BY <2>1, <2>2, Sizes
    DEF RebalanceUnlock, MoveUnderWay, Active, Slots
  <2>4. 0 \in Active
    BY <2>2 DEF Active
  <2>5. free_start_offset' + IVSHMEM_CHANNEL_INIT_SIZE <= DATA_SECTION_SIZE
    <3>1. AllocatedBufferSize(n) \in Nat
      BY <2>2, ShareNat
    <3>2. (n - cnt) * AllocatedBufferSize(n) = 0
      BY <2>2, <3>1
    <3>3. free_start_offset' = free_start_offset /\ free_start_offset \in Nat
      BY <2>1 DEF RebalanceUnlock, ControlInv, ControlTypeOK
    <3> QED BY <2>2, <3>2, <3>3, Sizes DEF MoveUnderWay
  <2> QED BY <2>2, <2>3, <2>4, <2>5, ShareOfTwoPages DEF LeavesReserve
<1> QED BY <1>1, ControlInvariant, PTL DEF ControlSpec, BalancedWithReserve

-----------------------------------------------------------------------------
(* The control plane implements the table of ChannelTable.                 *)

Stored == {ClientKey[w] : w \in Writers} \cup {NoKey}

(* The sender's half of one key that was stored and the receiver's half of *)
(* another: all that a mailbox written without a lock can hold.            *)
IsMixed(m) == \E k, l \in Stored : m = [k EXCEPT !.receiver_vm = l.receiver_vm]

MailboxInv == IsMixed(channel_candidate) /\ IsMixed(t_key)

LEMMA MixedKeys ==
  /\ \A k \in Stored : k \in Key /\ IsMixed(k)
  /\ \A m : IsMixed(m) => m \in Key
  /\ \A m, n : IsMixed(m) /\ IsMixed(n) =>
       IsMixed([m EXCEPT !.receiver_vm = n.receiver_vm])
<1>1. \A k \in Stored : k \in Key
  BY ClientsAssumption, KeyTypes DEF Stored, Clients
<1>2. \A k \in Stored : IsMixed(k)
  <2> SUFFICES ASSUME NEW k \in Stored PROVE IsMixed(k)
    OBVIOUS
  <2>1. k = [k EXCEPT !.receiver_vm = k.receiver_vm]
    BY <1>1 DEF Key
  <2> QED BY <2>1 DEF IsMixed
<1>3. ASSUME NEW k \in Stored, NEW l \in Stored
      PROVE  /\ [k EXCEPT !.receiver_vm = l.receiver_vm] \in Key
             /\ [k EXCEPT !.receiver_vm = l.receiver_vm].receiver_vm =
                  l.receiver_vm
  BY <1>1 DEF Key
<1>4. ASSUME NEW m, IsMixed(m) PROVE m \in Key
  BY <1>3, <1>4 DEF IsMixed
<1>5. ASSUME NEW m, NEW n, IsMixed(m), IsMixed(n)
      PROVE  IsMixed([m EXCEPT !.receiver_vm = n.receiver_vm])
  <2>1. PICK k \in Stored, l \in Stored :
          m = [k EXCEPT !.receiver_vm = l.receiver_vm]
    BY <1>5 DEF IsMixed
  <2>2. PICK a \in Stored, b \in Stored :
          n = [a EXCEPT !.receiver_vm = b.receiver_vm]
    BY <1>5 DEF IsMixed
  <2>3. n.receiver_vm = b.receiver_vm
    BY <1>3, <2>2
  <2>4. [m EXCEPT !.receiver_vm = n.receiver_vm] =
          [k EXCEPT !.receiver_vm = b.receiver_vm]
    BY <1>1, <2>1, <2>3 DEF Key
  <2> QED BY <2>4 DEF IsMixed
<1> QED BY <1>1, <1>2, <1>4, <1>5

LEMMA MailboxInit == ControlInit => MailboxInv
BY MixedKeys DEF ControlInit, MailboxInv, Stored

LEMMA MailboxStep ==
  ASSUME ControlInv, MailboxInv, [ControlNext]_control_vars
  PROVE  MailboxInv'
<1> USE DEF MailboxInv
<1>1. NoKey \in Stored /\ \A w \in Writers : ClientKey[w] \in Stored
  BY DEF Stored
<1>2. CASE UNCHANGED <<channel_candidate, t_key>>
  BY <1>2 DEF IsMixed
<1>3. ASSUME channel_candidate' = channel_candidate,
             t_key' \in {NoKey, channel_candidate}
      PROVE  MailboxInv'
  <2>1. IsMixed(NoKey)
    BY <1>1, MixedKeys
  <2> QED BY <1>3, <2>1 DEF IsMixed
<1>4. ASSUME NEW w \in Writers, WriteSender(w) PROVE MailboxInv'
  <2>1. IsMixed([ClientKey[w] EXCEPT
                   !.receiver_vm = channel_candidate.receiver_vm])
    BY <1>1, MixedKeys
  <2> QED BY <1>4, <2>1 DEF WriteSender, host, IsMixed
<1>5. ASSUME NEW w \in Writers, WriteReceiver(w) PROVE MailboxInv'
  <2>1. IsMixed([channel_candidate EXCEPT
                   !.receiver_vm = ClientKey[w].receiver_vm])
    BY <1>1, MixedKeys
  <2> QED BY <1>5, <2>1 DEF WriteReceiver, host, IsMixed
<1>6. CASE TrustedCrash \/ ControlReadKey \/ ControlCreate
  BY <1>3, <1>6 DEF TrustedCrash, ControlReadKey, ControlCreate, mailbox
<1>7. CASE \/ TrustedStart \/ RebalanceLock \/ RebalanceSkip
           \/ RebalanceNoMemory \/ RebalanceCopy \/ RebalanceMove
           \/ RebalanceUnlock \/ ControlLock \/ ControlClear
           \/ ControlUnlock
  BY <1>2, <1>7
  DEF TrustedStart, RebalanceLock, RebalanceSkip, RebalanceNoMemory,
      RebalanceCopy, RebalanceMove, RebalanceUnlock, ControlLock,
      ControlClear, ControlUnlock, mailbox
<1>8. CASE \/ \E w \in Writers :
                RequestChannel(w) \/ RaiseFlag(w) \/ PollDone(w)
           \/ \E r \in Readers : FindForReceive(r)
           \/ \E c \in Clients : Return(c)
           \/ UNCHANGED control_vars
  BY <1>2, <1>8
  DEF RequestChannel, RaiseFlag, PollDone, FindForReceive, Return,
      control_vars, mailbox, host
<1> QED BY <1>4, <1>5, <1>6, <1>7, <1>8
        DEF ControlNext, Host, HostWork, WriterWork

(* The owners are a sequence as long as the table, and a lookup in them    *)
(* finds what a lookup in the table finds.                                 *)
LEMMA OwnersAre ==
  ASSUME num_active_channels \in Nat
  PROVE  /\ Owners \in Seq({Owners[i] : i \in 1 .. num_active_channels})
         /\ Len(Owners) = num_active_channels
         /\ \A i \in 1 .. num_active_channels :
              Owners[i] = Table!Owner(channels[i - 1].key)
<1>1. \A i \in 1 .. num_active_channels :
        Owners[i] = Table!Owner(channels[i - 1].key)
  BY DEF Owners, Table!Owner, Table!Clients, Clients, Table!Matches, Matches,
         Table!Stray, Table!NULL, NULL
<1>2. Owners \in [1 .. num_active_channels ->
                    {Owners[i] : i \in 1 .. num_active_channels}]
  BY DEF Owners
<1>3. /\ Owners \in Seq({Owners[i] : i \in 1 .. num_active_channels})
      /\ Len(Owners) = num_active_channels
  BY <1>2
<1> QED BY <1>1, <1>3

LEMMA LookupSame ==
  ASSUME ControlTypeOK, NEW c \in Clients
  PROVE  Table!Lookup(c) = Lookup(c)
<1> DEFINE n == num_active_channels
           chans == [i \in 0 .. Len(Owners) - 1 |-> [key |-> Owners[i + 1]]]
           P(i) == FirstMatch(channels, n, ClientKey[c], i)
           Q(i) == FirstMatch(chans, Len(Owners), ClientKey[c], i)
<1>1. n \in Nat /\ n <= IVSHMEM_MAX_CHANNELS
  BY Sizes DEF ControlTypeOK
<1>2. Len(Owners) = n
  BY <1>1, OwnersAre
<1>3. ASSUME NEW i \in 0 .. n - 1
      PROVE  Matches(chans[i].key, ClientKey[c]) <=>
               Matches(channels[i].key, ClientKey[c])
  <2>1. chans[i].key = Table!Owner(channels[i].key)
    <3>1. i + 1 \in 1 .. n /\ i + 1 - 1 = i
      BY <1>1
    <3> QED BY <1>1, <1>2, <3>1, OwnersAre
  <2>2. ~Matches(Table!Stray, ClientKey[c])
    BY ClientsAssumption DEF Table!Stray, Table!NULL, Matches, Key
  <2>3. \A k : Matches(Table!Owner(k), ClientKey[c]) <=>
                 Matches(k, ClientKey[c])
    BY <2>2 DEF Table!Owner, Table!Clients, Clients, Table!Matches, Matches
  <2> QED BY <2>1, <2>3
<1>4. \A i : P(i) <=> Q(i)
  <2>1. \A i \in 0 .. n - 1 : \A j \in 0 .. i - 1 : j \in 0 .. n - 1
    BY <1>1
  <2> HIDE DEF chans
  <2> QED BY <1>2, <1>3, <2>1 DEF FirstMatch
<1>5. \A i, j : P(i) /\ P(j) => i = j
  <2> SUFFICES ASSUME NEW i, NEW j, P(i), P(j), i # j PROVE FALSE
    OBVIOUS
  <2>1. i \in 0 .. n - 1 /\ j \in 0 .. n - 1
    BY DEF FirstMatch
  <2>2. i \in 0 .. j - 1 \/ j \in 0 .. i - 1
    BY <1>1, <2>1
  <2> QED BY <2>2 DEF FirstMatch
<1>6. Lookup(c) = IF \E i \in Slots : P(i) THEN CHOOSE i \in Slots : P(i)
                                           ELSE NULL
  BY DEF Lookup, ivshmem_find_channel
<1>7. Table!Lookup(c) =
        IF \E i \in Slots : Q(i) THEN CHOOSE i \in Slots : Q(i) ELSE NULL
  BY DEF Table!Lookup, Table!ivshmem_find_channel, Table!FirstMatch,
         Table!Matches, Table!Slots, Table!NULL, FirstMatch, Matches, Slots,
         NULL
<1> HIDE DEF P, Q
<1> QED BY <1>4, <1>5, <1>6, <1>7

LEMMA TableInitially == ControlInit => Table!TableInit
<1> SUFFICES ASSUME ControlInit PROVE Table!TableInit
  OBVIOUS
<1>1. num_active_channels = 0
  BY DEF ControlInit
<1>2. Owners = <<>>
  BY <1>1, OwnersAre, EmptySeq
<1>3. ClientPhase = [c \in Clients |-> "idle"]
  BY DEF ControlInit, ClientPhase
<1>4. HostPhase = "down"
  BY DEF ControlInit, HostPhase
<1> QED BY <1>2, <1>3, <1>4
        DEF ControlInit, Table!TableInit, Table!Clients, Clients,
            Table!NULL, NULL

\* The owners stay when the table keeps its length and its keys.
LEMMA OwnersStay ==
  ASSUME ControlInv, ControlNext, ~TrustedStart,
         num_active_channels' = num_active_channels
  PROVE  Owners' = Owners
<1>1. num_active_channels \in Nat
  BY Sizes DEF ControlInv, ControlTypeOK
<1>2. ASSUME NEW i \in 1 .. num_active_channels
      PROVE  channels'[i - 1].key = channels[i - 1].key
  <2>1. i - 1 \in Active
    BY <1>1 DEF Active
  <2>2. CASE t_pc # "down"
    BY <2>1, <2>2, KeepsOwnersStep DEF KeepsOwners
  <2>3. CASE t_pc = "down"
    <3>1. channels' = channels
      BY <2>3
      DEF ControlNext, Host, HostWork, TrustedCrash, RebalanceLock,
          RebalanceSkip, RebalanceNoMemory, RebalanceCopy, RebalanceMove,
          RebalanceUnlock, ControlLock, ControlReadKey, ControlCreate,
          ControlClear, ControlUnlock, RequestChannel, WriterWork,
          RaiseFlag, WriteSender, WriteReceiver, PollDone, FindForReceive,
          Return, table
    <3> QED BY <3>1
  <2> QED BY <2>2, <2>3
<1> QED BY <1>1, <1>2 DEF Owners

\* A host step that creates nothing.
LEMMA HostStepImplements ==
  ASSUME ControlInv, ControlNext,
         \/ TrustedCrash \/ RebalanceLock \/ RebalanceSkip
         \/ RebalanceNoMemory \/ RebalanceCopy \/ RebalanceMove
         \/ RebalanceUnlock \/ ControlLock \/ ControlReadKey
         \/ ControlClear \/ ControlUnlock
  PROVE  [Table!TableNext]_Table!table_vars
<1>1. UNCHANGED <<num_active_channels, client>> /\ ~TrustedStart
  BY DEF TrustedStart, TrustedCrash, RebalanceLock, RebalanceSkip,
         RebalanceNoMemory, RebalanceCopy, RebalanceMove, RebalanceUnlock,
         ControlLock, ControlReadKey, ControlClear, ControlUnlock, table
<1>2. Owners' = Owners
  BY <1>1, OwnersStay
<1>3. ClientPhase' = ClientPhase /\ c_chan' = c_chan
  BY <1>1 DEF ClientPhase, client
<1>4. CASE TrustedCrash
  <2>1. Table!TrustedCrash
    BY <1>2, <1>3, <1>4 DEF TrustedCrash, Table!TrustedCrash, HostPhase,
                            mailbox, ControlInv, ControlTypeOK, HostPC
  <2> QED BY <2>1 DEF Table!TableNext
<1>5. CASE RebalanceLock
  <2>1. Owners # <<>>
    <3>1. num_active_channels \in Nat \ {0}
      BY <1>5, Sizes DEF RebalanceLock, ControlInv, ControlTypeOK
    <3>2. Len(Owners) # 0
      BY <3>1, OwnersAre
    <3> QED BY <3>2
  <2>2. Table!RebalanceBegin
    BY <1>2, <1>3, <1>5, <2>1
    DEF RebalanceLock, Table!RebalanceBegin, HostPhase, mailbox
  <2> QED BY <2>2 DEF Table!TableNext
<1>6. CASE RebalanceSkip \/ RebalanceUnlock
  <2>1. Table!RebalanceEnd
    BY <1>2, <1>3, <1>6
    DEF RebalanceSkip, RebalanceUnlock, Table!RebalanceEnd, HostPhase,
        mailbox
  <2> QED BY <2>1 DEF Table!TableNext, Table!HostWork
<1>7. CASE RebalanceNoMemory
  <2>1. Table!RebalanceNoMemory
    BY <1>2, <1>3, <1>7
    DEF RebalanceNoMemory, Table!RebalanceNoMemory, HostPhase, mailbox
  <2> QED BY <2>1 DEF Table!TableNext
<1>8. CASE RebalanceCopy \/ RebalanceMove \/ ControlReadKey
  <2>1. HostPhase' = HostPhase
    BY <1>8 DEF RebalanceCopy, RebalanceMove, ControlReadKey, HostPhase
  <2>2. UNCHANGED <<control_mutex, has_channel_candidate>>
    BY <1>8 DEF RebalanceCopy, RebalanceMove, ControlReadKey, mailbox
  <2> QED BY <1>2, <1>3, <2>1, <2>2 DEF Table!table_vars
<1>9. CASE ControlLock
  <2>1. Table!ControlLock
    BY <1>2, <1>3, <1>9
    DEF ControlLock, Table!ControlLock, HostPhase, mailbox
  <2> QED BY <2>1 DEF Table!TableNext
<1>10. CASE ControlClear
  <2>1. Table!ControlClear
    BY <1>2, <1>3, <1>10 DEF ControlClear, Table!ControlClear, HostPhase
  <2> QED BY <2>1 DEF Table!TableNext, Table!HostWork
<1>11. CASE ControlUnlock
  <2>1. Table!ControlUnlock
    BY <1>2, <1>3, <1>11
    DEF ControlUnlock, Table!ControlUnlock, HostPhase, mailbox
  <2> QED BY <2>1 DEF Table!TableNext, Table!HostWork
<1> QED BY <1>4, <1>5, <1>6, <1>7, <1>8, <1>9, <1>10, <1>11

LEMMA StartImplements ==
  ASSUME ControlInv, TrustedStart PROVE Table!TrustedStart
<1>1. num_active_channels' = 0
  BY DEF TrustedStart
<1>2. Owners' = <<>>
  <2>1. (num_active_channels \in Nat =>
           /\ Owners \in Seq({Owners[i] : i \in 1 .. num_active_channels})
           /\ Len(Owners) = num_active_channels)'
    BY OwnersAre, PTL
  <2> QED BY <1>1, <2>1, EmptySeq
<1>3. ClientPhase' = ClientPhase /\ c_chan' = c_chan
  BY DEF TrustedStart, ClientPhase, client
<1>4. HostPhase = "down" /\ HostPhase' = "idle"
  BY DEF TrustedStart, HostPhase
<1> QED BY <1>2, <1>3, <1>4 DEF TrustedStart, Table!TrustedStart

\* A new channel has a key that the mailbox could be read as.
LEMMA CreateImplements ==
  ASSUME ControlInv, ControlInv', MailboxInv, ControlNext, ControlCreate
  PROVE  Table!TableNext
<1>1. /\ HostPhase = "create" /\ HostPhase' = "clear"
      /\ UNCHANGED <<control_mutex, has_channel_candidate, c_chan>>
      /\ ClientPhase' = ClientPhase
  BY DEF ControlCreate, HostPhase, mailbox, ClientPhase, client
<1> DEFINE n == num_active_channels
<1>2. CASE UNCHANGED table
  <2>1. Owners' = Owners
    BY <1>2, OwnersStay DEF table, ControlCreate, TrustedStart
  <2> QED BY <1>1, <2>1
          DEF Table!TableNext, Table!HostWork, Table!ControlCreate
<1>3. CASE ~UNCHANGED table
  <2>1. /\ HasRoom(free_start_offset, n) /\ n' = n + 1
        /\ channels' = [channels EXCEPT ![n] =
                          ivshmem_init_channel(last_channel_id,
                                               free_start_offset,
                                               CandidateRead)]
    BY <1>3 DEF ControlCreate
  <2>2. n \in Nat /\ n \in Slots /\ n < IVSHMEM_MAX_CHANNELS
    BY <2>1, Sizes DEF HasRoom, ControlInv, ControlTypeOK, Slots
  <2>3. /\ channels'[n].key = CandidateRead
        /\ \A i \in Slots \ {n} : channels'[i] = channels[i]
    BY <2>1, <2>2 DEF ivshmem_init_channel, ControlInv, ControlTypeOK
  <2> DEFINE key == Table!Owner(CandidateRead)
             S == {Owners[i] : i \in 1 .. n}
  <2>4. /\ Owners \in Seq(S) /\ Len(Owners) = n
        /\ \A i \in 1 .. n : Owners[i] = Table!Owner(channels[i - 1].key)
    BY <2>2, OwnersAre
  <2>5. \A i \in 1 .. n' : Owners'[i] = Table!Owner(channels'[i - 1].key)
    <3>1. (n \in Nat =>
             \A i \in 1 .. n : Owners[i] = Table!Owner(channels[i - 1].key))'
      BY OwnersAre, PTL
    <3> QED BY <2>1, <2>2, <3>1 DEF Table!Owner
  <2>6. \A i \in 1 .. n : Owners'[i] = Owners[i]
    <3>1. \A i \in 1 .. n : i \in 1 .. n' /\ i - 1 \in Slots \ {n}
      BY <2>1, <2>2, Sizes DEF Slots
    <3> QED BY <2>3, <2>4, <2>5, <3>1
  <2>7. Owners'[n + 1] = key
    <3>1. n + 1 \in 1 .. n' /\ n + 1 - 1 = n
      BY <2>1, <2>2
    <3>2. PICK i \in 1 .. n' : i = n + 1 /\ i - 1 = n
      BY <2>2, <3>1
    <3>3. Owners'[i] = Table!Owner(channels'[i - 1].key)
      BY <2>5
    <3>4. channels'[i - 1].key = CandidateRead
      BY <2>3, <3>2
    <3> QED BY <3>2, <3>3, <3>4
  <2>8. Owners' = Append(Owners, key)
    <3>1. Owners' = [i \in 1 .. n + 1 |-> Owners'[i]]
      BY <2>1 DEF Owners
    <3>2. Append(Owners, key) =
            [i \in 1 .. n + 1 |-> IF i = n + 1 THEN key ELSE Owners[i]]
      <4> HIDE DEF key, S, n
      <4>1. DOMAIN Append(Owners, key) = 1 .. n + 1
        BY <2>2, <2>4
      <4>2. \A i \in 1 .. n + 1 : Append(Owners, key)[i] =
              IF i = n + 1 THEN key ELSE Owners[i]
        BY <2>2, <2>4
      <4>3. Append(Owners, key) \in Seq(S \cup {key})
        BY <2>4
      <4>4. Append(Owners, key) =
              [i \in DOMAIN Append(Owners, key) |-> Append(Owners, key)[i]]
        <5> DEFINE app == Append(Owners, key)
        <5>1. app \in [1 .. Len(app) -> S \cup {key}]
          BY <4>3, LenProperties
        <5> HIDE DEF app
        <5>2. app = [i \in DOMAIN app |-> app[i]]
          BY <5>1
        <5> QED BY <5>2 DEF app
      <4> QED BY <4>1, <4>2, <4>4
    <3> HIDE DEF key
    <3> QED BY <2>2, <2>6, <2>7, <3>1, <3>2
  <2>9. key \in Table!Readable(Writers)
    <3>1. IsMixed(CandidateRead)
      BY MixedKeys DEF MailboxInv, CandidateRead
    <3>2. PICK a \in Stored, b \in Stored :
            CandidateRead = [a EXCEPT !.receiver_vm = b.receiver_vm]
      BY <3>1 DEF IsMixed
    <3> DEFINE Made(k, l) ==
                 Table!Owner([k EXCEPT !.receiver_vm = l.receiver_vm])
    <3>3. key = Made(a, b)
      BY <3>2
    <3>4. Table!Readable(Writers) = {Made(k, l) : k, l \in Stored}
      BY DEF Table!Readable, Stored, Table!NoKey, NoKey
    <3> HIDE DEF key, Made
    <3> QED BY <3>3, <3>4
  <2>10. Len(Owners) < IVSHMEM_MAX_CHANNELS
    BY <2>2, <2>4
  <2> QED BY <1>1, <2>8, <2>9, <2>10
          DEF Table!TableNext, Table!HostWork, Table!ControlCreate
<1> QED BY <1>2, <1>3

\* A client's step; the stores of a request count as the raising of its flag.
LEMMA ClientImplements ==
  ASSUME ControlInv, ControlNext,
         \/ \E w \in Writers :
              RequestChannel(w) \/ WriterWork(w) \/ PollDone(w)
         \/ \E r \in Readers : FindForReceive(r)
         \/ \E c \in Clients : Return(c)
  PROVE  [Table!TableNext]_Table!table_vars
<1>1. UNCHANGED <<table, control_mutex, host>> /\ ~TrustedStart
  BY DEF RequestChannel, WriterWork, RaiseFlag, WriteSender, WriteReceiver,
         PollDone, FindForReceive, Return, TrustedStart, host
<1>2. Owners' = Owners /\ HostPhase' = HostPhase
  BY <1>1, OwnersStay DEF table, host, HostPhase
<1>3. c_pc \in [Clients -> ClientPC]
  BY DEF ControlInv, ControlTypeOK
<1>4. ASSUME NEW c \in Clients, NEW p \in ClientPC, NEW q \in ClientPC,
             c_pc' = [c_pc EXCEPT ![c] = p],
             q = IF p \in {"key", "receiver"} THEN "wait" ELSE p
      PROVE  ClientPhase' = [ClientPhase EXCEPT ![c] = q]
  BY <1>3, <1>4 DEF ClientPhase
<1>5. ASSUME NEW c \in Clients, NEW o \in {"flag", "failed"}, Found(c, o),
             UNCHANGED has_channel_candidate
      PROVE  Table!Found(c, o)
  <2>1. Table!Lookup(c) = Lookup(c)
    BY LookupSame DEF ControlInv
  <2> DEFINE p == IF Lookup(c) # NULL THEN "have" ELSE o
  <2>2. c_pc' = [c_pc EXCEPT ![c] = p] /\ p \in {"have", "flag", "failed"}
    BY <1>5 DEF Found
  <2> HIDE DEF p
  <2>3. ClientPhase' = [ClientPhase EXCEPT ![c] = p]
    BY <1>4, <2>2 DEF ClientPC
  <2> QED BY <1>1, <1>2, <1>5, <2>1, <2>3
          DEF Found, Table!Found, Table!NULL, NULL, p
<1>6. \A c \in Clients : ClientPhase[c] = IF c_pc[c] \in {"key", "receiver"}
                                            THEN "wait" ELSE c_pc[c]
  BY DEF ClientPhase
<1>7. \A w \in Writers : w \in Clients
  BY DEF Clients
<1>8. ASSUME NEW w \in Writers, RequestChannel(w) PROVE Table!TableNext
  <2>1. Table!RequestChannel(w)
    BY <1>5, <1>6, <1>7, <1>8
    DEF RequestChannel, Table!RequestChannel, mailbox
  <2> QED BY <2>1 DEF Table!TableNext
<1>9. ASSUME NEW w \in Writers, RaiseFlag(w) PROVE Table!TableNext
  <2>1. ClientPhase' = [ClientPhase EXCEPT ![w] = "wait"]
    BY <1>4, <1>7, <1>9 DEF RaiseFlag, ClientPC
  <2>2. Table!RaiseFlag(w)
    BY <1>1, <1>2, <1>6, <1>7, <1>9, <2>1 DEF RaiseFlag, Table!RaiseFlag
  <2> QED BY <2>2 DEF Table!TableNext
<1>10. ASSUME NEW w \in Writers, WriteSender(w) \/ WriteReceiver(w)
       PROVE  UNCHANGED Table!table_vars
  <2>1. ClientPhase' = ClientPhase
    BY <1>3, <1>7, <1>10 DEF WriteSender, WriteReceiver, ClientPhase
  <2> QED BY <1>1, <1>2, <1>10, <2>1
          DEF WriteSender, WriteReceiver, Table!table_vars
<1>11. ASSUME NEW w \in Writers, PollDone(w) PROVE Table!TableNext
  <2>1. Table!PollDone(w)
    BY <1>5, <1>6, <1>7, <1>11 DEF PollDone, Table!PollDone, mailbox
  <2> QED BY <2>1 DEF Table!TableNext
<1>12. ASSUME NEW r \in Readers, FindForReceive(r) PROVE Table!TableNext
  <2>1. r \in Clients
    BY DEF Clients
  <2>2. Table!FindForReceive(r)
    BY <1>5, <1>6, <1>12, <2>1
    DEF FindForReceive, Table!FindForReceive, mailbox
  <2> QED BY <2>2 DEF Table!TableNext
<1>13. ASSUME NEW c \in Clients, Return(c) PROVE Table!TableNext
  <2>1. ClientPhase' = [ClientPhase EXCEPT ![c] = "idle"]
    BY <1>4, <1>13 DEF Return, ClientPC
  <2>2. Table!Return(c)
    BY <1>1, <1>2, <1>6, <1>13, <2>1
    DEF Return, Table!Return, Table!NULL, NULL, mailbox
  <2> QED BY <2>2 DEF Table!TableNext, Table!Clients, Clients
<1> QED BY <1>8, <1>9, <1>10, <1>11, <1>12, <1>13 DEF WriterWork

(* The programs may rely on the table of ChannelTable: whatever            *)
(* rebalancings do to the buffers, the keys only grow in number while the  *)
(* host lives, a new one is made of what was stored in the mailbox, and    *)
(* lookups find what they find in that table.                              *)
THEOREM ControlImplementsTable == ControlSpec => ImplementsTable
<1>1. ControlInv /\ ControlInv' /\ MailboxInv /\ [ControlNext]_control_vars
        => [Table!TableNext]_Table!table_vars
  <2> SUFFICES ASSUME ControlInv, ControlInv', MailboxInv,
                      [ControlNext]_control_vars
               PROVE  [Table!TableNext]_Table!table_vars
    OBVIOUS
  <2>1. CASE UNCHANGED control_vars
    <3>1. Owners' = Owners /\ HostPhase' = HostPhase
            /\ ClientPhase' = ClientPhase
      BY <2>1 DEF control_vars, table, host, client, Owners, HostPhase,
                  ClientPhase
    <3> QED BY <2>1, <3>1
            DEF control_vars, mailbox, client, Table!table_vars
  <2>2. CASE TrustedStart
    BY <2>2, StartImplements DEF Table!TableNext
  <2>3. CASE ControlNext /\ ControlCreate
    BY <2>3, CreateImplements
  <2>4. CASE ControlNext /\ ~TrustedStart /\ ~ControlCreate
    BY <2>4, HostStepImplements, ClientImplements
    DEF ControlNext, Host, HostWork
  <2> QED BY <2>1, <2>2, <2>3, <2>4
<1>2. ControlInv /\ MailboxInv /\ [ControlNext]_control_vars => MailboxInv'
  BY MailboxStep
<1>3. ControlSpec => []MailboxInv
  BY <1>2, MailboxInit, ControlInvariant, PTL DEF ControlSpec
<1> QED BY <1>1, <1>3, TableInitially, ControlInvariant, PTL
        DEF ControlSpec, ImplementsTable, Table!TableSpec
=============================================================================
