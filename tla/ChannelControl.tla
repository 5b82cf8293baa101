--------------------------- MODULE ChannelControl ---------------------------
(***************************************************************************)
(* The control plane of secure_ivshmem: the trusted host that owns the     *)
(* channel table, and the clients that look channels up and ask for new    *)
(* ones through the one-place mailbox (has_channel_candidate,              *)
(* channel_candidate).  Every step is one access to shared memory that     *)
(* another process can observe; nothing but the host's own event loop      *)
(* orders the steps of different processes.                                *)
(***************************************************************************)
EXTENDS ControlSection

CONSTANTS
  Writers,         \* processes that call ivshmem_send_buffer
  Readers,         \* processes that call ivshmem_recv_buffer
  ClientKey,       \* the key each client passes
  MaxStarts,       \* bound: times the trusted host is started
  MaxMallocFails   \* bound: times malloc fails during rebalancing

Clients == Writers \cup Readers

ASSUME ClientsAssumption ==
  /\ ClientKey \in [Clients -> Key]
  /\ Writers \cap Readers = {}
  /\ MaxStarts \in Nat
  /\ MaxMallocFails \in Nat

VARIABLES
  \* struct IvshmemControlSection
  free_start_offset, num_active_channels, last_channel_id, channels,
  control_mutex, has_channel_candidate, channel_candidate,
  \* the trusted host: where it is, and the locals of the call it is in
  t_pc, p_chan_tmp, cnt, t_key,
  \* the clients: where each is, the p_chan it holds
  c_pc, c_chan,
  \* history: host starts, the start each p_chan was looked up under,
  \* malloc failures
  starts, c_start, malloc_fails

table == <<free_start_offset, num_active_channels, last_channel_id, channels>>
mailbox == <<has_channel_candidate, channel_candidate>>
host == <<t_pc, p_chan_tmp, cnt, t_key, starts, malloc_fails>>
client == <<c_pc, c_chan, c_start>>
control_vars == <<table, control_mutex, mailbox, host, client>>

HostPC == {"down", "idle", "rb_size", "rb_move",
           "ctl_key", "ctl_create", "ctl_clear", "ctl_unlock"}
ClientPC == {"idle", "flag", "key", "receiver", "wait", "have", "failed"}

ControlInit ==
  /\ free_start_offset = 0
  /\ num_active_channels = 0
  /\ last_channel_id = 0
  /\ channels = [i \in Slots |-> NoChannel]
  /\ control_mutex = 0
  /\ has_channel_candidate = FALSE
  /\ channel_candidate = NoKey
  /\ t_pc = "down"
  /\ p_chan_tmp = [i \in Slots |-> NoChannel]
  /\ cnt = 0
  /\ t_key = NoKey
  /\ c_pc = [c \in Clients |-> "idle"]
  /\ c_chan = [c \in Clients |-> NULL]
  /\ starts = 0
  /\ c_start = [c \in Clients |-> 0]
  /\ malloc_fails = 0

-----------------------------------------------------------------------------
(* The trusted host.                                                       *)

(* main() up to its loop: ivshmem_init_control_section.  channel_candidate *)
(* is not among the fields it resets.                                      *)
TrustedStart ==
  /\ t_pc = "down"
  /\ starts < MaxStarts
  /\ starts' = starts + 1
  /\ t_pc' = "idle"
  /\ free_start_offset' = 0
  /\ num_active_channels' = 0
  /\ last_channel_id' = 1
  /\ control_mutex' = 0
  /\ has_channel_candidate' = FALSE
  /\ channels' = [i \in Slots |-> NoChannel]
  /\ UNCHANGED <<channel_candidate, p_chan_tmp, cnt, t_key, malloc_fails,
                 client>>

(* The host process dies wherever it is: its locals are gone, shared memory *)
(* keeps its contents.                                                     *)
TrustedCrash ==
  /\ t_pc # "down"
  /\ starts < MaxStarts
  /\ t_pc' = "down"
  /\ p_chan_tmp' = [i \in Slots |-> NoChannel]
  /\ cnt' = 0
  /\ t_key' = NoKey
  /\ UNCHANGED <<table, control_mutex, mailbox, starts, malloc_fails, client>>

(* The rebalancing timer fires.  With no active channel                    *)
(* ivshmem_trusted_rebalancing returns at once.                            *)
RebalanceLock ==
  /\ t_pc = "idle"
  /\ num_active_channels > 0
  /\ control_mutex' = 1
  /\ t_pc' = "rb_size"
  /\ UNCHANGED <<table, mailbox, p_chan_tmp, cnt, t_key, starts,
                 malloc_fails, client>>

\* mutant: the early return forgets to unlock
RebalanceSkipLocked ==
  /\ t_pc = "rb_size"
  /\ AllocatedBufferSize(num_active_channels) = channels[0].buf_size
  /\ t_pc' = "idle"
  /\ UNCHANGED <<table, control_mutex, mailbox, p_chan_tmp, cnt, t_key,
                 starts, malloc_fails, client>>

\* mutant: any table whose first channel left its first size is skipped
RebalanceSkipGrown ==
  /\ t_pc = "rb_size"
  /\ AllocatedBufferSize(num_active_channels) <= channels[0].buf_size
  /\ control_mutex' = 0
  /\ t_pc' = "idle"
  /\ UNCHANGED <<table, mailbox, p_chan_tmp, cnt, t_key, starts,
                 malloc_fails, client>>

\* The first channel has the share it should have: unlock and return.
RebalanceSkip ==
  /\ t_pc = "rb_size"
  /\ AllocatedBufferSize(num_active_channels) = channels[0].buf_size
  /\ control_mutex' = 0
  /\ t_pc' = "idle"
  /\ UNCHANGED <<table, mailbox, p_chan_tmp, cnt, t_key, starts,
                 malloc_fails, client>>

\* malloc returns NULL: the function returns and the section stays locked.
RebalanceNoMemory ==
  /\ t_pc = "rb_size"
  /\ AllocatedBufferSize(num_active_channels) # channels[0].buf_size
  /\ malloc_fails < MaxMallocFails
  /\ malloc_fails' = malloc_fails + 1
  /\ t_pc' = "idle"
  /\ UNCHANGED <<table, control_mutex, mailbox, p_chan_tmp, cnt, t_key,
                 starts, client>>

\* The table is copied aside and carving starts again from offset 0.
RebalanceCopy ==
  /\ t_pc = "rb_size"
  /\ AllocatedBufferSize(num_active_channels) # channels[0].buf_size
  /\ p_chan_tmp' = channels
  /\ free_start_offset' = 0
  /\ cnt' = 0
  /\ t_pc' = "rb_move"
  /\ UNCHANGED <<num_active_channels, last_channel_id, channels,
                 control_mutex, mailbox, t_key, starts, malloc_fails, client>>

\* mutant: the copy is written back from the far end of the table
MoveChannelReversed(i) ==
  [p_chan_tmp[num_active_channels - 1 - i] EXCEPT
     !.buf_offset = free_start_offset,
     !.buf_size = AllocatedBufferSize(num_active_channels),
     !.num_page = NumPage(num_active_channels)]

\* What slot i holds once its turn in the loop is over.
MoveChannel(i) ==
  [p_chan_tmp[i] EXCEPT
     !.buf_offset = free_start_offset,
     !.buf_size = AllocatedBufferSize(num_active_channels),
     !.num_page = NumPage(num_active_channels)]

RebalanceMove ==
  /\ t_pc = "rb_move"
  /\ cnt < num_active_channels
  /\ channels' = [channels EXCEPT ![cnt] = MoveChannel(cnt)]
  /\ free_start_offset' =
       free_start_offset + AllocatedBufferSize(num_active_channels)
  /\ cnt' = cnt + 1
  /\ UNCHANGED <<num_active_channels, last_channel_id, control_mutex,
                 mailbox, t_pc, p_chan_tmp, t_key, starts, malloc_fails,
                 client>>

\* The unused slots are cleared, the copy is freed, the section unlocked.
RebalanceUnlock ==
  /\ t_pc = "rb_move"
  /\ cnt = num_active_channels
  /\ channels' = [i \in Slots |-> IF i < cnt THEN channels[i] ELSE NoChannel]
  /\ p_chan_tmp' = [i \in Slots |-> NoChannel]
  /\ cnt' = 0
  /\ control_mutex' = 0
  /\ t_pc' = "idle"
  /\ UNCHANGED <<free_start_offset, num_active_channels, last_channel_id,
                 mailbox, t_key, starts, malloc_fails, client>>

\* The control timer fires and finds a request; without one nothing happens.
ControlLock ==
  /\ t_pc = "idle"
  /\ has_channel_candidate
  /\ control_mutex' = 1
  /\ t_pc' = "ctl_key"
  /\ UNCHANGED <<table, mailbox, p_chan_tmp, cnt, t_key, starts,
                 malloc_fails, client>>

(* ivshmem_init_channel copies the candidate field by field while clients  *)
(* may be writing it: the sender's half is read here, the receiver's half  *)
(* when the channel is created.                                            *)
ControlReadKey ==
  /\ t_pc = "ctl_key"
  /\ t_key' = channel_candidate
  /\ t_pc' = "ctl_create"
  /\ UNCHANGED <<table, control_mutex, mailbox, p_chan_tmp, cnt, starts,
                 malloc_fails, client>>

CandidateRead ==
  [t_key EXCEPT !.receiver_vm = channel_candidate.receiver_vm]

\* ivshmem_create_channel, both outcomes.  Only the host reads what it
\* writes here before num_active_channels covers the new slot.
ControlCreate ==
  /\ t_pc = "ctl_create"
  /\ \/ /\ HasRoom(free_start_offset, num_active_channels)
        /\ channels' = [channels EXCEPT ![num_active_channels] =
                          ivshmem_init_channel(last_channel_id,
                                               free_start_offset,
                                               CandidateRead)]
        /\ last_channel_id' = last_channel_id + 1
        /\ free_start_offset' =
             free_start_offset + IVSHMEM_CHANNEL_INIT_SIZE
        /\ num_active_channels' = num_active_channels + 1
     \/ /\ ~HasRoom(free_start_offset, num_active_channels)
        /\ UNCHANGED table
  /\ t_key' = NoKey
  /\ t_pc' = "ctl_clear"
  /\ UNCHANGED <<control_mutex, mailbox, p_chan_tmp, cnt, starts,
                 malloc_fails, client>>

\* mutant: a failed creation leaves the request standing
ControlClearIfCreated ==
  /\ t_pc = "ctl_clear"
  /\ has_channel_candidate' = ~HasRoom(free_start_offset, num_active_channels)
  /\ t_pc' = "ctl_unlock"
  /\ UNCHANGED <<table, control_mutex, channel_candidate, p_chan_tmp, cnt,
                 t_key, starts, malloc_fails, client>>

ControlClear ==
  /\ t_pc = "ctl_clear"
  /\ has_channel_candidate' = FALSE
  /\ t_pc' = "ctl_unlock"
  /\ UNCHANGED <<table, control_mutex, channel_candidate, p_chan_tmp, cnt,
                 t_key, starts, malloc_fails, client>>

ControlUnlock ==
  /\ t_pc = "ctl_unlock"
  /\ control_mutex' = 0
  /\ t_pc' = "idle"
  /\ UNCHANGED <<table, mailbox, p_chan_tmp, cnt, t_key, starts,
                 malloc_fails, client>>

HostWork ==
  \/ RebalanceSkip \/ RebalanceNoMemory \/ RebalanceCopy
  \/ RebalanceMove \/ RebalanceUnlock
  \/ ControlReadKey \/ ControlCreate \/ ControlClear \/ ControlUnlock

Host == \/ TrustedStart \/ TrustedCrash
        \/ RebalanceLock \/ ControlLock \/ HostWork

-----------------------------------------------------------------------------
(* The clients.                                                            *)

Lookup(c) ==
  ivshmem_find_channel(channels, num_active_channels, ClientKey[c])

\* ivshmem_find_channel returned: found says what happens then.
Found(c, otherwise) ==
  /\ c_chan' = [c_chan EXCEPT ![c] = Lookup(c)]
  /\ c_start' = [c_start EXCEPT ![c] = IF Lookup(c) # NULL THEN starts ELSE 0]
  /\ c_pc' = [c_pc EXCEPT ![c] = IF Lookup(c) # NULL THEN "have"
                                                      ELSE otherwise]

\* ivshmem_send_buffer enters ivshmem_request_channel.
RequestChannel(w) ==
  /\ c_pc[w] = "idle"
  /\ Found(w, "flag")
  /\ UNCHANGED <<table, control_mutex, mailbox, host>>

RaiseFlag(w) ==
  /\ c_pc[w] = "flag"
  /\ has_channel_candidate' = TRUE
  /\ c_pc' = [c_pc EXCEPT ![w] = "key"]
  /\ UNCHANGED <<table, control_mutex, channel_candidate, host, c_chan,
                 c_start>>

\* *key is 12 bytes: the compiler copies the sender's eight, then the rest.
WriteSender(w) ==
  /\ c_pc[w] = "key"
  /\ channel_candidate' =
       [ClientKey[w] EXCEPT !.receiver_vm = channel_candidate.receiver_vm]
  /\ c_pc' = [c_pc EXCEPT ![w] = "receiver"]
  /\ UNCHANGED <<table, control_mutex, has_channel_candidate, host, c_chan,
                 c_start>>

WriteReceiver(w) ==
  /\ c_pc[w] = "receiver"
  /\ channel_candidate' = [channel_candidate EXCEPT
                             !.receiver_vm = ClientKey[w].receiver_vm]
  /\ c_pc' = [c_pc EXCEPT ![w] = "wait"]
  /\ UNCHANGED <<table, control_mutex, has_channel_candidate, host, c_chan,
                 c_start>>

\* The polling loop sees the flag down and looks the channel up again.
PollDone(w) ==
  /\ c_pc[w] = "wait"
  /\ ~has_channel_candidate
  /\ Found(w, "failed")
  /\ UNCHANGED <<table, control_mutex, mailbox, host>>

\* ivshmem_recv_buffer looks its channel up and gives up without one.
FindForReceive(r) ==
  /\ c_pc[r] = "idle"
  /\ Found(r, "failed")
  /\ UNCHANGED <<table, control_mutex, mailbox, host>>

\* The call returns, with or without having had a channel.
Return(c) ==
  /\ c_pc[c] \in {"have", "failed"}
  /\ c_pc' = [c_pc EXCEPT ![c] = "idle"]
  /\ c_chan' = [c_chan EXCEPT ![c] = NULL]
  /\ c_start' = [c_start EXCEPT ![c] = 0]
  /\ UNCHANGED <<table, control_mutex, mailbox, host>>

WriterWork(w) == RaiseFlag(w) \/ WriteSender(w) \/ WriteReceiver(w)

ControlNext ==
  \/ Host
  \/ \E w \in Writers : RequestChannel(w) \/ WriterWork(w) \/ PollDone(w)
  \/ \E r \in Readers : FindForReceive(r)
  \/ \E c \in Clients : Return(c)

ControlSpec == ControlInit /\ [][ControlNext]_control_vars

(* Fairness.  A running process keeps running.  A timer that has expired   *)
(* stays readable until the loop reads it, so no timer is passed over for  *)
(* ever although the host is busy in between: strong fairness.  A client   *)
(* polls every 10 ms, while a refused writer first fills its 256 MB buffer *)
(* again before it can raise the flag anew: strong fairness.  A host that  *)
(* died is started again.                                                  *)
HostFairness ==
  /\ WF_control_vars(HostWork)
  /\ WF_control_vars(TrustedStart)
  /\ SF_control_vars(RebalanceLock)
  /\ SF_control_vars(ControlLock)

ControlFairSpec ==
  /\ ControlSpec
  /\ HostFairness
  /\ \A w \in Writers : /\ WF_control_vars(WriterWork(w))
                        /\ SF_control_vars(PollDone(w))

-----------------------------------------------------------------------------
(* Properties.                                                             *)

(* Types; the table never has more active channels than slots.             *)
ControlTypeOK ==
  /\ free_start_offset \in Nat
  /\ num_active_channels \in 0 .. IVSHMEM_MAX_CHANNELS
  /\ last_channel_id \in Nat
  /\ channels \in [Slots -> Channel]
  /\ control_mutex \in {0, 1}
  /\ has_channel_candidate \in BOOLEAN
  /\ channel_candidate \in Key
  /\ t_pc \in HostPC
  /\ p_chan_tmp \in [Slots -> Channel]
  /\ cnt \in 0 .. IVSHMEM_MAX_CHANNELS
  /\ t_key \in Key
  /\ c_pc \in [Clients -> ClientPC]
  /\ c_chan \in [Clients -> Slots \cup {NULL}]
  /\ starts \in Nat
  /\ c_start \in [Clients -> Nat]
  /\ malloc_fails \in Nat

Active == 0 .. num_active_channels - 1
End(i) == channels[i].buf_offset + channels[i].buf_size

(* Whenever the host is not carving the section up, the buffers of the     *)
(* active channels follow one another without overlap, end before          *)
(* free_start_offset, and that lies inside the data section: what          *)
(* ivshmem_create_channel's space check and the reserve in                 *)
(* ivshmem_trusted_rebalancing are there for.                              *)
BuffersDisjoint ==
  t_pc \notin {"down", "rb_move"} =>
    /\ \A i, j \in Active : i < j => End(i) <= channels[j].buf_offset
    /\ \A i \in Active : End(i) <= free_start_offset
    /\ free_start_offset <= DATA_SECTION_SIZE

(* A p_chan looked up since the host last started still points at a        *)
(* channel of the key it was looked up for, however often the table was    *)
(* rebalanced meanwhile: clients keep raw pointers into the table across   *)
(* whole messages.                                                         *)
PointersMatch ==
  \A c \in Clients :
    c_pc[c] = "have" /\ c_start[c] = starts =>
      /\ c_chan[c] \in Active
      /\ Matches(channels[c_chan[c]].key, ClientKey[c])

(* As long as the host lives the table only grows, and no active slot      *)
(* changes its owner.                                                      *)
KeepsOwners ==
  t_pc # "down" =>
    /\ num_active_channels' >= num_active_channels
    /\ \A i \in Active : /\ channels'[i].key = channels[i].key
                         /\ channels'[i].id = channels[i].id
TableGrows == [][KeepsOwners]_control_vars

(* Looking at the first channel only is enough: when a rebalancing is      *)
(* skipped, every active channel already has the share due to it.          *)
SkipsBalanced ==
  t_pc = "rb_size" /\ t_pc' = "idle" /\ malloc_fails' = malloc_fails =>
    \A i \in Active :
      channels[i].buf_size = AllocatedBufferSize(num_active_channels)
SkipOnlyWhenBalanced == [][SkipsBalanced]_control_vars

(* After a rebalancing every active channel has the same number of pages,  *)
(* at least the two a ring needs, and a first buffer still fits behind.    *)
LeavesReserve ==
  t_pc = "rb_move" /\ t_pc' = "idle" =>
    /\ \A i \in Active : /\ channels'[i].num_page = channels'[0].num_page
                         /\ channels'[i].num_page >= 2
    /\ free_start_offset' + IVSHMEM_CHANNEL_INIT_SIZE <= DATA_SECTION_SIZE
BalancedWithReserve == [][LeavesReserve]_control_vars

-----------------------------------------------------------------------------
(* The inductive invariant behind the properties above.                    *)

\* The first n buffers follow one another and end before free_start_offset.
LaidOut(n) ==
  /\ \A i, j \in 0 .. n - 1 : i < j => End(i) <= channels[j].buf_offset
  /\ \A i \in 0 .. n - 1 : End(i) <= free_start_offset

Settled == t_pc \notin {"down", "rb_move"}

\* Between two rebalancings the first m channels have the share of m
\* channels, and those created since have their first buffer.
SharesSettled ==
  \E m \in 0 .. num_active_channels :
    /\ \A i \in 0 .. m - 1 : channels[i].buf_size = AllocatedBufferSize(m)
    /\ \A i \in m .. num_active_channels - 1 :
         channels[i].buf_size = IVSHMEM_CHANNEL_INIT_SIZE

\* In the loop of a rebalancing the first cnt channels are done, and what
\* the others will need still fits in front of the reserve.
MoveUnderWay ==
  /\ num_active_channels > 0
  /\ cnt <= num_active_channels
  /\ LaidOut(cnt)
  /\ free_start_offset
       + (num_active_channels - cnt) * AllocatedBufferSize(num_active_channels)
       <= DATA_SECTION_SIZE - IVSHMEM_CHANNEL_INIT_SIZE - 1
  /\ \A i \in 0 .. cnt - 1 :
       /\ channels[i].buf_size = AllocatedBufferSize(num_active_channels)
       /\ channels[i].num_page = NumPage(num_active_channels)
  /\ \A i \in Active : /\ p_chan_tmp[i].key = channels[i].key
                        /\ p_chan_tmp[i].id = channels[i].id

(* The table between and during rebalancings, and the pointers into it.    *)
ControlInv ==
  /\ ControlTypeOK
  /\ Settled => /\ LaidOut(num_active_channels)
                /\ free_start_offset <= DATA_SECTION_SIZE
                /\ SharesSettled
  /\ t_pc = "rb_size" => num_active_channels > 0
  /\ t_pc = "rb_move" => MoveUnderWay
  /\ PointersMatch
  /\ \A c \in Clients : c_start[c] <= starts

-----------------------------------------------------------------------------
(* Every wait in ivshmem_request_channel ends, even when the host dies     *)
(* and is started again meanwhile or cannot create the channel.            *)
RequestReturns ==
  \A w \in Writers : c_pc[w] = "wait" ~> c_pc[w] # "wait"

(* The control section does not stay locked: clients spin on it.  A failed *)
(* malloc leaves it locked, and the next timer opens it again.             *)
SectionUnlocked == []<>(control_mutex = 0)

(* The abstract table.  A rebalancing keeps the owners whatever it does    *)
(* to their buffers, a channel appears when a request is served, and the   *)
(* stores of a request count as the raising of its flag.                   *)
HostPhase == CASE t_pc \in {"rb_size", "rb_move"} -> "rebalance"
               [] t_pc \in {"ctl_key", "ctl_create"} -> "create"
               [] t_pc = "ctl_clear" -> "clear"
               [] t_pc = "ctl_unlock" -> "unlock"
               [] OTHER -> t_pc

ClientPhase == [c \in Clients |->
                  IF c_pc[c] \in {"key", "receiver"} THEN "wait" ELSE c_pc[c]]

\* A key that no client looks for, whatever it is, is nobody's.
Owners ==
  [i \in 1 .. num_active_channels |->
     IF \E c \in Clients : Matches(channels[i - 1].key, ClientKey[c])
       THEN channels[i - 1].key
       ELSE [sender_vm |-> NULL, sender_pid |-> NULL, receiver_vm |-> NULL]]

Table == INSTANCE ChannelTable
           WITH owners <- Owners, t_pc <- HostPhase, c_pc <- ClientPhase

(* The control plane implements the table the programs rely on.            *)
ImplementsTable == Table!TableSpec

(* README: each sender is allocated a dedicated channel.  No two channels  *)
(* carry the key of the same sender.                                       *)
DedicatedChannels ==
  \A w \in Writers : \A i, j \in Active :
    channels[i].key = ClientKey[w] /\ channels[j].key = ClientKey[w] => i = j

(* ivshmem_request_channel: "wait for the channel to be created".  When    *)
(* the wait ends under a live host and there is room, there is a channel.  *)
WaitEndsWithChannel ==
  [][\A w \in Writers :
       /\ c_pc[w] = "wait"
       /\ c_pc'[w] = "failed"
       /\ t_pc # "down"
       => ~HasRoom(free_start_offset, num_active_channels)]_control_vars
=============================================================================
