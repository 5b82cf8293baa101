--------------------------- MODULE ControlSection ---------------------------
(***************************************************************************)
(* The data of secure_ivshmem's control section and the pure computations  *)
(* on it: the channel table, the first-match lookup by key, the record a   *)
(* new channel gets and the share every channel gets when the trusted host *)
(* rebalances.  Sizes are in bytes, slots are numbered from 0 as in C.     *)
(***************************************************************************)
EXTENDS Integers

CONSTANTS
  DATA_SECTION_SIZE,          \* bytes behind the control section
  IVSHMEM_PAGE_SIZE,          \* bytes per ring page
  IVSHMEM_CHANNEL_INIT_SIZE,  \* bytes a new channel gets
  IVSHMEM_MAX_CHANNELS        \* length of the channel table

(* What the #defines give: the first buffer is a whole number of pages, at *)
(* least two because a ring of one page is always full, and a table full   *)
(* of channels still leaves each of them two pages.                        *)
ASSUME SizesAssumption ==
  /\ IVSHMEM_PAGE_SIZE \in Nat \ {0}
  /\ IVSHMEM_MAX_CHANNELS \in Nat \ {0}
  /\ IVSHMEM_CHANNEL_INIT_SIZE \in Nat
  /\ IVSHMEM_CHANNEL_INIT_SIZE % IVSHMEM_PAGE_SIZE = 0
  /\ IVSHMEM_CHANNEL_INIT_SIZE >= 2 * IVSHMEM_PAGE_SIZE
  /\ DATA_SECTION_SIZE \in Nat
  /\ DATA_SECTION_SIZE >= IVSHMEM_CHANNEL_INIT_SIZE + 1
                            + IVSHMEM_MAX_CHANNELS * (2 * IVSHMEM_PAGE_SIZE)

Slots == 0 .. IVSHMEM_MAX_CHANNELS - 1

\* struct IvshmemChannelKey
Key == [sender_vm : Nat, sender_pid : Nat, receiver_vm : Nat]
NoKey == [sender_vm |-> 0, sender_pid |-> 0, receiver_vm |-> 0]

(* struct IvshmemChannel, the fields only the trusted host writes.  head,  *)
(* tail and data_size belong to the data plane (module SecureIvshmem);     *)
(* head_touch and last_sent_at are written and never read.                 *)
Channel == [id : Nat, key : Key, buf_offset : Nat, buf_size : Nat,
            num_page : Nat]

\* a slot after memset(0)
NoChannel == [id |-> 0, key |-> NoKey, buf_offset |-> 0, buf_size |-> 0,
              num_page |-> 0]

NULL == -1

-----------------------------------------------------------------------------
(* Lookup.                                                                 *)

\* Process id 0 in the wanted key stands for any sender process.
Matches(ckey, key) ==
  /\ ckey.sender_vm = key.sender_vm
  /\ key.sender_pid = 0 \/ ckey.sender_pid = key.sender_pid
  /\ ckey.receiver_vm = key.receiver_vm

FirstMatch(chans, n, key, i) ==
  /\ i \in 0 .. n - 1
  /\ Matches(chans[i].key, key)
  /\ \A j \in 0 .. i - 1 : ~Matches(chans[j].key, key)

\* mutant: the lookup runs on to the last match
FindLastChannel(chans, n, key) ==
  LET found == {i \in 0 .. n - 1 : Matches(chans[i].key, key)}
  IN  IF found = {} THEN NULL
                    ELSE CHOOSE i \in found : \A j \in found : j <= i

\* The slot of the first of the n active channels that matches, or NULL.
ivshmem_find_channel(chans, n, key) ==
  IF \E i \in Slots : FirstMatch(chans, n, key, i)
    THEN CHOOSE i \in Slots : FirstMatch(chans, n, key, i)
    ELSE NULL

-----------------------------------------------------------------------------
(* Sizes.                                                                  *)

\* mutant: no room is kept for the next channel
NumPageNoReserve(n) ==
  (DATA_SECTION_SIZE \div n) \div IVSHMEM_PAGE_SIZE

\* Whole pages each of n channels gets; one first buffer is kept in reserve.
NumPage(n) ==
  ((DATA_SECTION_SIZE - IVSHMEM_CHANNEL_INIT_SIZE - 1) \div n)
     \div IVSHMEM_PAGE_SIZE

AllocatedBufferSize(n) == NumPage(n) * IVSHMEM_PAGE_SIZE

(* With 4 MB, 4 KB pages and 32 channels no two tables of different length *)
(* get the same share, and no share is the size of a first buffer.         *)
ASSUME SharesAssumption ==
  \A n \in 1 .. IVSHMEM_MAX_CHANNELS :
    /\ AllocatedBufferSize(n) # IVSHMEM_CHANNEL_INIT_SIZE
    /\ \A m \in 1 .. IVSHMEM_MAX_CHANNELS :
         AllocatedBufferSize(m) = AllocatedBufferSize(n) => m = n

\* mutant: the buffer may end past the data section
HasRoomUnchecked(free, n) == n < IVSHMEM_MAX_CHANNELS

\* mutant: one channel more than the table has slots
HasRoomOneMore(free, n) ==
  /\ n <= IVSHMEM_MAX_CHANNELS
  /\ free + IVSHMEM_CHANNEL_INIT_SIZE <= DATA_SECTION_SIZE

\* The two early returns of ivshmem_create_channel.
HasRoom(free, n) ==
  /\ n < IVSHMEM_MAX_CHANNELS
  /\ free + IVSHMEM_CHANNEL_INIT_SIZE <= DATA_SECTION_SIZE

\* mutant: num_page is left to the first rebalancing
InitChannelNoPages(id, free, key) ==
  [id |-> id, key |-> key, buf_offset |-> free,
   buf_size |-> IVSHMEM_CHANNEL_INIT_SIZE, num_page |-> 0]

ivshmem_init_channel(id, free, key) ==
  [id |-> id, key |-> key, buf_offset |-> free,
   buf_size |-> IVSHMEM_CHANNEL_INIT_SIZE,
   num_page |-> IVSHMEM_CHANNEL_INIT_SIZE \div IVSHMEM_PAGE_SIZE]
=============================================================================
