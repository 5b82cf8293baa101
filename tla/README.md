# Secure IVSHMEM in TLA+

A verification development kept beside the Secure IVSHMEM sources.  Virtual
machines share one memory device; a *trusted host* carves it into channels, and
*writers* and *readers* in the guests exchange messages through lock-free page
rings inside those channels.  All paths below are relative to the repository.

## 1. Inventory

### Parts, state, operations

| part | code | state | operations |
|---|---|---|---|
| channel table and control plane | `secure_ivshmem/src/ivshmem_trusted.c`, `ivshmem_secure.c:6-55` | control section in shared memory: `control_mutex`, `free_start_offset`, `num_active_channels`, `last_channel_id`, the table `channels[]`, the mailbox `has_channel_candidate` + `channel_candidate` | host: init, rebalancing timer, control timer (create a channel, clear the flag); clients: find, request |
| page ring of a channel | `ivshmem_secure.c:42-175` with `IVSHMEM_TYPE 2` | `head`, `tail`, `data_size` of a channel, its pages | `ivshmem_send_buffer`, `ivshmem_recv_buffer` |
| trusted host program | `examples/trusted_main/main.c` | two timerfds and stdin in one epoll loop | runs the two host operations one at a time |
| writer, reader | `examples/{writer,reader}/main.c` | a message counter each | send / receive in a loop, check the counter |
| device access | `ivshmem_lib.c` | a descriptor and a mapping per process | open, map, or fail and exit |
| lock-based transport | `ivshmem_lock_base.c`, `examples/*/lock_base_main.c` | one section: `mutex`, `ref_count`, `key`, data | the same two calls, for comparison |
| mmap hook (kernel) | `kernel_module/ivshmem_uio_hook.c` | `g_ctx`, `is_locked`, a spin lock | an ftrace hook in front of the device's `mmap` that checks offset, size and program name |
| myshm device (kernel) | `dev_shm/myshm.c` | a vmalloc area, the device node | init (node, then buffer), `mmap` with a bounds check, exit |
| doorbell client | `examples/ivshmem_client/` | peers and their vectors, the server socket | connect, server messages, notify |
| AES programs | `ivshmem_crypto.c`, `examples/*/aes_main.c` | as writer and reader | pack IV, ciphertext and tag into a message, cut them out again |
| experiments | `latency_test`, `shm_test`, `no_lock_test` | a region and a sequence number with its echo, two semaphores, or nothing | fill and read the region over and over |

### Interactions

Everything between host and guests goes through the control section, with plain
loads and stores.  A writer without a channel raises `has_channel_candidate`,
stores its key and polls until the flag is cleared; the host's control timer
sees the flag, creates a channel for the key it reads and clears the flag; the
host's rebalancing timer gives every active channel the same share of the data
section, moving buffers.  Both host operations set `control_mutex` for their
duration; clients only test it, once per page.  A client keeps the raw pointer
`p_chan` into the table across a whole message.  Inside a channel the sender
alone writes `head`, the receiver alone writes `tail` and both change
`data_size`; the host rewrites all three when it rebalances.

### What is hard

- The request protocol has one mailbox for all writers, several stores per
  request and no order that protects them from the host's reads.
- `control_mutex` is tested, not taken, by clients: a rebalancing can start
  between the test and the copy.
- Rebalancing decides by two rounding divisions, a reserve and a comparison
  with the first channel only.
- The host may die anywhere, with `control_mutex` set or a request pending, and
  starts with an empty table under clients that hold pointers into the old one.
- The two sides of a ring run without a lock; index arithmetic is unsigned.
- The lock-based `mutex` is tested and set in two steps, and a process may die
  with it set, or in the middle of its copy.
- Writers come under a new pid and leave channels behind that nobody removes; a
  reader takes the first match; a call that fails is counted; a reader killed
  inside a message leaves its successor in the middle of it.
- The AES programs compute the length of the ciphertext on each side.
- The doorbell client keeps peers and descriptors from messages of a server that
  may die between any two of them, and starts again from what is left.
- The hook's `is_locked` marks "the caller is inside" for all callers at once;
  device and hook are two modules, loaded and unloaded under callers of `mmap`
  and under each other, with windows in their init functions.

The full list, each entry at its line and with the properties that watch it, is
`hazards` in `PROJECT.json`.

### What makes each part correct

- *table*: buffers of active channels disjoint and inside the section; entries
  never change owner while the host lives; every rebalancing is complete and
  leaves room for the next channel; waits end; each key has one channel.
- *ring*: no two copies on a page; pages arrive once, in order and unchanged;
  messages arrive whole; messages keep flowing.
- *both together*: moving a channel disturbs neither its order nor its
  neighbours.
- *programs*: a message arrives whole; a mismatch that the reader reports has a
  cause that can be named; a pair with a common channel brings everything
  across; an untouched ciphertext decrypts.
- *lock-based transport*: mutual exclusion, chunks in step, progress, also when
  processes are killed.
- *experiments*: every round is handed over once, and an alarm is a race.
- *doorbell client*: its view of the peers follows the server's, descriptors are
  neither closed twice nor lost, it catches up after every failure.
- *hook*: a refused request is not mapped, a call enters the hook once, whoever
  set `is_locked` resets it unless it dies before, calls return, nobody keeps a
  mapping of freed memory.

## 2. Modules

```
ControlSection        data and pure computations of the control section
  ChannelTable        abstract: a table of keys that grows, a mailbox, lookups
    Programs          writer, reader and AES programs on that table
      Programs_proofs
  ChannelControl      host, writers and readers at the grain of single accesses;
                      implements ChannelTable
    ChannelControl_proofs
    SecureIvshmem     + RingOps: rings and page copies under that control plane
      SecureIvshmem_proofs    extends ChannelControl_proofs too
RingOps               index and size arithmetic of a ring
  PageRing            one channel, geometry fixed, bytes of a message
    PageRing_proofs   PageRing => PageFifo, and messages on top of it
PageFifo              abstract: a bounded queue of pages
LockChannel           the lock-based transport; also implements PageFifo
  LockChannel_proofs
Handshakes            the three experiments; two of them implement PageFifo
  Handshakes_proofs
Baselines             LockChannel and Handshakes, one program at a time
MmapHook              the mmap hook, the device behind it and their loading
  MmapHook_proofs
IvshmemClient         the doorbell client, the server and its peers around it
  IvshmemClient_proofs
MC*                   keys, sizes and requests of the TLC instances
```

`map` in `PROJECT.json` names the source lines of every definition.  In outline:

**ControlSection.**  `Matches` and `ivshmem_find_channel` are the lookup with
process id 0 as wildcard; `NumPage` and `AllocatedBufferSize` the two divisions
of the rebalancing; `HasRoom` and `InitChannel` the space check and the record
of `ivshmem_create_channel`.

**ChannelControl.**  A step is one access to shared memory that another party
can observe.  `TrustedStart` / `TrustedCrash` start and kill the host process
(the control section survives).  A rebalancing is `RebalanceLock` (timer,
`control_mutex = 1`, number of channels tested), then `RebalanceSkip`,
`RebalanceNoMemory` or `RebalanceCopy`, one `RebalanceMove` per channel, and
`RebalanceUnlock`.  The control timer is `ControlLock`, `ControlReadKey`,
`ControlCreate`, `ControlClear`, `ControlUnlock`; the key is read in two pieces
because a writer may be storing it.  A writer's call is `RequestChannel` (find,
or start a request), `RaiseFlag`, `WriteSender`, `WriteReceiver`, `PollDone`; a
reader's is `FindForReceive`.  `c_start` remembers under which host start a
pointer was taken; it is read by properties only.

**ChannelTable.**  The control plane as the programs see it: `owners` is the
sequence of keys in the table, a rebalancing is a phase with `control_mutex` set
that changes none of them, a request is a flag, and the key that is served is
any that the mailbox may be read as (`Readable`: one that a writer stored, or
two halves).  `Table` in ChannelControl maps the detailed state to it:
`HostPhase` and `ClientPhase` forget the accesses inside a phase, `Owners` the
sizes and the difference between keys nobody looks for.

**Programs.**  Processes over ChannelTable: `Start` (open and map the device; a
failure there changes nothing), `Kill`; a writer's `BeginSend`, `AwaitChannel`,
`PutPage`, `SendReturns`, `SendFails`; a reader's `BeginRecv`, `RecvFails`,
`TakePage`, `RecvReturns`, and `DecryptFails` of the AES one.  A writer is
started once, as the next one has another pid and so another key; a reader may
be started any number of times.  A channel is the queue of pages that `ring` and
`RingImplementsFifo` establish.  `ChannelCreated` and `RebalanceEnds` are the
host's: when channels were made since the last rebalancing (`balanced` is
false), the next one moves all buffers (`MoveBuffers`).  A channel that has pages
under way then, or a client past its mutex test, is `met` in use, and from there
on its calls return anything.  `aes` says which pair of programs runs.
`send_buf` is what the AES writer packs, byte by byte; `ct_len` and `Decrypts`
what the reader cuts out of it.  History: `refused`, the writers that counted a
message they could not send; `served`, the channels a reader that ended had
taken pages from; `torn`, those where it was killed inside a message; `met`.

**PageRing.**  The loops of the two calls: test, copy, move the index, account.
A page holds a slice (message, first byte, length) instead of bytes; `ToSent`
keeps the `size_t` wrap of `size - IVSHMEM_PAGE_SIZE`.  `SendCopy` records the
bytes the code counts as sent; the copy itself always moves a whole page, which
matters only past the end of the last page.

**SecureIvshmem.**  Conjoins each host or client action of ChannelControl with
what it does to the rings, and adds the page loop: `PassMutex`, `StartCopy`
(full / empty test and address), `SendCopy`, `SendHead`, `RecvCopy`, `RecvTail`,
and `Fault` for the division by a `num_page` of 0.  `mem` is the data section by
page, so a copy through a stale address really lands in another channel.
`put`, `taken` and `disturbed` are history: pages entered and left, and whether
a rebalancing met the channel in use (pages under way or a client past the
mutex test).

**LockChannel.**  Each loop at the grain of single accesses: test `ref_count`
and key, test `mutex`, set it, copy, store the key, set `ref_count`, release.
A key is the sender and the VM it sends to.  `StartSender` and `StartReceiver`
are the programs' stores into the key before their first call; `Die` kills a
process anywhere, and it starts again with its first message.

**Handshakes.**  One loop for the side that fills (`StartFilling`, `FillPart`,
`SignalFilled`, `Finish`) and one for the side that reads (`StartReading`,
`ReadPart`, `Verdict`); `MayFill` and `MayCheck` hold what each program waits
for.  `raced` remembers whether the region was half written when the reader
looked at its first byte, or has been written since.

**MmapHook.**  Threads in `mmap`: the ftrace callback tests `is_locked`
(`EnterDevice`, `EnterHook`), takes the spin lock and sets `is_locked`, the
guards refuse or accept, `__ivshmem_origin_mmap` calls the device's `mmap`,
which enters the callback again, and returns 0.  `LoadHook`, `SetContext`,
`LoadFails`, `Unhook`, `FreeContext` are the hook's init and exit; `CreateNode`,
`AllocateBuffer`, `NoBuffer`, `myshm_exit` the device's.  `attached` says whether
the hook's target address is the loaded device's.  A thread that dies ends
in "oops", or in "lost" when it was past the test of `is_locked`: nobody resets
it then until the hook is unloaded and its context goes.  `Inside` are the calls
that are alive there.  `shared` marks calls that overlapped another one or the loading or
unloading of a module.

**IvshmemClient.**  `Connect`, `ReadVersion`, `ReadId`, `ReadShm` and
`ConnectFails` are the handshake; a pass of the poll loop is `Select`, then
`HandleStdin`, one server message (`FreePeer`, `NewVector`, `MsgFails`,
`NoMemory`) and `HandleEvent`; a failing message ends in `Close` and a new
`Connect`.  `open` is the set of descriptors the process has, told apart from
the ones its structures hold.  The server is external: it greets, announces
vectors in order, deletes, dies having sent any part of its messages.

## 3. What TLC checks

Each configuration file starts with a line on the situation it sets up.

| run | question | answer |
|---|---|---|
| `control_contention` | two writers race for the mailbox under a wildcard reader; real sizes, up to three channels | buffers stay disjoint, pointers stay good, the table only grows, a skipped rebalancing was not needed, a finished one leaves equal shares and the reserve, whatever keys the race produced |
| `control_liveness` | a table with one slot, two writers, host crash, failing malloc, fairness | every wait ends, the section is unlocked again and again, and the control plane implements `ChannelTable` |
| `control_dedicated` | one channel per key? | violated: the flag goes up before the key is stored |
| `ring` | five pages and a half through a ring of three | no page race, messages whole, progress, refines `PageFifo` |
| `secure_quiet` | two channels, rings growing from two pages to six and shrinking to three under a three-page message | a channel that no rebalancing met in use is copied to and from inside its buffer; as long as that is true of all channels, receivers get their pages in order |
| `secure_crash` | the host dies at any access and restarts under a sender and a receiver | a division by zero only through a pointer from before the restart; `ControlInv` holds |
| `secure_isolation` | does a copy stay out of other channels? | violated: address computed before the move |
| `programs` | two writers of one VM and a reader that accepts both, started, killed and started again, plain and AES, under fairness | messages arrive whole; a mismatch has one of three causes: an earlier reader took pages from the channel, its writer counted a message it could not send, a rebalancing moved the channel in use; short of the last, a reader keeps to its first verdict and a pair with a common channel gets everything across |
| `aes` | does an untouched message decrypt? | violated: the reader's ciphertext is `IV_LEN + TAG_LEN` bytes short |
| `baselines` | the lock-based programs with two processes killed anywhere, or one of the three experiments | exclusion; received chunks are whole and in step; progress unless a process died with `mutex`; queues of one (`LockIsFifo`, `HandshakeIsFifo`); the no-lock reader raises no alarm unless it looked at a half-written region or the region was written before the end of its copy; rounds go on |
| `hook` | two threads, three loads of device and hook in any order, one failure | `is_locked` is set only while a live call is to reset it, or after one died inside the hook; calls that overlap nothing are guarded and enter the hook once; overlapping ones never nest deeper than the calls made; no mapping of freed memory; every call returns or dies with a module |
| `client` | a peer joins, leaves, joins again; the server restarts, once with too many vectors; an allocation fails | view follows the server, no descriptor closed twice, one lost per connection at most, rings handled, the client catches up |

The violated ones are the `findings` of `PROJECT.json`, each with the line of
the repository that promises otherwise.  Further properties are stated in the
modules because the code's documentation suggests them; they do not hold, and
no run lists them, as each takes only a few steps to refute:

- `WaitEndsWithChannel` (ChannelControl): "wait for the channel to be created"
  (`ivshmem_secure.c:39`).  One writer and a host suffice: the host serves the
  zero key it finds behind the early flag and clears the flag, the lookup after
  the wait fails and the call returns -1 although there is room.
- `DataSizeExact` (PageRing): `data_size` is the "actual data size in bytes"
  (`ivshmem_secure.h:27`).  True for messages of whole pages (`SIZE = 20`);
  for `SIZE = 22` the sender adds whole pages and the receiver takes bytes off.
- `MessageIntact` (PageRing) for a message between one page and two (`SIZE = 6`
  with pages of 4): `to_sent` is `MIN(size - IVSHMEM_PAGE_SIZE, ...)`, not
  `MIN(size - data_sent, ...)` as in chunk mode (`ivshmem_secure.c:90` and
  `:75`), so pages of `size - IVSHMEM_PAGE_SIZE` bytes are sent and whole ones
  received.  "This will copy MESSAGE_SIZE bytes from the shared memory into
  recv_buf" (`reader/main.c:107`).
- `InOrder` (SecureIvshmem): rebalancing moves `buf_offset` and takes `head` and
  `tail` modulo the new `num_page`, but moves no pages (`ivshmem_trusted.c:81`).
  A rebalancing that meets pages under way makes the receiver read a page that
  is not the next one, and the reader prints "Data mismatch"
  (`reader/main.c:122`).
- `AnySenderIsHeard` (Programs): "accept any sender PID" (`reader/main.c:83`).
  The lookup takes the first match in the table, so the pages of a second writer
  of the same VM are never taken.
- `DeadChannelsGo` (Programs): "Kill channels that have been inactive for too
  long" (`ivshmem_trusted.h:30`).  Nothing removes a channel.
- `ChunksInStep` (LockChannel) with two receivers of different VMs: the one that
  starts late overwrites `receiver_vm` of a waiting chunk and takes it
  (`reader/lock_base_main.c:85`).
- `MutualExclusion` (LockChannel) with two senders: both find `mutex` free and
  both set it (`ivshmem_lock_base.c:73-77`), although the header calls it a
  "Process-shared mutex" (`ivshmem_lock_base.h:27`).
- `ContextSet` (MmapHook): `g_ctx` is assigned after the hook is live
  (`ivshmem_uio_hook.c:165`), and the hook's targets dereference it.
- `SuccessIsMapped` (MmapHook): `__ivshmem_origin_mmap` drops the result of the
  device's `mmap` and returns 0 (`ivshmem_uio_hook.c:330`).
- `NoWildMapping` (MmapHook): the device node exists before `device_buffer` is
  allocated (`myshm.c:126` and `:135`), and `myshm_mmap` computes pages from it.

Two limits of the positive results follow from the code itself.  `secure_quiet`
holds only for channels that were idle when they were moved, and the order of
the pages only while all of them were (`Quiet`: a sender that was met on one
channel may go on to write into another one); nothing in the code waits for
that, which is what `secure_isolation` shows and `InOrder` states.  And the hook
is exact only for calls that do not overlap: a call that meets another one's
`is_locked` passes unchecked, as `ivshmem_uio_hook.c:253` is written.

The type invariants of PageRing, SecureIvshmem, LockChannel, Handshakes, MmapHook
and Programs hold on the instances of their runs too; the runs list a type
invariant where it states a limit of the code, the length of the table
(`ControlTypeOK`) and of a peer's vectors (`DoorbellTypeOK`).

### Bounds, and why they are enough

- Control runs keep the real section, page and first-buffer sizes.
  `IVSHMEM_MAX_CHANNELS` is 3 (1 in `control_liveness`, to have a full table)
  instead of 32: creation, first rebalancing, a channel created
  between two rebalancings and a full table all occur, and the proofs cover the
  rest; `MCChannelControl` also evaluates the shares of all 32 table lengths.
  Two writers suffice for a lost, a mixed and a repeated request.
- `MaxStarts` and `MaxMallocFails` cap failures at the first that matters: one
  restart separates pointers from before and after, one failed malloc leaves
  the section locked.
- Ring runs use pages of 4 bytes and messages longer than the ring, so that
  every ring position meets every part of a message; `Counters` makes a message
  and its two successors distinguishable, which is more than the ring holds.
  `SIZE_T` is above every size used, so a size wraps only where the code's does;
  `data_size` drifts and wraps, in the model sooner than in the code.
- SecureIvshmem runs use one-byte pages and a data section in which shares
  change from two pages to six to three: growth, shrinking below an index and
  the handing over of a page to another channel all happen.  Pages carry a
  sequence number modulo `MaxSeq`, enough to tell a page from the ones next to
  it.  `secure_quiet` stops where a channel has been met in use: with one pair
  exchanging messages its two properties say nothing from there on.
- `Programs`: two slots, messages of two pages in channels of one, so that every
  message blocks its writer half-way; two messages of the first writer and one
  of the second, or one AES message of the first (`MaxMessages`); a reader that
  is started again and again, and of a channel that was moved in use receives
  one message (`MaxGarbled`). That is restarts inside and between messages, one
  dead channel in front of a live one, one refused call and a rebalancing of the
  first channel when the second one is made. The AES sizes keep what matters:
  both sides' message sizes are the same and the IV and the tag have different
  lengths.
- `baselines`: three chunks a message, two kills, each at another place;
  regions of three pieces, so that a copy can be torn at either end, and three
  rounds.
- `MmapHook`: `MCRequests` has a request for each guard, one they accept and one
  of an unchecked name. Two pages of data are refused by the limit alone; a
  request the control section's guard refuses is always longer than the limit as
  well, with the limit of a page that the run has. Two calls per thread let a
  first call's leftovers meet a second one; three loads are the device, the hook
  and one of them again; one failure of either load or of `remap_pfn_range`.
- Runs that may stop: `MmapHook`, whose threads have `MaxCalls` calls;
  `SecureCrash`, whose clients can be killed; `IvshmemClient`, when joins,
  starts and connections are used up; `Programs`, after `MaxMessages`; and
  `Baselines`, as `latency_test` ends.  All other runs check deadlock.
- `IvshmemClient`: records of two vectors and servers with two or three; two
  joins let the one other peer come back under its id, two connections let a
  descriptor lost by the first be seen in the second.  `CatchesUp` exempts a
  client that has used up `MaxConnects`.

### Fairness

- A running process goes on (WF on the host's work, on a writer's stores, on
  each side of a ring and of the lock, on a thread inside `mmap`).
- Host timers: an expired timerfd stays readable until it is read and epoll
  reports every ready descriptor, so neither handler is passed over for ever:
  SF on `RebalanceLock` and `ControlLock`.
- A waiting writer polls every 10 ms; whoever could raise the flag again has to
  prepare a 256 MB message first: SF on `PollDone`.
- A writer or reader tests `control_mutex` and its ring in a tight loop, and the
  host holds the mutex for microseconds every second: SF on a program's
  steps in `Programs`.  Nothing is assumed of starts and kills.
- A lock-based program that was killed is started again (WF on its steps, the
  start included); each side of an experiment goes on.
- A host that died is started again (WF on `TrustedStart`): the operator's job,
  and without it no wait could end.
- The doorbell client is a process of its own and `select()` is level-triggered:
  WF on its steps, nothing on the server's.
- The kernel's spin lock serves waiters in turn: SF on the steps that take it.

### Assumptions of the models

- Stores become visible in program order and aligned words are not torn: x86,
  and the compiler keeps the order of the accesses.
- `TrustedStart` (memset and two stores while no host runs) is one step; so is
  the lookup, one table entry in `RebalanceMove`, and full/empty test plus
  address in `StartCopy`.  What a client sees in the middle of a moved entry
  concerns only channels counted as disturbed.
- The lock-based key's three stores are one step; the copy of a chunk by the
  sender is two, so that it can be killed inside it.
- Programs puts its channels on the abstract table and the abstract queue.  Of a
  ring that a rebalancing met in use it says only that calls on it return
  anything, at any time; what exactly happens to it, and a host that restarts,
  are SecureIvshmem's.  The plain reader's lookup before its loop is the one of its
  first call.  Of a message's bytes past its first page all that is kept is
  whether eight of them could be read as a counter.
- A tag belongs to exactly one IV and ciphertext; OpenSSL's calls do not fail.
- An open file holds the device module (`fops.owner`), and a process whose
  module's code is gone dies when it next runs in it.  What the exit function
  does with fields that were never set (`ivshmem_uio_hook.c:142`) is either the
  death of the loading process or nothing.
- `head_touch` and `last_sent_at` are written and never read: left out.
- The doorbell client's calls are not interrupted (it installs no handler), the
  server's messages are well formed and arrive whole, and the process stays
  below its limit of open descriptors.
- Names under `external` in `map` stand for the ivshmem server and the peers the
  doorbell client talks to, and for processes being killed.

## 4. What is proved

For every value of the constants that satisfies the named assumptions, with no
bound on clients, threads, peers, host starts, ring, page and message sizes:

| theorem | says |
|---|---|
| `ControlTypeCorrect` | types of the control plane; the table never overflows |
| `ControlInvariant` | `ControlInv` is an invariant |
| `ControlBuffersDisjoint` | buffers disjoint and inside the data section |
| `ControlPointersMatch` | pointers stay good until the host starts again |
| `ControlTableGrows` | no active entry disappears or changes owner |
| `ControlSkipOnlyWhenBalanced` | the first channel's size decides correctly |
| `ControlBalancedWithReserve` | equal shares of at least two pages, reserve kept |
| `ControlImplementsTable` | the control plane implements `ChannelTable` |
| `RingNoPageRace` | the two copies never meet on a page |
| `RingImplementsFifo` | the ring implements `PageFifo` with `num_page - 1` places |
| `RingMessageIntact` | messages of two pages or more arrive whole, unmixed, in order |
| `SecureImplementsControl` | with rings and copies running, the control plane is still ChannelControl: its theorems hold of the whole |
| `SecureTypeCorrect` | types; every copy, through however stale an address, is to or from a page of the data section |
| `SecureFaultOnlyAfterRestart` | a division by zero needs a pointer from before a restart |
| `SecureCopiesStayInside` | on a channel no rebalancing met in use, copies are inside its buffer |
| `SecureRebalancingTransparent` | while every rebalancing meets idle channels, no page is lost, repeated or reordered |
| `LockMutualExclusion` | one sender and one receiver exclude each other |
| `LockChunksInStep` | a received chunk is whole and the one that was due |
| `LockImplementsFifo` | the section implements a queue of one chunk |
| `HandshakeInvariant` | `HandshakeInv` is an invariant |
| `NoFalseAlarm` | no alarm of the no-lock reader unless the region was half written when it looked or written before the end of its copy |
| `HandshakesImplementFifo` | sequence number and echo, and the semaphores, make a queue of one |
| `ProgramsInvariant` | `ProgramsInv` is an invariant |
| `ProgramsTypeCorrect` | types; no channel holds more than its pages |
| `ProgramsWholeMessages` | on a channel not moved in use, a receive returns one message or, behind a reader killed inside one, consecutive pages of one writer |
| `ProgramsMismatchExplained` | a reported mismatch has one of three causes: an earlier reader of the channel, a refused call of its writer, a rebalancing that met it in use |
| `ProgramsVerdictStays` | on a channel neither torn nor moved in use, a reader keeps to its first verdict |
| `HookInvariant` | `HookInv` is an invariant |
| `HookLockedByACall` | when `is_locked` is set, a live call is inside to reset it, or one died inside the hook of this context |
| `HookGuardsLoneCalls`, `HookNoRehook` | a call that overlaps nothing is checked and enters the hook once |
| `HookMemoryOutlivesMappings` | no mapping of freed memory |
| `ClientInvariant` | `ClientInv` is an invariant |
| `ClientTypeCorrect` | types; no peer's record outgrows its array |
| `ClientHeldAreOpen` | no descriptor is closed twice or used after it was closed |
| `ClientOneLostPerConnection` | a connection loses at most the one descriptor it refused |
| `ClientViewFollowsServer` | what the client knows, together with what is unread, is what the server knows |

Every invariant and every action property the passing runs check is among them
except `RecursionBounded`, which is about two callers; and so are their four
refinements (of `ChannelTable` once, of `PageFifo` three times).

### Assumptions

Of the constants, each evaluated by TLC on every run of its module:

- `SizesAssumption`: a first buffer is a whole number of pages, at least two,
  and a full table leaves each channel two.  `SharesAssumption`: no two table
  lengths get the same share and no share is the size of a first buffer, true of
  4 MB, 4 KB pages and 32 channels.  `ClientsAssumption`.
- `RingAssumption`: at least two pages.  `LockAssumption`,
  `HandshakesAssumption`, `HookAssumption`.
- `ProgramsAssumption` and `ProcessesAssumption`: no writer's key is another
  writer's, and none has process id 0, which the programs get from `getpid()`.
- `ClientAssumption`: among others, the peers are finitely many.

Three groups of theorems have hypotheses of their own, and each names a limit of
the code:

- `RingMessageIntact` assumes `2 * PAGE <= SIZE` and `SIZE < SIZE_T`.  Between
  one page and two the statement is false (section 3), at one page no byte is
  ever counted as sent, and below it `size - IVSHMEM_PAGE_SIZE` wraps.
- `SecureRebalancingTransparent` assumes `OneOfEach`, and the theorems of
  Programs `OneReader`: no two readers accept the same key (and, for the first,
  no two writers present it).  A ring has one head and one tail, and nothing
  but the keys keeps a second process from using them.
- The theorems of LockChannel, types apart, are about one sender and one
  receiver, because they fail for more (section 3).

### Arguments

*Control plane.*  `BuffersDisjoint` alone is not inductive: it says nothing
while a rebalancing is under way, and a creation must know that the space
behind the last buffer is free.  `ControlInv` adds `LaidOut` for the settled
table, `MoveUnderWay` for the loop (the first `cnt` channels are laid out with
their share, and what the others need still fits in front of the reserve, and
the copy in `p_chan_tmp` has the owners of the table), and `SharesSettled`: some
prefix of the table has the share of that many channels, the rest the first
buffer.  The last part, with `SharesAssumption`, is why comparing `channels[0]`
is enough: if its size is the share of all channels, the prefix must be the
whole table.

*Control plane implements the table.*  The abstract table keeps one `Stray` for
all keys nobody asked for.  Two facts carry the refinement: lookups cannot tell
the difference (`LookupSame`), and whatever a race leaves in the mailbox or in
the host's copy is the sender's half of one stored key and the receiver's half
of another (`MailboxInv`).  A rebalancing keeps the owners
(`KeepsOwnersStep`, which also gives `ControlTableGrows`), so its steps are
stutters but for the mutex.

*Ring.*  `RingInv` adds to the types that a sender past its test has a free
page and a receiver past its test has a full one; the other side can only make
that truer.  The refinement maps the ring to the sequence of pages from `tail`
to `head`, less the one already copied out (`InRing`).  For messages,
`StreamInv` says that each full page is followed by the one that belongs behind
it, from the page the receiver is due up to the one the sender is at; at the end
of a message the sender counts a whole page and the receiver takes the rest,
and both get to the same next place (`PlaceFacts`).

*Rings under rebalancing.*  `SectionInv` joins `ControlInv` to the geometry of
the rings: a live channel's `num_page` is what its buffer holds, its indices are
inside, and a pointer from the present host start is to such a channel.
Addresses computed earlier are only known to be pages of the section, and that
is all `SecureTypeCorrect` claims of them.  `FreezeInv` follows a rebalancing:
once it has `control_mutex` and begins to move, channels it did not meet in use
are empty and nobody is past the test on them, and that stays so until it ends,
or until a new host starts if this one dies half-way.  `QuietInv` and `FlowInv`
are then what `RingInv` and `StreamInv` are for a ring at rest, with the numbers
of pages in place of bytes.

*Lock.*  `TurnInv` says who may be past the first test for each value of
`ref_count`: with one process per side the turn, not the mutex, excludes.  It
holds although processes are killed inside the locked part: `mutex` then stays
up, and nobody gets past it.  `ChunkInv` adds that a chunk handed over has been
copied to its end and, while nobody was killed, which chunk each side is at.  A
receiver killed between copy and count would break the step; it leaves `mutex`
up, so no chunk is received after it.

*Experiments.*  `HandshakeInv` is whose turn it is, in terms of sequence number
and echo or of the two semaphores, and for the no-lock pair that a region nobody
has changed since the reader looked is of the one round the reader saw.

*Programs.*  All is said of channels that no rebalancing met in use.  The pages a
reader has in its buffer, followed by those in the channel, are one run of
consecutive pages that ends before the one its writer puts next (`StreamInv`);
it begins at the first page of a message unless the channel is torn
(`AlignedAt`).  Writers that have sent nothing have nothing under way
(`FreshInv`), although their key may long be in the table.  The counts follow:
the number a reader is due (`Due`) is the one it expects as long as no earlier
reader was served there and no call of the channel's writer was refused
(`CountInv`), and a reader that has found it right or wrong will find it so
again (`VerdictInv`).  A rebalancing empties no channel but those it counts as
met, so for the others its step changes nothing.

*Hook.*  `HookInv` says how often a thread may still return through the
hook (`FramesInv`), that `is_locked` is some live or lost call's, and of a call
that has the hook for itself (`Alone`) that both modules are loaded, nobody else
is past the test, and past the guards its request is an accepted one.

*Doorbell client.*  `ClientInv` ties the records, the open descriptors and the
messages under way together: how much of the greeting is still unread at each
place of the handshake (`QueueInv`), no descriptor in two places
(`VectorsInv`), at most one lost per connection (`OpenInv`).  For the view,
`ViewInv` says that handling all unread messages would give the server's view.
A greeting is a `FlattenSeq` over the peers, and handling it a fold: what they
compute is proved by induction over sets of numbers, from the library's
well-foundedness of `<` (`LeastNumber`, `Induction`), which needs no operator as
a parameter.

*Only model-checked.*  Liveness, on the instances of the runs: `RequestReturns`,
`SectionUnlocked`, `MessagesFlow`, `LockProgramsFlow`, `RoundsFlow`, `CatchesUp`,
`RingsHandled`, `CallsReturn`, `MessagesGetThrough`.  They need fairness and
`ENABLED`, which the provers do not handle.  `RecursionBounded` sums over the
calls of all threads; it is checked for two callers.  The three violations are
counterexamples, which is TLC's part.

## 5. Not modelled

- `IVSHMEM_TYPE 1` (chunk mode): compiled out; its receive path does not match
  the struct that is built, so there is no behaviour to be faithful to.
- `ivshmem_find_or_create_channel`: no caller.
- `ivshmem_close_dev`: it stands behind loops that do not end, or directly before
  an exit that does the same.  The branches of `ivshmem_open_dev` for QEMU are
  compiled out.
- uio test program and shell scripts: straight-line I/O.
- OpenSSL itself; argument parsing, printing, timing.
- The kernel's limit of open descriptors in the doorbell client.

## 6. Plan

Done, in this order: control plane and its proofs; page ring, its abstract
queue and the refinement proof; both composed; lock-based transport; mmap hook;
doorbell client; loading and failing of both kernel modules; kills in the
lock-based transport; the experiments; the abstract table and the programs on
it, AES included; proofs of every safety property and every refinement of the
passing runs.

Next:

1. IvshmemClient: the limit of open descriptors, at which a new vector reads as
   a deletion; several peers.
2. Programs on a host that restarts.
3. Programs puts its channels on the abstract queue because `RingIsFifo` is
   proved of one ring; a module that runs Programs' writers and readers on
   SecureIvshmem's rings would make that step a refinement as well.
