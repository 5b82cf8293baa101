------------------------------ MODULE Programs ------------------------------
(***************************************************************************)
(* The writer and reader programs, plain and AES, as an operator runs      *)
(* them: writers that end and others that start, a reader that accepts     *)
(* any sender process and may be started again.  The control plane is      *)
(* that of ChannelTable; a channel is the queue of pages PageRing          *)
(* implements until a rebalancing meets it in use; from then on its calls  *)
(* return anything, at any time.                                           *)
(***************************************************************************)
EXTENDS ChannelTable

CONSTANTS
  Parts,         \* pages of a message
  Capacity,      \* pages a channel holds
  MESSAGE_SIZE, DECRYPT_MSG_SIZE, IV_LEN, TAG_LEN,
  MaxMessages,   \* bound: messages each writer process sends, by whether it
                 \* is an AES writer
  MaxGarbled     \* bound: messages after which a reader receives no more
                 \* from a channel that was moved in use

ASSUME ProgramsAssumption ==
  /\ {Parts, Capacity, MESSAGE_SIZE, DECRYPT_MSG_SIZE, IV_LEN, TAG_LEN}
       \subseteq Nat \ {0}
  /\ MaxMessages \in [BOOLEAN -> [Writers -> Nat]]
  /\ MaxGarbled \in Nat
  /\ DECRYPT_MSG_SIZE > IV_LEN + TAG_LEN

(* The key of a writer holds its pid, which is no other process's and      *)
(* never 0.                                                                *)
ASSUME ProcessesAssumption ==
  /\ ClientKey \in [Clients -> Key]
  /\ Writers \cap Readers = {}
  /\ \A v, w \in Writers :
       /\ ClientKey[w].sender_pid # 0
       /\ ClientKey[v] = ClientKey[w] => v = w

VARIABLES
  aes,               \* whether the AES programs are the ones that run
  up,                \* the processes that run
  started,           \* the writers that were started
  counter, sent,     \* a writer's counter, pages of its message it has put
  expected_counter, recv_buf,
  verdict,           \* what a reader said of the last message of its run
  queue,             \* the pages in each channel
  balanced,          \* whether no channel was made since the last rebalancing
  \* history: writers with a message they counted and did not send; channels
  \* from which a reader that ended took a page, and those of which it took
  \* a part of a message; channels that were moved while they were in use
  refused, served, torn, met

processes == <<aes, up, started>>
writers == <<counter, sent, refused>>
readers == <<expected_counter, recv_buf, verdict, served, torn>>
moves == <<balanced, met>>
program_vars == <<processes, writers, readers, queue, moves>>
all_vars == <<table_vars, program_vars>>

\* A page of a message; part 0 begins with the counter.
Page == [from : Writers, msg : Nat, part : 0 .. Parts - 1]

ProgramsInit ==
  /\ TableInit
  /\ aes \in BOOLEAN
  /\ up = {}
  /\ started = {}
  /\ counter = [w \in Writers |-> 0]
  /\ sent = [w \in Writers |-> 0]
  /\ expected_counter = [r \in Readers |-> 0]
  /\ recv_buf = [r \in Readers |-> <<>>]
  /\ verdict = [r \in Readers |-> "none"]
  /\ queue = [i \in Slots |-> <<>>]
  /\ balanced = TRUE
  /\ refused = {}
  /\ served = {}
  /\ torn = {}
  /\ met = {}

-----------------------------------------------------------------------------
(* Processes start and end.                                                *)

(* ivshmem_open_dev found the device and mapped it; otherwise the program  *)
(* exits and nothing has changed.  A writer is started once: the next one  *)
(* has a pid, and so a key, of its own.                                    *)
Start(c) ==
  /\ c \notin up
  /\ c \notin started
  /\ up' = up \cup {c}
  /\ started' = started \cup ({c} \cap Writers)
  /\ verdict' = [r \in Readers |-> IF r = c THEN "none" ELSE verdict[r]]
  /\ UNCHANGED <<table_vars, aes, writers, expected_counter, recv_buf, served,
                 torn, queue, moves>>

\* In this run the reader has taken a page.
HasTaken(r) == expected_counter[r] > 0 \/ recv_buf[r] # <<>>

\* The process is gone with its locals; what it stored stays.
Leaves(c) ==
  /\ up' = up \ {c}
  /\ c_pc' = [c_pc EXCEPT ![c] = "idle"]
  /\ c_chan' = [c_chan EXCEPT ![c] = NULL]
  /\ counter' = [w \in Writers |-> IF w = c THEN 0 ELSE counter[w]]
  /\ sent' = [w \in Writers |-> IF w = c THEN 0 ELSE sent[w]]
  /\ expected_counter' = [r \in Readers |->
                            IF r = c THEN 0 ELSE expected_counter[r]]
  /\ recv_buf' = [r \in Readers |-> IF r = c THEN <<>> ELSE recv_buf[r]]
  /\ served' = IF c \in Readers /\ HasTaken(c) THEN served \cup {Lookup(c)}
                                              ELSE served
  /\ UNCHANGED <<owners, control_mutex, has_channel_candidate, t_pc, aes,
                 started, queue, refused, moves>>

\* Neither program ends by itself: it is killed, wherever it is.
Kill(c) ==
  /\ c \in up
  /\ Leaves(c)
  /\ torn' = IF c \in Readers /\ recv_buf[c] # <<>>
               THEN torn \cup {c_chan[c]} ELSE torn
  /\ verdict' = [r \in Readers |-> IF r = c THEN "none" ELSE verdict[r]]

-----------------------------------------------------------------------------
(* The writer's loop.                                                      *)

\* The buffer is filled and ivshmem_send_buffer called.
BeginSend(w) ==
  /\ w \in up
  /\ counter[w] < MaxMessages[aes][w]
  /\ RequestChannel(w)
  /\ UNCHANGED program_vars

AwaitChannel(w) ==
  /\ RaiseFlag(w) \/ PollDone(w)
  /\ UNCHANGED program_vars

ThePage(w) == [from |-> w, msg |-> counter[w], part |-> sent[w]]

\* mutant: a page that finds no room is dropped
PutPageOrDrop(w) ==
  /\ c_pc[w] = "have"
  /\ control_mutex = 0
  /\ c_chan[w] \notin met
  /\ sent[w] < Parts
  /\ queue' = IF Len(queue[c_chan[w]]) < Capacity
                THEN [queue EXCEPT ![c_chan[w]] = Append(@, ThePage(w))]
                ELSE queue
  /\ sent' = [sent EXCEPT ![w] = @ + 1]
  /\ UNCHANGED <<table_vars, processes, counter, refused, readers, moves>>

PutPage(w) ==
  /\ c_pc[w] = "have"
  /\ control_mutex = 0
  /\ c_chan[w] \notin met
  /\ sent[w] < Parts
  /\ Len(queue[c_chan[w]]) < Capacity
  /\ queue' = [queue EXCEPT ![c_chan[w]] = Append(@, ThePage(w))]
  /\ sent' = [sent EXCEPT ![w] = @ + 1]
  /\ UNCHANGED <<table_vars, processes, counter, refused, readers, moves>>

SendReturns(w) ==
  /\ c_pc[w] = "have"
  /\ control_mutex = 0
  /\ sent[w] = Parts \/ c_chan[w] \in met
  /\ Return(w)
  /\ counter' = [counter EXCEPT ![w] = @ + 1]
  /\ sent' = [sent EXCEPT ![w] = 0]
  /\ UNCHANGED <<processes, refused, readers, queue, moves>>

\* The call failed: a line is printed, and the message counts as sent.
SendFails(w) ==
  /\ c_pc[w] = "failed"
  /\ Return(w)
  /\ counter' = [counter EXCEPT ![w] = @ + 1]
  /\ refused' = refused \cup {w}
  /\ UNCHANGED <<processes, sent, readers, queue, moves>>

-----------------------------------------------------------------------------
(* The reader's loop.                                                      *)

(* The lookup at the start of main and that of every ivshmem_recv_buffer.  *)
BeginRecv(r) ==
  /\ r \in up
  /\ FindForReceive(r)
  /\ UNCHANGED program_vars

\* No channel: "Channel not found", exit.
RecvFails(r) ==
  /\ c_pc[r] = "failed"
  /\ Leaves(r)
  /\ UNCHANGED <<verdict, torn>>

\* mutant: the last page counts as none
TakePageButLast(r) ==
  /\ c_pc[r] = "have"
  /\ control_mutex = 0
  /\ c_chan[r] \notin met
  /\ Len(recv_buf[r]) < Parts
  /\ Len(queue[c_chan[r]]) > 1
  /\ recv_buf' = [recv_buf EXCEPT ![r] = Append(@, Head(queue[c_chan[r]]))]
  /\ queue' = [queue EXCEPT ![c_chan[r]] = Tail(@)]
  /\ UNCHANGED <<table_vars, processes, writers, expected_counter, verdict,
                 served, torn, moves>>

TakePage(r) ==
  /\ c_pc[r] = "have"
  /\ control_mutex = 0
  /\ c_chan[r] \notin met
  /\ Len(recv_buf[r]) < Parts
  /\ queue[c_chan[r]] # <<>>
  /\ recv_buf' = [recv_buf EXCEPT ![r] = Append(@, Head(queue[c_chan[r]]))]
  /\ queue' = [queue EXCEPT ![c_chan[r]] = Tail(@)]
  /\ UNCHANGED <<table_vars, processes, writers, expected_counter, verdict,
                 served, torn, moves>>

(* The first eight bytes as a number: the counter or, past the first page, *)
(* eight of the bytes the message is filled with, which are 0 in message 0 *)
(* and no counter of this model in the others.                             *)
received_counter(r) ==
  LET first == recv_buf[r][1]
  IN  IF first.part = 0 THEN first.msg ELSE IF first.msg = 0 THEN 0 ELSE -1

\* The buffer holds the pages of one message.
Whole(buf) ==
  \A k \in DOMAIN buf : buf[k] = [buf[1] EXCEPT !.part = k - 1]

(* IV, ciphertext and tag, byte by byte: as the writer packs them, and     *)
(* what the reader cuts out of them.                                       *)
Bytes(what, n) == [i \in 1 .. n |-> <<what, i>>]

send_buf == Bytes("iv", IV_LEN) \o Bytes("ct", MESSAGE_SIZE)
              \o Bytes("tag", TAG_LEN)

ct_len == DECRYPT_MSG_SIZE - IV_LEN - TAG_LEN

(* The tag is that of exactly the ciphertext that was encrypted.           *)
aes_gcm_decrypt(iv, ct, tag) ==
  /\ iv = Bytes("iv", IV_LEN)
  /\ ct = Bytes("ct", MESSAGE_SIZE)
  /\ tag = Bytes("tag", TAG_LEN)

Decrypts(buf) ==
  /\ Whole(buf)
  /\ aes_gcm_decrypt(SubSeq(send_buf, 1, IV_LEN),
                     SubSeq(send_buf, IV_LEN + 1, IV_LEN + ct_len),
                     SubSeq(send_buf, IV_LEN + ct_len + 1,
                                      IV_LEN + ct_len + TAG_LEN))

\* The call has its bytes: all the pages, or whatever a moved channel holds.
HasBuffer(r) ==
  \/ c_chan[r] \notin met /\ Len(recv_buf[r]) = Parts
  \/ c_chan[r] \in met /\ expected_counter[r] < MaxGarbled

\* What the comparison with the expected counter may say.
Judgements(r) ==
  IF c_chan[r] \in met THEN {"match", "mismatch"}
  ELSE {IF received_counter(r) = expected_counter[r] THEN "match"
                                                     ELSE "mismatch"}

\* The call returned, the counter is compared and the next one expected.
RecvReturns(r) ==
  /\ c_pc[r] = "have"
  /\ control_mutex = 0
  /\ HasBuffer(r)
  /\ aes => Decrypts(recv_buf[r]) \/ c_chan[r] \in met
  /\ Return(r)
  /\ \E v \in Judgements(r) : verdict' = [verdict EXCEPT ![r] = v]
  /\ expected_counter' = [expected_counter EXCEPT ![r] = @ + 1]
  /\ recv_buf' = [recv_buf EXCEPT ![r] = <<>>]
  /\ UNCHANGED <<processes, writers, served, torn, queue, moves>>

\* "Decryption failed: tag mismatch", exit.
DecryptFails(r) ==
  /\ c_pc[r] = "have"
  /\ control_mutex = 0
  /\ HasBuffer(r)
  /\ aes
  /\ ~Decrypts(recv_buf[r]) \/ c_chan[r] \in met
  /\ Leaves(r)
  /\ verdict' = [verdict EXCEPT ![r] =
                   IF Whole(recv_buf[r]) /\ c_chan[r] \notin met THEN "tag"
                                                                ELSE "torn"]
  /\ UNCHANGED torn

-----------------------------------------------------------------------------
Sending(w) == BeginSend(w) \/ AwaitChannel(w) \/ PutPage(w)
                \/ SendReturns(w) \/ SendFails(w)
Receiving(r) == BeginRecv(r) \/ RecvFails(r) \/ TakePage(r)
                  \/ RecvReturns(r) \/ DecryptFails(r)

-----------------------------------------------------------------------------
(* The host of a table that stays up.                                      *)

\* A channel is made for a key some writer that was started has stored.
HostWorks == HostWork(started)

\* Channels whose client is in its loop, and may be past its mutex test.
Polled == {c_chan[c] : c \in {d \in Clients : c_pc[d] = "have"}}

(* A table that has grown gets new shares.  Every buffer is then moved     *)
(* without its pages, and head and tail are taken modulo the new num_page: *)
(* that is nothing to a channel that is empty, unless one of its clients   *)
(* is past its mutex test.                                                 *)
MoveBuffers ==
  \E past \in SUBSET Polled :
    /\ met' = met \cup past \cup {i \in Slots : queue[i] # <<>>}
    /\ queue' = [i \in Slots |-> IF i \in met' THEN <<>> ELSE queue[i]]

RebalanceEnds ==
  /\ RebalanceEnd
  /\ IF balanced THEN UNCHANGED <<queue, met>> ELSE MoveBuffers
  /\ balanced' = TRUE
  /\ UNCHANGED <<processes, writers, readers>>

ChannelCreated ==
  /\ ControlCreate(started)
  /\ balanced' = (balanced /\ owners' = owners)
  /\ UNCHANGED <<processes, writers, readers, queue, met>>

Hosting ==
  \/ RebalanceEnds \/ ChannelCreated
  \/ /\ \/ TrustedStart \/ RebalanceBegin
        \/ ControlLock \/ ControlClear \/ ControlUnlock
     /\ UNCHANGED program_vars

ProgramsNext ==
  \/ Hosting
  \/ \E c \in Clients : Start(c) \/ Kill(c)
  \/ \E w \in Writers : Sending(w)
  \/ \E r \in Readers : Receiving(r)

ProgramsSpec == ProgramsInit /\ [][ProgramsNext]_all_vars

(* The host as in ChannelControl.  A program polls control_mutex and its   *)
(* ring in a tight loop, while the host holds the mutex for microseconds   *)
(* every second: strong fairness.                                          *)
ProgramsFairSpec ==
  /\ ProgramsSpec
  /\ WF_table_vars(HostWorks) /\ SF_table_vars(ControlLock)
  /\ \A w \in Writers : SF_all_vars(Sending(w))
  /\ \A r \in Readers : SF_all_vars(Receiving(r))

-----------------------------------------------------------------------------
(* Types; no channel holds more than its pages.                            *)
ProgramsTypeOK ==
  /\ aes \in BOOLEAN
  /\ up \subseteq Clients
  /\ started \subseteq Writers
  /\ counter \in [Writers -> Nat]
  /\ sent \in [Writers -> 0 .. Parts]
  /\ expected_counter \in [Readers -> Nat]
  /\ \A r \in Readers : recv_buf[r] \in Seq(Page)
  /\ verdict \in [Readers -> {"none", "match", "mismatch", "tag", "torn"}]
  /\ \A i \in Slots : queue[i] \in Seq(Page) /\ Len(queue[i]) <= Capacity
  /\ balanced \in BOOLEAN
  /\ refused \subseteq Writers
  /\ served \subseteq Slots /\ torn \subseteq Slots /\ met \subseteq Slots

\* Page q is the one after page p.
Follows(p, q) ==
  /\ q.from = p.from
  /\ \/ q.part = p.part + 1 /\ q.msg = p.msg
     \/ q.part = 0 /\ p.part = Parts - 1 /\ q.msg = p.msg + 1

(* What a reader receives in one call are the pages of one message of one  *)
(* writer, whoever else writes and whatever was written before; behind a   *)
(* reader that was killed inside a message they are still pages of one     *)
(* writer, none of them lost, doubled or out of order.  All that only in a *)
(* channel that no rebalancing moved in use.                               *)
WholeMessages ==
  \A r \in Readers : c_chan[r] \notin met =>
    /\ \A k \in 1 .. Len(recv_buf[r]) - 1 :
         Follows(recv_buf[r][k], recv_buf[r][k + 1])
    /\ c_chan[r] \notin torn => Whole(recv_buf[r])

(* The reader prints "Data mismatch" only for one of three reasons: an     *)
(* earlier reader took pages from its channel, the writer of its channel   *)
(* counted a message that it could not send, or a rebalancing moved its    *)
(* channel while it was in use.                                            *)
MismatchExplained ==
  \A r \in Readers : verdict[r] = "mismatch" =>
    \/ Lookup(r) \in served \cup met
    \/ \E w \in refused : Lookup(w) = Lookup(r)

(* A reader says of every message what it said of the first: it never      *)
(* changes over to another writer, and neither gains nor loses count,      *)
(* unless its channel was torn or moved in use.                            *)
VerdictStays ==
  [][\A r \in Readers :
       verdict[r] \in {"match", "mismatch"} /\ Lookup(r) \notin torn \cup met
         => verdict'[r] \in {verdict[r], "none"}]_all_vars

(* A running writer and a running reader that have the same channel bring  *)
(* all messages across, unless it is moved in use.                         *)
Paired(w, r) == /\ {w, r} \subseteq up
                /\ Lookup(w) # NULL
                /\ Lookup(w) = Lookup(r)
MessagesGetThrough ==
  \A w \in Writers, r \in Readers :
    Paired(w, r) ~>
      \/ ~Paired(w, r)
      \/ Lookup(w) \in met
      \/ counter[w] = MaxMessages[aes][w] /\ queue[Lookup(w)] = <<>>

(* aes_main.c packs and receives "IV||ciphertext||tag": a message nobody   *)
(* touched decrypts.                                                       *)
UntouchedDecrypts == \A r \in Readers : verdict[r] # "tag"

(* reader/main.c: "accept any sender PID".  A message that is waiting is   *)
(* received when there is a reader, whoever sent it.                       *)
AnySenderIsHeard ==
  \A w \in Writers, r \in Readers :
    /\ {w, r} \subseteq up
    /\ Lookup(w) # NULL
    ~> \/ ~({w, r} \subseteq up)
       \/ Lookup(w) # NULL /\ queue[Lookup(w)] = <<>>

(* ivshmem_trusted.h: "Kill channels that have been inactive for too       *)
(* long".  The channel of a writer that has ended goes away.               *)
DeadChannelsGo ==
  \A w \in Writers :
    w \in started \ up ~> Lookup(w) = NULL
=============================================================================
