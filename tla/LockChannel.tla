---------------------------- MODULE LockChannel -----------------------------
(***************************************************************************)
(* The lock-based transport (ivshmem_lock_base): one control section with  *)
(* a flag called mutex, a ref_count that says whether a chunk is waiting,  *)
(* and one data section.  Both sides test ref_count, then mutex, then set  *)
(* mutex with a store of its own: three steps that others come between.    *)
(* A process may be killed at any of them and is started again.            *)
(***************************************************************************)
EXTENDS Integers, FiniteSets

CONSTANTS
  Senders, Receivers,
  SenderOf,   \* the sender whose key a receiver waits for
  Vm,         \* the VM a sender sends to, the VM a receiver is
  Chunks,     \* chunks of DATA_SECTION_SIZE bytes a message has
  Counters,   \* bound: the message counter wraps here
  Nobody,     \* sender and VM in the key of a section nobody has used
  MaxDeaths   \* bound: processes killed, each at a different place

ASSUME LockAssumption ==
  /\ Senders \cap Receivers = {}
  /\ SenderOf \in [Receivers -> Senders]
  /\ Chunks \in Nat \ {0}
  /\ Counters \in Nat \ {0}
  /\ Nobody \notin Senders
  /\ MaxDeaths \in Nat

Procs == Senders \cup Receivers
Vms == {Vm[p] : p \in Procs} \cup {Nobody}

VARIABLES
  mutex, ref_count, key,   \* IvshmemLockControlSection
  data,                    \* the data section
  pc,                      \* where each process is in its loop
  msg,                     \* the message each process sends or waits for
  done,                    \* chunks of it moved
  got,                     \* what each receiver copied last
  died                     \* history: who was killed and where

section == <<mutex, ref_count, key, data>>
work == <<msg, done, got, died>>
lock_vars == <<section, pc, work>>

Chunk == [from : Senders \cup {Nobody}, msg : 0 .. Counters - 1,
          part : 0 .. Chunks - 1]
\* Nothing, or a chunk that is not whole.
NoChunk == [from |-> Nobody, msg |-> 0, part |-> 0]

\* ivshmem_lock_init_control_section
LockInit ==
  /\ mutex = FALSE
  /\ ref_count = 0
  /\ key = [from |-> Nobody, to |-> Nobody]
  /\ data = NoChunk
  /\ pc = [p \in Procs |-> "start"]
  /\ msg = [p \in Procs |-> 0]
  /\ done = [p \in Procs |-> 0]
  /\ got = [r \in Receivers |-> NoChunk]
  /\ died = {}

-----------------------------------------------------------------------------
(* Both loops.                                                             *)

Goto(p, l) == pc' = [pc EXCEPT ![p] = l]

(* The programs store into the key before their first call, without a look *)
(* at mutex: the sending one all of it, the receiving one its VM.          *)
StartSender(s) ==
  /\ pc[s] = "start"
  /\ key' = [from |-> s, to |-> Vm[s]]
  /\ Goto(s, "ref")
  /\ UNCHANGED <<mutex, ref_count, data, work>>

\* mutant: the receiving program clears the rest of the key
StartReceiverClears(r) ==
  /\ pc[r] = "start"
  /\ key' = [from |-> Nobody, to |-> Vm[r]]
  /\ Goto(r, "ref")
  /\ UNCHANGED <<mutex, ref_count, data, work>>

StartReceiver(r) ==
  /\ pc[r] = "start"
  /\ key' = [key EXCEPT !.to = Vm[r]]
  /\ Goto(r, "ref")
  /\ UNCHANGED <<mutex, ref_count, data, work>>

(* The process is killed; the section stays as it is.  Whoever starts it   *)
(* again starts with the first message.                                    *)
Die(p) ==
  /\ pc[p] # "start"
  /\ Cardinality(died) < MaxDeaths /\ <<p, pc[p]>> \notin died
  /\ died' = died \cup {<<p, pc[p]>>}
  /\ Goto(p, "start")
  /\ msg' = [msg EXCEPT ![p] = 0]
  /\ done' = [done EXCEPT ![p] = 0]
  /\ UNCHANGED <<section, got>>

\* The message is complete; the caller goes on with the next one.
LockReturn(p) ==
  /\ pc[p] = "ref"
  /\ done[p] >= Chunks
  /\ done' = [done EXCEPT ![p] = 0]
  /\ msg' = [msg EXCEPT ![p] = (@ + 1) % Counters]
  /\ UNCHANGED <<section, pc, got, died>>

\* mutant: the sender does not wait until the last chunk is consumed
MyTurnAlways(p) ==
  p \in Receivers => key = [from |-> SenderOf[p], to |-> Vm[p]] /\ ref_count > 0

\* A sender waits for an empty section, a receiver for a chunk of its key.
MyTurn(p) ==
  IF p \in Senders
    THEN ref_count <= 0
    ELSE key = [from |-> SenderOf[p], to |-> Vm[p]] /\ ref_count > 0

TestRef(p) ==
  /\ pc[p] = "ref"
  /\ done[p] < Chunks
  /\ MyTurn(p)
  /\ Goto(p, "test")
  /\ UNCHANGED <<section, work>>

\* mutex is set: back to the top of the loop.
TestMutexTaken(p) ==
  /\ pc[p] = "test"
  /\ mutex
  /\ Goto(p, "ref")
  /\ UNCHANGED <<section, work>>

\* mutant: the flag is not looked at
TestMutexIgnored(p) ==
  /\ pc[p] = "test"
  /\ Goto(p, "take")
  /\ UNCHANGED <<section, work>>

TestMutexFree(p) ==
  /\ pc[p] = "test"
  /\ ~mutex
  /\ Goto(p, "take")
  /\ UNCHANGED <<section, work>>

TakeMutex(p) ==
  /\ pc[p] = "take"
  /\ mutex' = TRUE
  /\ Goto(p, "copy")
  /\ UNCHANGED <<ref_count, key, data, work>>

ReleaseMutex(p) ==
  /\ pc[p] = "release"
  /\ mutex' = FALSE
  /\ Goto(p, "ref")
  /\ UNCHANGED <<ref_count, key, data, work>>

-----------------------------------------------------------------------------
(* What each side does while it holds mutex.                               *)

SendBegin(s) ==
  /\ pc[s] = "copy"
  /\ data' = NoChunk
  /\ Goto(s, "fill")
  /\ UNCHANGED <<mutex, ref_count, key, work>>

SendChunk(s) ==
  /\ pc[s] = "fill"
  /\ data' = [from |-> s, msg |-> msg[s], part |-> done[s]]
  /\ done' = [done EXCEPT ![s] = @ + 1]
  /\ Goto(s, "key")
  /\ UNCHANGED <<mutex, ref_count, key, msg, got, died>>

SendKey(s) ==
  /\ pc[s] = "key"
  /\ key' = [from |-> s, to |-> Vm[s]]
  /\ Goto(s, "count")
  /\ UNCHANGED <<mutex, ref_count, data, work>>

SendCount(s) ==
  /\ pc[s] = "count"
  /\ ref_count' = 1
  /\ Goto(s, "release")
  /\ UNCHANGED <<mutex, key, data, work>>

RecvChunk(r) ==
  /\ pc[r] = "copy"
  /\ got' = [got EXCEPT ![r] = data]
  /\ Goto(r, "count")
  /\ UNCHANGED <<section, msg, done, died>>

RecvCount(r) ==
  /\ pc[r] = "count"
  /\ ref_count' = ref_count - 1
  /\ done' = [done EXCEPT ![r] = @ + 1]
  /\ Goto(r, "release")
  /\ UNCHANGED <<mutex, key, data, msg, got, died>>

Step(p) ==
  \/ LockReturn(p) \/ TestRef(p) \/ TestMutexTaken(p) \/ TestMutexFree(p)
  \/ TakeMutex(p) \/ ReleaseMutex(p)

SenderStep(s) ==
  \/ Step(s) \/ StartSender(s)
  \/ SendBegin(s) \/ SendChunk(s) \/ SendKey(s) \/ SendCount(s)
ReceiverStep(r) == Step(r) \/ StartReceiver(r) \/ RecvChunk(r) \/ RecvCount(r)

LockNext == \/ \E s \in Senders : SenderStep(s)
            \/ \E r \in Receivers : ReceiverStep(r)
            \/ \E p \in Procs : Die(p)

LockSpec == LockInit /\ [][LockNext]_lock_vars

-----------------------------------------------------------------------------
Inside == {"copy", "fill", "key", "count", "release"}
PCs == {"start", "ref", "test", "take"} \cup Inside

(* Types; no side is past the last chunk of a message.                     *)
LockTypeOK ==
  /\ mutex \in BOOLEAN
  /\ ref_count \in Int
  /\ key \in [from : Senders \cup {Nobody}, to : Vms]
  /\ data \in Chunk
  /\ pc \in [Procs -> PCs]
  /\ msg \in [Procs -> 0 .. Counters - 1]
  /\ done \in [Procs -> 0 .. Chunks]
  /\ got \in [Receivers -> Chunk]
  /\ died \subseteq Procs \X PCs

Holds(p) == pc[p] \in Inside

(* Header of ivshmem_lock_send_buffer and _recv_buffer: each side locks    *)
(* the mutex, works on the section and unlocks it.  Never are two          *)
(* processes between the two at once, also when one of them was killed     *)
(* there and has been started again.                                       *)
MutualExclusion ==
  \A p, q \in Procs : Holds(p) /\ Holds(q) => p = q

(* What a receiver copies is the chunk it is due, of the message it waits  *)
(* for: ref_count keeps the two sides in step, whichever starts first.     *)
(* When processes are killed and start over the messages differ, but no    *)
(* receiver gets a chunk whose sender was killed while it copied.          *)
ChunksInStep ==
  \A r \in Receivers : pc[r] = "count" =>
    /\ got[r] # NoChunk
    /\ died = {} =>
         got[r] = [from |-> SenderOf[r], msg |-> msg[r], part |-> done[r]]

\* The chunk that waits for r: set by ref_count, gone once it is copied out,
\* also when r is killed right after that.
InSection(r) ==
  IF ref_count = 1 /\ pc[r] # "count" /\ <<r, "count">> \notin died
    THEN <<data>> ELSE <<>>

(* With one sender and one receiver the section is a queue of one chunk.   *)
TheReceiver == CHOOSE r \in Receivers : TRUE
Section == INSTANCE PageFifo
             WITH Pages <- Chunk, Capacity <- 1,
                  queue <- InSection(TheReceiver), last <- got[TheReceiver]
LockIsFifo == Section!FifoSpec

(* A process was killed inside the locked part and mutex stays up.         *)
LeftLocked == /\ mutex
              /\ \A p \in Procs : ~Holds(p)
              /\ \E p \in Procs, l \in Inside : <<p, l>> \in died

(* Every message a receiver waits for arrives, unless mutex was left up    *)
(* for good: nothing else can keep the section locked.                     *)
LockFlow ==
  \A r \in Receivers : \A m \in 0 .. Counters - 1 :
    msg[r] = m ~> msg[r] = (m + 1) % Counters \/ LeftLocked
=============================================================================
