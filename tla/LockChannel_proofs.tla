------------------------- MODULE LockChannel_proofs -------------------------
(***************************************************************************)
(* With one sender and one receiver, which is how the example programs use *)
(* the lock-based transport, the flag called mutex excludes although it is *)
(* tested and set in two steps: ref_count decides whose turn it is before  *)
(* either of them looks at the flag.  Being killed anywhere and started    *)
(* again does not change that.                                             *)
(***************************************************************************)
EXTENDS LockChannel, Sequences, TLAPS

(* The turn: while ref_count is 0 only the sender can get past the flag,   *)
(* while it is 1 only the receiver, and the flag is up while one of them   *)
(* works on the section.  It may also be up for good, when one of them was *)
(* killed there; then nobody gets past it.                                 *)
TurnInv(s, r) ==
  /\ pc \in [Procs -> PCs]
  /\ mutex \in BOOLEAN
  /\ ref_count \in {0, 1}
  /\ Holds(s) \/ Holds(r) => mutex
  /\ pc[s] \in {"test", "take", "copy", "fill", "key", "count"} => ref_count = 0
  /\ pc[s] = "release" => ref_count = 1
  /\ pc[r] \in {"test", "take", "copy", "count"} => ref_count = 1
  /\ pc[r] = "release" => ref_count = 0 /\ pc[s] \in {"start", "ref", "test"}
  /\ pc[r] \in {"take", "copy", "count"} => pc[s] \in {"start", "ref"}
  /\ pc[r] \notin {"fill", "key"}

(* Every step keeps the turn.                                              *)
LEMMA TurnStep ==
  ASSUME NEW s, NEW r, Senders = {s}, Receivers = {r},
         TurnInv(s, r), [LockNext]_lock_vars
  PROVE  TurnInv(s, r)'
<1> USE DEF TurnInv, Holds, Inside, PCs
<1>1. s # r /\ s \in Procs /\ r \in Procs
  BY LockAssumption DEF Procs
<1>2. CASE UNCHANGED lock_vars
  BY <1>2 DEF lock_vars, section, work
<1>3. CASE SenderStep(s)
  <2>1. CASE LockReturn(s)
    BY <2>1 DEF LockReturn, section
  <2>2. CASE TestRef(s)
    BY <1>1, <2>2 DEF TestRef, MyTurn, Goto, section
  <2>3. CASE TestMutexTaken(s)
    BY <1>1, <2>3 DEF TestMutexTaken, Goto, section
  <2>4. CASE TestMutexFree(s)
    BY <1>1, <2>4 DEF TestMutexFree, Goto, section
  <2>5. CASE TakeMutex(s)
    BY <1>1, <2>5 DEF TakeMutex, Goto
  <2>6. CASE ReleaseMutex(s)
    BY <1>1, <2>6 DEF ReleaseMutex, Goto
  <2>7. CASE SendChunk(s)
    BY <1>1, <2>7 DEF SendChunk, Goto
  <2>8. CASE SendKey(s)
    BY <1>1, <2>8 DEF SendKey, Goto
  <2>9. CASE SendCount(s)
    BY <1>1, <2>9 DEF SendCount, Goto
  <2>10. CASE StartSender(s)
    BY <1>1, <2>10 DEF StartSender, Goto
  <2>11. CASE SendBegin(s)
    BY <1>1, <2>11 DEF SendBegin, Goto
  <2> QED BY <1>3, <2>1, <2>2, <2>3, <2>4, <2>5, <2>6, <2>7, <2>8, <2>9, <2>10,
             <2>11
          DEF SenderStep, Step
<1>4. CASE ReceiverStep(r)
  <2>1. CASE LockReturn(r)
    BY <2>1 DEF LockReturn, section
  <2>2. CASE TestRef(r)
    BY <1>1, <2>2 DEF TestRef, MyTurn, Goto, section
  <2>3. CASE TestMutexTaken(r)
    BY <1>1, <2>3 DEF TestMutexTaken, Goto, section
  <2>4. CASE TestMutexFree(r)
    <3>1. ref_count = 1 /\ ~Holds(s)
      BY <2>4 DEF TestMutexFree
    <3>2. pc[s] \in PCs
      BY <1>1
    <3>3. pc[s] \in {"start", "ref"}
      BY <3>1, <3>2
    <3> QED BY <1>1, <2>4, <3>1, <3>3 DEF TestMutexFree, Goto, section
  <2>5. CASE TakeMutex(r)
    BY <1>1, <2>5 DEF TakeMutex, Goto
  <2>6. CASE ReleaseMutex(r)
    BY <1>1, <2>6 DEF ReleaseMutex, Goto
  <2>7. CASE RecvChunk(r)
    BY <1>1, <2>7 DEF RecvChunk, Goto, section
  <2>8. CASE RecvCount(r)
    BY <1>1, <2>8 DEF RecvCount, Goto
  <2>9. CASE StartReceiver(r)
    BY <1>1, <2>9 DEF StartReceiver, Goto
  <2> QED BY <1>4, <2>1, <2>2, <2>3, <2>4, <2>5, <2>6, <2>7, <2>8, <2>9
          DEF ReceiverStep, Step
<1>5. CASE \E p \in Procs : Die(p)
  <2>1. PICK p \in Procs : Die(p)
    BY <1>5
  <2>2. p \in {s, r}
    BY DEF Procs
  <2> QED BY <1>1, <2>1, <2>2 DEF Die, Goto, section
<1> QED BY <1>2, <1>3, <1>4, <1>5 DEF LockNext

(* One sender and one receiver are never both inside the locked part,      *)
(* wherever they are killed and started again.                             *)
THEOREM LockMutualExclusion ==
  ASSUME NEW CONSTANT s, NEW CONSTANT r, Senders = {s}, Receivers = {r}
  PROVE  LockSpec => []MutualExclusion
<1>1. LockInit => TurnInv(s, r)
  BY LockAssumption DEF LockInit, TurnInv, Holds, Inside, PCs, Procs
<1>2. TurnInv(s, r) /\ [LockNext]_lock_vars => TurnInv(s, r)'
  BY TurnStep
<1>3. TurnInv(s, r) => MutualExclusion
  BY DEF TurnInv, MutualExclusion, Holds, Inside, PCs, Procs
<1> QED BY <1>1, <1>2, <1>3, PTL DEF LockSpec

-----------------------------------------------------------------------------
(* Types, for any number of senders and receivers.                         *)

(* Between its test of the message's end and its count of the chunk        *)
(* nobody is past the last chunk.                                          *)
DoneInv ==
  \A p \in Procs :
    \/ pc[p] \in {"test", "take", "copy"}
    \/ pc[p] = "fill" /\ p \in Senders
    \/ pc[p] = "count" /\ p \in Receivers
    => done[p] < Chunks

(* A fresh section is well typed.                                          *)
LEMMA LockTypeInit == LockInit => LockTypeOK /\ DoneInv
<1> SUFFICES ASSUME LockInit PROVE LockTypeOK /\ DoneInv
  OBVIOUS
<1>1. NoChunk \in Chunk
  BY LockAssumption DEF NoChunk, Chunk
<1>2. /\ pc \in [Procs -> PCs]
      /\ msg \in [Procs -> 0 .. Counters - 1]
      /\ done \in [Procs -> 0 .. Chunks]
  BY LockAssumption DEF LockInit, PCs
<1>3. key \in [from : Senders \cup {Nobody}, to : Vms]
  BY DEF LockInit, Vms
<1>4. ref_count \in Int
  BY DEF LockInit
<1>5. mutex \in BOOLEAN /\ died \subseteq Procs \X PCs
  BY Zenon DEF LockInit
<1>6. data \in Chunk /\ got \in [Receivers -> Chunk]
  BY <1>1 DEF LockInit
<1>7. DoneInv
  BY DEF LockInit, DoneInv
<1> QED BY <1>2, <1>3, <1>4, <1>5, <1>6, <1>7 DEF LockTypeOK

(* Every access of either side, and being killed, keep the types.          *)
LEMMA LockTypeStep ==
  ASSUME LockTypeOK, DoneInv, [LockNext]_lock_vars
  PROVE  LockTypeOK' /\ DoneInv'
<1> USE LockAssumption DEF LockTypeOK, DoneInv, PCs, Inside
<1>1. CASE UNCHANGED lock_vars
  BY <1>1 DEF lock_vars, section, work
<1>2. ASSUME NEW p \in Procs, Step(p) PROVE LockTypeOK' /\ DoneInv'
  <2>1. CASE LockReturn(p)
    <3>1. (msg[p] + 1) % Counters \in 0 .. Counters - 1
      OBVIOUS
    <3> QED BY <2>1, <3>1 DEF LockReturn, section
  <2>2. CASE TestRef(p)
    BY <2>2 DEF TestRef, Goto, section, work
  <2>3. CASE TestMutexTaken(p)
    BY <2>3 DEF TestMutexTaken, Goto, section, work
  <2>4. CASE TestMutexFree(p)
    BY <2>4 DEF TestMutexFree, Goto, section, work
  <2>5. CASE TakeMutex(p)
    BY <2>5 DEF TakeMutex, Goto, work
  <2>6. CASE ReleaseMutex(p)
    BY <2>6 DEF ReleaseMutex, Goto, work
  <2> QED BY <1>2, <2>1, <2>2, <2>3, <2>4, <2>5, <2>6 DEF Step
<1>3. ASSUME NEW s \in Senders, SenderStep(s), ~Step(s)
      PROVE  LockTypeOK' /\ DoneInv'
  <2>0. s \in Procs /\ s \notin Receivers /\ Vm[s] \in Vms
    BY DEF Procs, Vms
  <2>1. CASE StartSender(s)
    BY <2>0, <2>1 DEF StartSender, Goto, work
  <2>2. CASE SendBegin(s)
    BY <2>0, <2>2 DEF SendBegin, Goto, work, NoChunk, Chunk
  <2>3. CASE SendChunk(s)
    BY <2>0, <2>3 DEF SendChunk, Goto, Chunk
  <2>4. CASE SendKey(s)
    BY <2>0, <2>4 DEF SendKey, Goto, work
  <2>5. CASE SendCount(s)
    BY <2>0, <2>5 DEF SendCount, Goto, work
  <2> QED BY <1>3, <2>1, <2>2, <2>3, <2>4, <2>5 DEF SenderStep
<1>4. ASSUME NEW r \in Receivers, ReceiverStep(r), ~Step(r)
      PROVE  LockTypeOK' /\ DoneInv'
  <2>0. r \in Procs /\ r \notin Senders /\ Vm[r] \in Vms
    BY DEF Procs, Vms
  <2>1. CASE StartReceiver(r)
    BY <2>0, <2>1 DEF StartReceiver, Goto, work
  <2>2. CASE RecvChunk(r)
    BY <2>0, <2>2 DEF RecvChunk, Goto, section
  <2>3. CASE RecvCount(r)
    BY <2>0, <2>3 DEF RecvCount, Goto
  <2> QED BY <1>4, <2>1, <2>2, <2>3 DEF ReceiverStep
<1>5. ASSUME NEW p \in Procs, Die(p) PROVE LockTypeOK' /\ DoneInv'
  BY <1>5 DEF Die, Goto, section
<1> QED BY <1>1, <1>2, <1>3, <1>4, <1>5
        DEF LockNext, SenderStep, ReceiverStep, Procs

(* No side is ever past the last chunk of a message, however many senders  *)
(* and receivers share the section without excluding one another.          *)
THEOREM LockTypeCorrect == LockSpec => [](LockTypeOK /\ DoneInv)
<1>1. LockInit => LockTypeOK /\ DoneInv
  BY LockTypeInit
<1>2. LockTypeOK /\ DoneInv /\ [LockNext]_lock_vars
        => LockTypeOK' /\ DoneInv'
  BY LockTypeStep
<1> QED BY <1>1, <1>2, PTL DEF LockSpec

-----------------------------------------------------------------------------
(* What one sender and one receiver hand over.                             *)

(* The chunk a side at chunk d of message m handles next.                  *)
NextChunk(m, d) ==
  IF d < Chunks THEN <<m, d>> ELSE <<(m + 1) % Counters, 0>>

NextOf(p) == NextChunk(msg[p], done[p])

(* A chunk is in the section: copied in whole and not yet counted out.     *)
Filled(s) == pc[s] \in {"key", "count"} \/ ref_count = 1

(* While nobody has been killed the receiver is at the chunk in the        *)
(* section and the sender right behind it, or both are at the same one.    *)
InStep(s, r) ==
  /\ Filled(s) =>
       /\ NextOf(r) = <<data.msg, data.part>>
       /\ NextOf(s) = NextChunk(data.msg, data.part + 1)
  /\ ~Filled(s) => NextOf(s) = NextOf(r)
  /\ pc[r] = "count" => <<got[r].msg, got[r].part>> = NextOf(r)

(* What is handed over is a chunk the sender has copied to its end.  A     *)
(* receiver killed between its copy and its count leaves mutex up, and     *)
(* nobody gets to the section any more.                                    *)
ChunkInv(s, r) ==
  /\ LockTypeOK
  /\ DoneInv
  /\ TurnInv(s, r)
  /\ Filled(s) => data.from = s
  /\ pc[r] = "count" => got[r].from = s
  /\ <<r, "count">> \in died => /\ mutex /\ ref_count = 1
                                /\ pc[s] \in {"start", "ref"}
                                /\ pc[r] \in {"start", "ref", "test"}
  /\ died = {} => InStep(s, r)

(* Returning from a call and starting the next one is no progress.         *)
LEMMA NextChunkReturn ==
  ASSUME NEW m \in 0 .. Counters - 1, NEW d \in 0 .. Chunks
  PROVE  /\ d < Chunks => NextChunk(m, d) = <<m, d>>
         /\ d >= Chunks => NextChunk((m + 1) % Counters, 0) = NextChunk(m, d)
BY LockAssumption DEF NextChunk

(* A step that keeps both sides' progress, the section and what was copied *)
(* keeps them in step, as long as it moves no side past its count.         *)
LEMMA InStepFrame ==
  ASSUME NEW s \in Procs, NEW r \in Receivers, InStep(s, r),
         UNCHANGED <<data, got>>,
         NextOf(s)' = NextOf(s), NextOf(r)' = NextOf(r),
         Filled(s)' <=> Filled(s),
         pc'[r] = "count" => pc[r] = "count"
  PROVE  InStep(s, r)'
BY DEF InStep

(* Every step keeps the two sides in step.                                 *)
LEMMA ChunkStep ==
  ASSUME NEW s, NEW r, Senders = {s}, Receivers = {r},
         ChunkInv(s, r), [LockNext]_lock_vars
  PROVE  ChunkInv(s, r)'
<1>0. /\ s # r /\ s \in Procs /\ r \in Procs /\ r \in Receivers
      /\ Chunks \in Nat \ {0} /\ Counters \in Nat \ {0}
  BY LockAssumption DEF Procs
<1>1. LockTypeOK' /\ DoneInv' /\ TurnInv(s, r)'
  BY LockTypeStep, TurnStep DEF ChunkInv
<1> SUFFICES /\ (Filled(s) => data.from = s)'
             /\ (pc[r] = "count" => got[r].from = s)'
             /\ (<<r, "count">> \in died => /\ mutex /\ ref_count = 1
                                            /\ pc[s] \in {"start", "ref"}
                                            /\ pc[r] \in {"start", "ref", "test"})'
             /\ (died = {} => InStep(s, r))'
  BY <1>1 DEF ChunkInv
<1> USE <1>0 DEF ChunkInv, LockTypeOK, TurnInv, Holds, Inside, PCs, Filled
<1>2. CASE UNCHANGED lock_vars
  BY <1>2, InStepFrame DEF lock_vars, section, work, NextOf
<1>3. ASSUME NEW p \in Procs, LockReturn(p) PROVE ChunkInv(s, r)'
  <2>1. /\ UNCHANGED <<section, pc, got, died>>
        /\ \A q \in Procs : NextOf(q)' = NextOf(q)
    BY <1>3, NextChunkReturn DEF LockReturn, NextOf
  <2> QED BY <1>1, <2>1, InStepFrame DEF section
<1>4. ASSUME NEW p \in Procs,
             \/ TestRef(p) \/ TestMutexTaken(p) \/ TestMutexFree(p)
             \/ TakeMutex(p) \/ ReleaseMutex(p)
      PROVE  ChunkInv(s, r)'
  <2>1. /\ UNCHANGED <<ref_count, data, work>>
        /\ \A q \in Procs : pc'[q] # pc[q] => q = p
        /\ pc[p] \in {"ref", "test", "take", "release"}
        /\ pc'[p] \in {"ref", "test", "take", "copy"}
    BY <1>4 DEF TestRef, TestMutexTaken, TestMutexFree, TakeMutex,
                ReleaseMutex, Goto, section
  <2>2. NextOf(s)' = NextOf(s) /\ NextOf(r)' = NextOf(r)
    BY <2>1 DEF work, NextOf
  <2>3. died = {} => InStep(s, r)'
    BY <2>1, <2>2, InStepFrame DEF work
  <2>4. <<r, "count">> \in died =>
          /\ mutex' /\ ref_count' = 1
          /\ pc'[s] \in {"start", "ref"}
          /\ pc'[r] \in {"start", "ref", "test"}
    <3> SUFFICES ASSUME <<r, "count">> \in died
                 PROVE  /\ mutex' /\ ref_count' = 1
                        /\ pc'[s] \in {"start", "ref"}
                        /\ pc'[r] \in {"start", "ref", "test"}
      OBVIOUS
    <3>1. p \in {s, r}
      BY DEF Procs
    <3>2. ~TestMutexFree(p) /\ ~TakeMutex(p) /\ ~ReleaseMutex(p) /\ ~TestRef(s)
      BY <3>1 DEF TestRef, MyTurn, TestMutexFree, TakeMutex, ReleaseMutex
    <3>3. CASE TestRef(r)
      BY <3>3 DEF TestRef, Goto, section
    <3>4. CASE TestMutexTaken(p)
      BY <3>1, <3>4 DEF TestMutexTaken, Goto, section
    <3> QED BY <1>4, <3>1, <3>2, <3>3, <3>4
  <2> QED BY <1>1, <2>1, <2>3, <2>4 DEF work
<1>5. CASE StartSender(s) \/ StartReceiver(r)
  <2>1. NextOf(s)' = NextOf(s) /\ NextOf(r)' = NextOf(r)
    BY <1>5 DEF StartSender, StartReceiver, work, NextOf
  <2> QED BY <1>5, <2>1, InStepFrame
          DEF StartSender, StartReceiver, Goto, work
<1>6. CASE SendBegin(s)
  <2>1. ~Filled(s) /\ ~Filled(s)' /\ pc'[r] # "count"
    BY <1>6 DEF SendBegin, Goto
  <2>2. NextOf(s)' = NextOf(s) /\ NextOf(r)' = NextOf(r)
    BY <1>6 DEF SendBegin, work, NextOf
  <2> QED BY <1>6, <2>1, <2>2 DEF SendBegin, Goto, work, InStep
<1>7. CASE SendChunk(s)
  <2>1. /\ done[s] < Chunks /\ ~Filled(s) /\ Filled(s)' /\ pc'[r] # "count"
        /\ data' = [from |-> s, msg |-> msg[s], part |-> done[s]]
        /\ msg' = msg /\ died' = died
        /\ done'[s] = done[s] + 1 /\ done'[r] = done[r]
    BY <1>7 DEF SendChunk, Goto, DoneInv
  <2>2. NextOf(s) = <<msg[s], done[s]>>
    BY <2>1, NextChunkReturn DEF NextOf
  <2>3. /\ NextOf(s)' = NextChunk(data'.msg, data'.part + 1)
        /\ NextOf(r)' = NextOf(r)
    BY <2>1 DEF NextOf
  <2>4. died = {} => InStep(s, r)'
    BY <2>1, <2>2, <2>3 DEF InStep
  <2> QED BY <1>7, <2>1, <2>4 DEF SendChunk, Goto
<1>8. CASE SendKey(s) \/ SendCount(s)
  <2>1. NextOf(s)' = NextOf(s) /\ NextOf(r)' = NextOf(r)
    BY <1>8 DEF SendKey, SendCount, work, NextOf
  <2> QED BY <1>8, <2>1, InStepFrame DEF SendKey, SendCount, Goto, work
<1>9. CASE RecvChunk(r)
  <2>1. /\ Filled(s) /\ Filled(s)' /\ got'[r] = data /\ UNCHANGED data
        /\ pc'[r] = "count" /\ died' = died
    BY <1>9 DEF RecvChunk, Goto, section
  <2>2. NextOf(s)' = NextOf(s) /\ NextOf(r)' = NextOf(r)
    BY <1>9 DEF RecvChunk, NextOf
  <2>3. died = {} => InStep(s, r)'
    BY <2>1, <2>2 DEF InStep
  <2> QED BY <1>9, <2>1, <2>3 DEF RecvChunk, Goto, section
<1>10. CASE RecvCount(r)
  <2>1. /\ Filled(s) /\ ~Filled(s)' /\ pc'[r] # "count"
        /\ done[r] < Chunks /\ msg' = msg /\ died' = died
        /\ done'[r] = done[r] + 1 /\ done'[s] = done[s]
    BY <1>10 DEF RecvCount, Goto, DoneInv
  <2>2. NextOf(r) = <<msg[r], done[r]>>
    BY <2>1, NextChunkReturn DEF NextOf
  <2>3. NextOf(s)' = NextOf(s) /\ NextOf(r)' = NextChunk(msg[r], done[r] + 1)
    BY <2>1 DEF NextOf
  <2>4. died = {} => InStep(s, r)'
    BY <2>1, <2>2, <2>3 DEF InStep
  <2> QED BY <1>10, <2>1, <2>4 DEF RecvCount, Goto
<1>11. ASSUME NEW p \in Procs, Die(p) PROVE ChunkInv(s, r)'
  <2>1. p \in {s, r} /\ died' # {}
    BY <1>11 DEF Die, Procs
  <2> QED BY <1>1, <1>11, <2>1 DEF Die, Goto, section
<1> QED BY <1>2, <1>3, <1>4, <1>5, <1>6, <1>7, <1>8, <1>9, <1>10, <1>11
        DEF LockNext, SenderStep, ReceiverStep, Step

(* One sender and one receiver stay in step for good, wherever they are    *)
(* killed and started again.                                               *)
THEOREM LockChunkInvariant ==
  ASSUME NEW CONSTANT s, NEW CONSTANT r, Senders = {s}, Receivers = {r}
  PROVE  LockSpec => []ChunkInv(s, r)
<1>1. LockInit => ChunkInv(s, r)
  <2> SUFFICES ASSUME LockInit PROVE ChunkInv(s, r)
    OBVIOUS
  <2>1. LockTypeOK /\ DoneInv
    BY LockTypeInit
  <2>2. TurnInv(s, r)
    BY LockAssumption DEF LockInit, TurnInv, Holds, Inside, PCs, Procs
  <2>3. s \in Procs /\ r \in Procs
    BY DEF Procs
  <2>4. InStep(s, r) /\ ~Filled(s) /\ pc[r] # "count" /\ died = {}
    BY <2>3 DEF LockInit, InStep, Filled, NextOf
  <2> QED BY <2>1, <2>2, <2>4 DEF ChunkInv
<1>2. ChunkInv(s, r) /\ [LockNext]_lock_vars => ChunkInv(s, r)'
  BY ChunkStep
<1> QED BY <1>1, <1>2, PTL DEF LockSpec

(* A receiver gets whole chunks and, until a process is killed, the chunk  *)
(* it is due, of any number of chunks and messages.                        *)
THEOREM LockChunksInStep ==
  ASSUME NEW CONSTANT s, NEW CONSTANT r, Senders = {s}, Receivers = {r}
  PROVE  LockSpec => []ChunksInStep
<1>1. ChunkInv(s, r) => ChunksInStep
  <2> SUFFICES ASSUME ChunkInv(s, r), pc[r] = "count"
               PROVE  /\ got[r] # NoChunk
                      /\ died = {} => got[r] = [from |-> SenderOf[r],
                                               msg |-> msg[r], part |-> done[r]]
    BY DEF ChunksInStep
  <2>1. /\ got[r] \in Chunk /\ got[r].from = s /\ SenderOf[r] = s
        /\ done[r] < Chunks /\ s # Nobody
    BY LockAssumption DEF ChunkInv, LockTypeOK, DoneInv, Procs
  <2>2. NextOf(r) = <<msg[r], done[r]>>
    BY <2>1, NextChunkReturn DEF NextOf, ChunkInv, LockTypeOK, Procs
  <2>3. died = {} => got[r].msg = msg[r] /\ got[r].part = done[r]
    BY <2>2 DEF ChunkInv, InStep
  <2> QED BY <2>1, <2>3 DEF Chunk, NoChunk
<1> QED BY <1>1, LockChunkInvariant, PTL

(* The section is a queue of one chunk between its sender and its          *)
(* receiver: filled when ref_count goes up, taken by the copy.  Nothing is *)
(* lost, doubled or changed in it, whoever is killed where.                *)
THEOREM LockImplementsFifo ==
  ASSUME NEW CONSTANT s, NEW CONSTANT r, Senders = {s}, Receivers = {r}
  PROVE  LockSpec => LockIsFifo
<1>0. /\ TheReceiver = r
      /\ s # r /\ s \in Procs /\ r \in Procs /\ r \in Receivers
  BY LockAssumption DEF TheReceiver, Procs
<1>1. LockInit => Section!FifoInit
  <2> SUFFICES ASSUME LockInit PROVE Section!FifoInit
    OBVIOUS
  <2>1. InSection(r) = <<>> /\ got[r] \in Chunk
    BY <1>0, LockTypeInit DEF LockInit, InSection, LockTypeOK
  <2> QED BY <1>0, <2>1 DEF Section!FifoInit
<1>2. ChunkInv(s, r) /\ ChunkInv(s, r)' /\ [LockNext]_lock_vars
        => [Section!Put \/ Section!Take]_<<InSection(TheReceiver), got[TheReceiver]>>
  <2> SUFFICES ASSUME ChunkInv(s, r), ChunkInv(s, r)', [LockNext]_lock_vars
               PROVE  \/ Section!Put \/ Section!Take
                      \/ UNCHANGED <<InSection(r), got[r]>>
    BY <1>0
  <2> USE <1>0 DEF ChunkInv, LockTypeOK, TurnInv, PCs, Inside
  <2>1. CASE SendCount(s)
    <3>1. CASE <<r, "count">> \in died
      BY <2>1, <3>1 DEF SendCount, work, InSection
    <3>2. CASE <<r, "count">> \notin died
      <4>1. /\ InSection(r) = <<>> /\ InSection(r)' = <<data>>
            /\ data \in Chunk /\ got'[r] = got[r]
        BY <2>1, <3>2 DEF SendCount, Goto, work, InSection
      <4>2. Len(<<>>) < 1 /\ Append(<<>>, data) = <<data>>
        OBVIOUS
      <4> QED BY <4>1, <4>2 DEF Section!Put
    <3> QED BY <3>1, <3>2
  <2>2. CASE RecvChunk(r)
    <3>1. /\ InSection(r) = <<data>> /\ InSection(r)' = <<>>
          /\ got'[r] = data
      BY <2>2 DEF RecvChunk, Goto, section, InSection
    <3>2. /\ <<data>> # <<>> /\ Head(<<data>>) = data
          /\ Tail(<<data>>) = <<>>
      OBVIOUS
    <3> QED BY <3>1, <3>2 DEF Section!Take
  <2>3. CASE RecvCount(r)
    BY <2>3 DEF RecvCount, Goto, InSection
  <2>4. CASE SendBegin(s) \/ SendChunk(s)
    BY <2>4 DEF SendBegin, SendChunk, Goto, work, InSection
  <2>5. CASE SendKey(s) \/ StartSender(s) \/ StartReceiver(r)
    BY <2>5 DEF SendKey, StartSender, StartReceiver, Goto, work, InSection
  <2>6. ASSUME NEW p \in Procs, Step(p)
        PROVE  UNCHANGED <<InSection(r), got[r]>>
    <3>1. /\ UNCHANGED <<ref_count, data, got, died>>
          /\ pc'[r] = "count" <=> pc[r] = "count"
      BY <2>6 DEF Step, LockReturn, TestRef, TestMutexTaken, TestMutexFree,
                  TakeMutex, ReleaseMutex, Goto, section, work
    <3> QED BY <3>1 DEF InSection
  <2>7. ASSUME NEW p \in Procs, Die(p)
        PROVE  UNCHANGED <<InSection(r), got[r]>>
    BY <2>7 DEF Die, Goto, section, InSection
  <2>8. CASE UNCHANGED lock_vars
    BY <2>8 DEF lock_vars, section, work, InSection
  <2> QED BY <2>1, <2>2, <2>3, <2>4, <2>5, <2>6, <2>7, <2>8
          DEF LockNext, SenderStep, ReceiverStep
<1> QED BY <1>1, <1>2, LockChunkInvariant, PTL
        DEF LockSpec, LockIsFifo, Section!FifoSpec
=============================================================================
