------------------------- MODULE Handshakes_proofs --------------------------
(***************************************************************************)
(* The three test programs for any region and any number of rounds: the    *)
(* two that wait for each other hand over every round once and in order,   *)
(* and the one that does not raises no false alarm.                        *)
(***************************************************************************)
EXTENDS Handshakes, Sequences, TLAPS

Idle == w_at = "wait" /\ r_at = "wait"

(* latency_test: the writer is one round ahead of the echo, and whose turn *)
(* it is can be read from the three numbers.                               *)
LatencyTurn ==
  Latency =>
    /\ w_at \in {"fill", "signal"} =>
         /\ r_at = "wait"
         /\ seq = w_seq - 1 /\ r_last = w_seq - 1 /\ ack = w_seq - 1
    /\ w_at = "wait" =>
         /\ seq = w_seq - 1
         /\ r_at = "wait" => r_last = ack /\ ack \in {seq - 1, seq}
         /\ r_at \in {"read", "verdict"} => r_last = seq /\ ack = seq - 1
    /\ w_at = "done" \/ r_at = "done" =>
         w_at = "done" /\ r_at = "done" /\ seq = r_last

(* shm_comm: one of the two semaphores is up or one of the two processes   *)
(* is past it.  The reader expects what the region holds from the moment   *)
(* it is filled on, and what the writer fills in next before that.         *)
SemaphoreTurn ==
  Semaphores =>
    /\ w_at # "done" /\ r_at # "done"
    /\ w_at # "wait" => r_at = "wait" /\ sem_w = 0 /\ sem_r = 0
    /\ r_at # "wait" => w_at = "wait" /\ sem_w = 0 /\ sem_r = 0
    /\ Idle => sem_w + sem_r = 1
    /\ (Idle /\ sem_w = 1) \/ w_at # "wait" => r_last = w_seq
    /\ w_at = "signal" \/ (w_at = "fill" /\ w_part > 0) => region[0] = w_seq
    /\ (Idle /\ sem_r = 1) \/ r_at # "wait" =>
         region[0] = r_last /\ w_seq = (r_last + 1) % Rounds
    /\ r_at = "verdict" => copy[0] = r_last

(* no_lock_test: a region nobody is filling is of one round, one that is   *)
(* being filled of two, and one that has not changed since the reader      *)
(* looked at it is of the round the reader saw.                            *)
NoLockRegion ==
  NoLock =>
    /\ w_at # "done" /\ r_at # "done"
    /\ w_at # "fill" => \A i \in 0 .. Parts - 1 : region[i] = region[0]
    /\ w_at = "fill" =>
         /\ \A i \in 0 .. w_part - 1 : region[i] = w_seq
         /\ \A i, j \in w_part .. Parts - 1 : region[i] = region[j]
    /\ r_at # "wait" /\ ~raced =>
         /\ \A i \in 0 .. Parts - 1 : region[i] = r_last
         /\ \A i \in 0 .. r_part - 1 : copy[i] = r_last
    /\ r_at = "verdict" => r_part = Parts

(* Where the loops are inside the region and the rounds.                   *)
LoopInv ==
  /\ w_at \in {"fill", "signal"} => w_seq <= Rounds
  /\ w_at = "fill" => w_part <= LastPart
  /\ ~Latency => w_seq < Rounds
  /\ r_at = "read" => r_part < Parts
  /\ r_at = "read" /\ ~NoLock => r_part = 0
  /\ ~(Latency \/ Semaphores \/ NoLock) => Idle

HandshakeInv ==
  /\ HandshakesTypeOK
  /\ LoopInv
  /\ LatencyTurn
  /\ SemaphoreTurn
  /\ NoLockRegion

-----------------------------------------------------------------------------
(* A round number that wraps stays a round number.                         *)
LEMMA RoundWraps ==
  ASSUME NEW k \in Nat
  PROVE  k % Rounds \in 0 .. Rounds - 1
BY HandshakesAssumption, SMT

LEMMA HandshakeInit ==
  HandshakesInit => HandshakeInv
<1> SUFFICES ASSUME HandshakesInit PROVE HandshakeInv
  OBVIOUS
<1> USE HandshakesAssumption DEF HandshakesInit, Latency, Semaphores, NoLock
<1>1. raced \in BOOLEAN
  BY Zenon
<1>2. HandshakesTypeOK
  BY <1>1 DEF HandshakesTypeOK
<1>3. LoopInv /\ LatencyTurn
  BY DEF LoopInv, LatencyTurn, LastPart, Idle
<1>4. SemaphoreTurn
  BY DEF SemaphoreTurn, Idle
<1>5. NoLockRegion
  BY DEF NoLockRegion
<1> QED BY <1>2, <1>3, <1>4, <1>5 DEF HandshakeInv

(* The writer's steps keep the invariant.                                  *)
LEMMA FillingStep ==
  ASSUME HandshakeInv, Filling
  PROVE  HandshakeInv'
<1> USE HandshakesAssumption DEF Latency, Semaphores, NoLock, LastPart
<1>1. CASE StartFilling
  <2>1. HandshakesTypeOK' /\ LoopInv'
    BY <1>1 DEF StartFilling, MayFill, HandshakeInv, HandshakesTypeOK, LoopInv,
                LatencyTurn, SemaphoreTurn, Idle, checker
  <2>2. LatencyTurn'
    BY <1>1 DEF StartFilling, MayFill, HandshakeInv, HandshakesTypeOK,
                LatencyTurn, checker
  <2>3. SemaphoreTurn'
    BY <1>1 DEF StartFilling, MayFill, HandshakeInv, HandshakesTypeOK,
                SemaphoreTurn, Idle, checker
  <2>4. NoLockRegion'
    BY <1>1 DEF StartFilling, HandshakeInv, HandshakesTypeOK, NoLockRegion,
                checker
  <2> QED BY <2>1, <2>2, <2>3, <2>4 DEF HandshakeInv
<1>2. CASE FillPart
  <2>1. HandshakesTypeOK' /\ LoopInv'
    BY <1>2 DEF FillPart, HandshakeInv, HandshakesTypeOK, LoopInv, Idle,
                checker, flags
  <2>2. LatencyTurn'
    BY <1>2 DEF FillPart, HandshakeInv, LatencyTurn, checker, flags
  <2>3. SemaphoreTurn'
    BY <1>2 DEF FillPart, HandshakeInv, HandshakesTypeOK, LoopInv,
                SemaphoreTurn, Idle, checker, flags
  <2>4. NoLockRegion'
    BY <1>2 DEF FillPart, HandshakeInv, HandshakesTypeOK, LoopInv,
                NoLockRegion, checker, flags
  <2> QED BY <2>1, <2>2, <2>3, <2>4 DEF HandshakeInv
<1>3. CASE SignalFilled
  <2>0. w_seq + 1 \in Nat
    BY DEF HandshakeInv, HandshakesTypeOK
  <2>1. (w_seq + 1) % Rounds \in 0 .. Rounds - 1
    BY <2>0, RoundWraps
  <2>2. HandshakesTypeOK' /\ LoopInv'
    <3>1. w_seq' \in 0 .. Rounds + 1 /\ (~Latency' => w_seq' < Rounds)
      BY <1>3, <2>1 DEF SignalFilled, HandshakeInv, HandshakesTypeOK, LoopInv
    <3>2. {seq', ack'} \subseteq 0 .. Rounds
      BY <1>3 DEF SignalFilled, HandshakeInv, HandshakesTypeOK, LoopInv
    <3>3. {sem_w', sem_r'} \subseteq {0, 1}
      BY <1>3 DEF SignalFilled, HandshakeInv, HandshakesTypeOK, SemaphoreTurn
    <3>4. HandshakesTypeOK'
      BY <1>3, <3>1, <3>2, <3>3
      DEF SignalFilled, HandshakeInv, HandshakesTypeOK, checker
    <3>5. LoopInv'
      BY <1>3, <3>1 DEF SignalFilled, HandshakeInv, LoopInv, Idle, checker
    <3> QED BY <3>4, <3>5
  <2>3. LatencyTurn'
    BY <1>3 DEF SignalFilled, HandshakeInv, HandshakesTypeOK, LatencyTurn,
                checker
  <2>4. SemaphoreTurn'
    BY <1>3 DEF SignalFilled, HandshakeInv, HandshakesTypeOK, SemaphoreTurn,
                Idle, checker
  <2>5. NoLockRegion'
    BY <1>3 DEF SignalFilled, HandshakeInv, NoLockRegion, checker
  <2> QED BY <2>2, <2>3, <2>4, <2>5 DEF HandshakeInv
<1>4. CASE Finish
  BY <1>4 DEF Finish, HandshakeInv, HandshakesTypeOK, LoopInv, LatencyTurn,
              SemaphoreTurn, NoLockRegion, Idle, flags
<1> QED BY <1>1, <1>2, <1>3, <1>4 DEF Filling

(* And so do the reader's.                                                 *)
LEMMA CheckingStep ==
  ASSUME HandshakeInv, Checking
  PROVE  HandshakeInv'
<1> USE HandshakesAssumption DEF Latency, Semaphores, NoLock, LastPart
<1>1. CASE StartReading
  <2>0. raced' \in BOOLEAN /\ (~raced' => w_at # "fill" \/ ~(w_part > 0))
    BY <1>1, Zenon DEF StartReading
  <2>1. HandshakesTypeOK' /\ LoopInv'
    <3>1. r_last' \in -1 .. Rounds
      BY <1>1 DEF StartReading, HandshakeInv, HandshakesTypeOK
    <3>2. {sem_w', sem_r'} \subseteq {0, 1}
      BY <1>1 DEF StartReading, MayCheck, HandshakeInv, HandshakesTypeOK
    <3>3. HandshakesTypeOK'
      BY <1>1, <2>0, <3>1, <3>2
      DEF StartReading, HandshakeInv, HandshakesTypeOK, filler
    <3>4. LoopInv'
      BY <1>1 DEF StartReading, MayCheck, HandshakeInv, LoopInv, Idle, filler
    <3> QED BY <3>3, <3>4
  <2>2. LatencyTurn'
    BY <1>1 DEF StartReading, MayCheck, HandshakeInv, HandshakesTypeOK,
                LatencyTurn, filler
  <2>3. SemaphoreTurn'
    BY <1>1 DEF StartReading, MayCheck, HandshakeInv, HandshakesTypeOK,
                SemaphoreTurn, Idle, filler
  <2>4. NoLockRegion'
    BY <1>1, <2>0 DEF StartReading, HandshakeInv, HandshakesTypeOK,
                      NoLockRegion, filler
  <2> QED BY <2>1, <2>2, <2>3, <2>4 DEF HandshakeInv
<1>2. CASE ReadPart
  <2>1. HandshakesTypeOK' /\ LoopInv'
    BY <1>2 DEF ReadPart, HandshakeInv, HandshakesTypeOK, LoopInv, Idle,
                filler, flags
  <2>2. LatencyTurn'
    BY <1>2 DEF ReadPart, HandshakeInv, LatencyTurn, filler, flags
  <2>3. SemaphoreTurn'
    BY <1>2 DEF ReadPart, HandshakeInv, HandshakesTypeOK, LoopInv,
                SemaphoreTurn, Idle, filler, flags
  <2>4. NoLockRegion'
    BY <1>2 DEF ReadPart, HandshakeInv, HandshakesTypeOK, LoopInv,
                NoLockRegion, filler, flags
  <2> QED BY <2>1, <2>2, <2>3, <2>4 DEF HandshakeInv
<1>3. CASE Verdict
  <2>0. copy[0] + 1 \in Nat
    BY DEF HandshakeInv, HandshakesTypeOK
  <2>1. (copy[0] + 1) % Rounds \in 0 .. Rounds - 1
    BY <2>0, RoundWraps
  <2>2. HandshakesTypeOK' /\ LoopInv'
    <3>1. r_last' \in -1 .. Rounds
      BY <1>3, <2>1 DEF Verdict, HandshakeInv, HandshakesTypeOK
    <3>2. {seq', ack'} \subseteq 0 .. Rounds
      BY <1>3 DEF Verdict, HandshakeInv, HandshakesTypeOK, LatencyTurn
    <3>3. {sem_w', sem_r'} \subseteq {0, 1}
      BY <1>3 DEF Verdict, HandshakeInv, HandshakesTypeOK, SemaphoreTurn
    <3>4. HandshakesTypeOK'
      BY <1>3, <3>1, <3>2, <3>3
      DEF Verdict, HandshakeInv, HandshakesTypeOK, filler
    <3>5. LoopInv'
      BY <1>3 DEF Verdict, HandshakeInv, LoopInv, Idle, filler
    <3> QED BY <3>4, <3>5
  <2>3. LatencyTurn'
    BY <1>3 DEF Verdict, HandshakeInv, HandshakesTypeOK, LatencyTurn, filler
  <2>4. SemaphoreTurn'
    BY <1>3 DEF Verdict, HandshakeInv, HandshakesTypeOK, SemaphoreTurn, Idle,
                filler
  <2>5. NoLockRegion'
    BY <1>3 DEF Verdict, HandshakeInv, NoLockRegion, filler
  <2> QED BY <2>2, <2>3, <2>4, <2>5 DEF HandshakeInv
<1> QED BY <1>1, <1>2, <1>3 DEF Checking

LEMMA HandshakeStep ==
  HandshakeInv /\ [HandshakesNext]_handshake_vars => HandshakeInv'
<1>1. ASSUME HandshakeInv, UNCHANGED handshake_vars
      PROVE  HandshakeInv'
  BY <1>1 DEF handshake_vars, flags, filler, checker, HandshakeInv,
    HandshakesTypeOK, LoopInv, LatencyTurn, SemaphoreTurn, NoLockRegion, Idle,
    Latency, Semaphores, NoLock, LastPart
<1> QED BY <1>1, FillingStep, CheckingStep DEF HandshakesNext

(* The invariant of the three programs, whichever of them runs: types,     *)
(* loops inside the region, and whose turn it is.                          *)
THEOREM HandshakeInvariant == HandshakesSpec => []HandshakeInv
BY HandshakeInit, HandshakeStep, PTL DEF HandshakesSpec

(* The types of the programs' variables, and semaphores that never go      *)
(* beyond one.                                                             *)
THEOREM HandshakeTypeCorrect == HandshakesSpec => []HandshakesTypeOK
<1>1. HandshakeInv => HandshakesTypeOK
  BY DEF HandshakeInv
<1> QED BY <1>1, HandshakeInvariant, PTL

(* no_lock_test's reader reports corruption only when the region was half  *)
(* written at its look at the first byte, or written between that look and *)
(* the end of its copy.                                                    *)
THEOREM NoFalseAlarm == HandshakesSpec => []AlarmIsRace
<1>1. HandshakeInv => AlarmIsRace
  BY HandshakesAssumption
  DEF HandshakeInv, HandshakesTypeOK, NoLockRegion, AlarmIsRace, NoLock
<1> QED BY <1>1, HandshakeInvariant, PTL

-----------------------------------------------------------------------------
(* Handing over a round.                                                   *)

LEMMA HandoverInit ==
  HandshakesInit => Handover!FifoInit
BY HandshakesAssumption
DEF HandshakesInit, Handover!FifoInit, Waiting, Latency, Semaphores, NoLock

(* Filling a region changes it only while no round waits in it; signalling *)
(* puts the round into the queue.                                          *)
LEMMA FillingHandsOver ==
  ASSUME HandshakeInv, Filling
  PROVE  [Handover!Put]_<<IF Waiting THEN <<region[0]>> ELSE <<>>,
                          IF NoLock THEN 0 ELSE copy[0]>>
<1> USE HandshakesAssumption DEF Latency, Semaphores, NoLock
<1> DEFINE q == IF Waiting THEN <<region[0]>> ELSE <<>>
<1> DEFINE l == IF NoLock THEN 0 ELSE copy[0]
<1>1. l' = l
  BY DEF Filling, StartFilling, FillPart, SignalFilled, Finish, checker
<1>2. CASE StartFilling
  <2>1. Waiting' = Waiting
    BY <1>2 DEF StartFilling, Waiting, checker
  <2> QED BY <1>1, <1>2, <2>1 DEF StartFilling
<1>3. CASE FillPart
  <2>1. ~Waiting /\ ~Waiting'
    BY <1>3 DEF FillPart, Waiting, HandshakeInv, HandshakesTypeOK,
                LatencyTurn, SemaphoreTurn, checker, flags
  <2> QED BY <1>1, <2>1
<1>4. CASE SignalFilled
  <2>1. CASE NoLock \/ ~(Latency \/ Semaphores)
    <3>1. ~Waiting /\ ~Waiting'
      BY <1>4, <2>1 DEF SignalFilled, Waiting
    <3> QED BY <1>1, <3>1
  <2>2. CASE Latency \/ Semaphores
    <3>1. ~Waiting /\ Waiting'
      BY <1>4, <2>2 DEF SignalFilled, Waiting, HandshakeInv, HandshakesTypeOK,
                        LatencyTurn, SemaphoreTurn, checker
    <3>2. q = <<>> /\ q' = <<region[0]>> /\ region[0] \in 0 .. Rounds
      BY <1>4, <3>1 DEF SignalFilled, HandshakeInv, HandshakesTypeOK
    <3>3. Len(q) < 1 /\ q' = Append(q, region[0])
      <4> HIDE DEF q
      <4>1. Len(<<>>) = 0 /\ Append(<<>>, region[0]) = <<region[0]>>
        OBVIOUS
      <4> QED BY <3>2, <4>1
    <3>4. Handover!Put
      BY <1>1, <3>2, <3>3 DEF Handover!Put
    <3> QED BY <3>4
  <2> QED BY <2>1, <2>2
<1>5. CASE Finish
  <2>1. ~Waiting /\ ~Waiting'
    BY <1>5 DEF Finish, Waiting, HandshakeInv, HandshakesTypeOK, LatencyTurn,
                flags
  <2> QED BY <1>1, <2>1
<1> QED BY <1>2, <1>3, <1>4, <1>5 DEF Filling

(* The reader's look leaves the round where it is, its copy takes it.      *)
LEMMA CheckingHandsOver ==
  ASSUME HandshakeInv, Checking
  PROVE  [Handover!Take]_<<IF Waiting THEN <<region[0]>> ELSE <<>>,
                           IF NoLock THEN 0 ELSE copy[0]>>
<1> USE HandshakesAssumption DEF Latency, Semaphores, NoLock
<1> DEFINE q == IF Waiting THEN <<region[0]>> ELSE <<>>
<1> DEFINE l == IF NoLock THEN 0 ELSE copy[0]
<1>1. CASE StartReading
  <2>1. Waiting' = Waiting
    BY <1>1 DEF StartReading, MayCheck, Waiting, HandshakeInv,
                HandshakesTypeOK, LatencyTurn, SemaphoreTurn, Idle, filler
  <2> QED BY <1>1, <2>1 DEF StartReading
<1>2. CASE ReadPart
  <2>1. CASE NoLock \/ ~(Latency \/ Semaphores)
    <3>1. ~Waiting /\ ~Waiting' /\ l' = l
      BY <1>2, <2>1 DEF ReadPart, Waiting, HandshakeInv, LoopInv, Idle
    <3> QED BY <3>1
  <2>2. CASE Latency \/ Semaphores
    <3>1. Waiting /\ ~Waiting' /\ copy'[0] = region[0]
      BY <1>2, <2>2 DEF ReadPart, Waiting, HandshakeInv, HandshakesTypeOK,
                        LoopInv, LatencyTurn, SemaphoreTurn, flags, filler
    <3>2. q = <<region[0]>> /\ q' = <<>> /\ l' = region[0]
      BY <1>2, <2>2, <3>1 DEF ReadPart
    <3>3. q # <<>> /\ l' = Head(q) /\ q' = Tail(q)
      BY <3>2
    <3>4. Handover!Take
      BY <3>3 DEF Handover!Take
    <3> QED BY <3>4
  <2> QED BY <2>1, <2>2
<1>3. CASE Verdict
  <2>1. Waiting' = Waiting
    BY <1>3 DEF Verdict, Waiting, HandshakeInv, HandshakesTypeOK
  <2> QED BY <1>3, <2>1 DEF Verdict
<1> QED BY <1>1, <1>2, <1>3 DEF Checking

(* latency_test and shm_comm implement a queue of one round: every round   *)
(* reaches the reader once, in order, and the writer never fills the       *)
(* region while a round waits in it.                                       *)
THEOREM HandshakesImplementFifo == HandshakesSpec => HandshakeIsFifo
<1> DEFINE q == IF Waiting THEN <<region[0]>> ELSE <<>>
<1> DEFINE l == IF NoLock THEN 0 ELSE copy[0]
<1>1. UNCHANGED handshake_vars => UNCHANGED <<q, l>>
  BY DEF handshake_vars, flags, filler, checker, Waiting, Latency, Semaphores,
         NoLock
<1>2. HandshakeInv /\ [HandshakesNext]_handshake_vars
        => [Handover!Put \/ Handover!Take]_<<q, l>>
  BY <1>1, FillingHandsOver, CheckingHandsOver DEF HandshakesNext
<1> QED BY <1>2, HandoverInit, HandshakeInvariant, PTL
        DEF HandshakesSpec, HandshakeIsFifo, Handover!FifoSpec
=============================================================================
