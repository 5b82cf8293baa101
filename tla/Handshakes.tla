----------------------------- MODULE Handshakes -----------------------------
(***************************************************************************)
(* Three test programs in which one process fills a region of shared       *)
(* memory over and over and another one reads it: latency_test (a sequence *)
(* number and its echo), shm_comm (two semaphores) and no_lock_test        *)
(* (nothing but the first byte of the region).  The loops are alike; what  *)
(* differs is what each side waits for and what it does when it is done.   *)
(***************************************************************************)
EXTENDS Integers

CONSTANTS
  Programs,   \* the programs that may be run, one at a time
  Parts,      \* pieces in which filling or copying the region is seen
  Rounds      \* ITERATIONS of latency_test; bound: where the others wrap

ASSUME HandshakesAssumption == {Parts, Rounds} \subseteq Nat \ {0, 1}

VARIABLES
  program,
  region,             \* the data, by piece
  seq, ack,           \* latency_test's struct shm_region
  sem_w, sem_r,       \* shm_comm's semaphores
  w_at, w_seq, w_part,
  r_at, r_part,
  r_last,             \* last_seen, expected, prev_counter
  copy,               \* what the reader copied
  raced               \* history: a round was half written when the reader
                      \* looked, or the region was written since then

flags == <<seq, ack, sem_w, sem_r>>
filler == <<w_at, w_seq, w_part>>
checker == <<r_at, r_part, r_last, copy>>
handshake_vars == <<program, region, flags, filler, checker, raced>>

Latency == program = "latency_test"
Semaphores == program = "shm_comm"
NoLock == program = "no_lock_test"

HandshakesInit ==
  /\ program \in Programs
  /\ region = [i \in 0 .. Parts - 1 |-> 0]
  /\ seq = 0 /\ ack = 0
  /\ sem_w = 1 /\ sem_r = 0
  /\ w_at = "wait" /\ w_part = 0
  /\ w_seq = IF Latency THEN 1 ELSE 0
  /\ r_at = "wait" /\ r_part = 0
  /\ r_last = IF NoLock THEN -1 ELSE 0
  /\ copy = [i \in 0 .. Parts - 1 |-> 0]
  /\ raced = FALSE

-----------------------------------------------------------------------------
(* The process that writes.                                                *)

\* mutant: nobody waits for the reader
MayFillAlways == Latency \/ Semaphores \/ NoLock

(* latency_test waits for the echo of the round before, shm_comm for a     *)
(* semaphore, no_lock_test for no one.                                     *)
MayFill ==
  \/ Latency /\ ack = w_seq - 1 /\ w_seq <= Rounds
  \/ Semaphores /\ sem_w > 0
  \/ NoLock

StartFilling ==
  /\ w_at = "wait"
  /\ MayFill
  /\ sem_w' = IF Semaphores THEN sem_w - 1 ELSE sem_w
  /\ w_at' = "fill"
  /\ w_part' = 0
  /\ UNCHANGED <<program, region, seq, ack, sem_r, w_seq, checker, raced>>

\* What latency_test transfers is one word.
LastPart == IF Latency THEN 0 ELSE Parts - 1

\* mutant: the last piece is left out
FillPartShort ==
  /\ w_at = "fill"
  /\ region' = [region EXCEPT ![w_part] = w_seq]
  /\ w_part' = w_part + 1
  /\ w_at' = IF w_part >= LastPart - 1 THEN "signal" ELSE "fill"
  /\ raced' = TRUE
  /\ UNCHANGED <<program, flags, w_seq, checker>>

FillPart ==
  /\ w_at = "fill"
  /\ region' = [region EXCEPT ![w_part] = w_seq]
  /\ w_part' = w_part + 1
  /\ w_at' = IF w_part = LastPart THEN "signal" ELSE "fill"
  /\ raced' = TRUE
  /\ UNCHANGED <<program, flags, w_seq, checker>>

SignalFilled ==
  /\ w_at = "signal"
  /\ seq' = IF Latency THEN w_seq ELSE seq
  /\ sem_r' = IF Semaphores THEN sem_r + 1 ELSE sem_r
  /\ w_seq' = IF Latency THEN w_seq + 1 ELSE (w_seq + 1) % Rounds
  /\ w_at' = "wait"
  /\ UNCHANGED <<program, region, ack, sem_w, w_part, checker, raced>>

\* latency_test ends and takes its reader with it.
Finish ==
  /\ Latency
  /\ w_at = "wait" /\ w_seq > Rounds /\ ack = Rounds
  /\ w_at' = "done" /\ r_at' = "done"
  /\ UNCHANGED <<program, region, flags, w_seq, w_part, r_part, r_last, copy,
                 raced>>

-----------------------------------------------------------------------------
(* The process that reads.                                                 *)

MayCheck ==
  \/ Latency /\ seq # r_last
  \/ Semaphores /\ sem_r > 0
  \/ NoLock /\ region[0] # r_last

StartReading ==
  /\ r_at = "wait"
  /\ MayCheck
  /\ sem_r' = IF Semaphores THEN sem_r - 1 ELSE sem_r
  /\ r_last' = IF Latency THEN seq ELSE IF NoLock THEN region[0] ELSE r_last
  /\ raced' = (w_at = "fill" /\ w_part > 0)
  /\ r_at' = "read"
  /\ r_part' = 0
  /\ UNCHANGED <<program, region, seq, ack, sem_w, filler, copy>>

\* shm_comm looks at the sequence number only.
ReadPart ==
  /\ r_at = "read"
  /\ copy' = [copy EXCEPT ![r_part] = region[r_part]]
  /\ r_part' = r_part + 1
  /\ r_at' = IF NoLock /\ r_part < Parts - 1 THEN "read" ELSE "verdict"
  /\ UNCHANGED <<program, region, flags, filler, r_last, raced>>

\* mutant: the writer is not told
VerdictUnsaid ==
  /\ r_at = "verdict"
  /\ r_last' = IF Semaphores THEN (copy[0] + 1) % Rounds ELSE r_last
  /\ r_at' = "wait"
  /\ UNCHANGED <<program, region, flags, filler, r_part, copy, raced>>

(* The copy is compared with r_last and the other side told.  Mismatch or  *)
(* not, shm_comm expects the successor of what it saw.                     *)
Verdict ==
  /\ r_at = "verdict"
  /\ ack' = IF Latency THEN r_last ELSE ack
  /\ sem_w' = IF Semaphores THEN sem_w + 1 ELSE sem_w
  /\ r_last' = IF Semaphores THEN (copy[0] + 1) % Rounds ELSE r_last
  /\ r_at' = "wait"
  /\ UNCHANGED <<program, region, seq, sem_r, filler, r_part, copy, raced>>

Filling == StartFilling \/ FillPart \/ SignalFilled \/ Finish
Checking == StartReading \/ ReadPart \/ Verdict

HandshakesNext == Filling \/ Checking

HandshakesSpec == HandshakesInit /\ [][HandshakesNext]_handshake_vars

-----------------------------------------------------------------------------
(* Types; the semaphores stay binary.                                      *)
HandshakesTypeOK ==
  /\ program \in Programs
  /\ region \in [0 .. Parts - 1 -> 0 .. Rounds]
  /\ {seq, ack} \subseteq 0 .. Rounds
  /\ {sem_w, sem_r} \subseteq {0, 1}
  /\ w_at \in {"wait", "fill", "signal", "done"}
  /\ w_seq \in 0 .. Rounds + 1
  /\ w_part \in 0 .. Parts
  /\ r_at \in {"wait", "read", "verdict", "done"}
  /\ r_part \in 0 .. Parts
  /\ r_last \in -1 .. Rounds
  /\ copy \in [0 .. Parts - 1 -> 0 .. Rounds]
  /\ raced \in BOOLEAN

(* no_lock_test reports "Data corruption detected" only when a copy of the *)
(* writer was under way while it looked: the region was half written, by a *)
(* writer that goes on or has stopped there, when the reader saw the first *)
(* byte, or was written before the end of the reader's copy.  A writer     *)
(* that is between two rounds, or about to write, is no reason.            *)
AlarmIsRace ==
  NoLock /\ r_at = "verdict" /\ (\E i \in 0 .. Parts - 1 : copy[i] # r_last)
    => raced

(* The two programs that wait for each other hand over every round, in     *)
(* order and once: a queue of one.  The writer never fills the region      *)
(* while it is read, and shm_comm reports no mismatch.                     *)
Waiting ==
  \/ Latency /\ (seq # r_last \/ r_at = "read")
  \/ Semaphores /\ (sem_r = 1 \/ r_at = "read")

Handover == INSTANCE PageFifo
              WITH Pages <- 0 .. Rounds, Capacity <- 1,
                   queue <- IF Waiting THEN <<region[0]>> ELSE <<>>,
                   last <- IF NoLock THEN 0 ELSE copy[0]
HandshakeIsFifo == Handover!FifoSpec

(* latency_test comes to its end and shm_comm goes on and on.              *)
RoundsFlow ==
  /\ Latency => <>(w_at = "done")
  /\ Semaphores =>
       \A m \in 0 .. Rounds - 1 : r_last = m ~> r_last = (m + 1) % Rounds
=============================================================================
