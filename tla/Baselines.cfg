\* One program at a time; the lock-based ones are killed twice.  latency_test
\* comes to an end, so the system may stop.
CONSTANTS
  s1 = s1
  r1 = r1
  Nobody = Nobody
  Senders = {s1}
  Receivers = {r1}
  SenderOf <- MCSenderOf
  Vm <- MCVm
  Chunks = 3
  Counters = 3
  MaxDeaths = 2
  Programs = {"lock_base", "latency_test", "shm_comm", "no_lock_test"}
  Parts = 3
  Rounds = 3
SPECIFICATION BaselinesSpec
INVARIANTS
  MutualExclusion
  ChunksInStep
  AlarmIsRace
PROPERTIES
  LockProgramsFlow
  LockIsFifo
  HandshakeIsFifo
  RoundsFlow
CHECK_DEADLOCK FALSE
