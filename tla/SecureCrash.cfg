\* The host dies at any point and starts again under clients that hold a
\* p_chan; both clients may be killed, so the system may stop.
CONSTANTS
  DATA_SECTION_SIZE = 6
  IVSHMEM_PAGE_SIZE = 1
  IVSHMEM_CHANNEL_INIT_SIZE = 2
  IVSHMEM_MAX_CHANNELS = 1
  w1 = w1
  w2 = w2
  r1 = r1
  Writers = {w1}
  Readers = {r1}
  ClientKey <- MCClientKey
  MaxStarts = 2
  MaxMallocFails = 1
  Length = 2
  Size <- MCSize
  MaxSeq = 4
SPECIFICATION Spec
INVARIANTS
  FaultOnlyAfterRestart
  ControlInv
CHECK_DEADLOCK FALSE
