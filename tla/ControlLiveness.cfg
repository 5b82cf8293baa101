\* Two writers, a table with one slot, a host that dies and runs out of memory.
CONSTANTS
  DATA_SECTION_SIZE = 4192224
  IVSHMEM_PAGE_SIZE = 4096
  IVSHMEM_CHANNEL_INIT_SIZE = 16384
  IVSHMEM_MAX_CHANNELS = 1
  w1 = w1
  w2 = w2
  r1 = r1
  Writers = {w1, w2}
  Readers = {}
  ClientKey <- MCClientKey
  MaxStarts = 2
  MaxMallocFails = 1
SPECIFICATION ControlFairSpec
PROPERTIES
  ImplementsTable
  RequestReturns
  SectionUnlocked
