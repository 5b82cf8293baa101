\* A sender holds an address while the host gives the page to another channel.
CONSTANTS
  DATA_SECTION_SIZE = 9
  IVSHMEM_PAGE_SIZE = 1
  IVSHMEM_CHANNEL_INIT_SIZE = 2
  IVSHMEM_MAX_CHANNELS = 2
  w1 = w1
  w2 = w2
  r1 = r1
  Writers = {w1, w2}
  Readers = {}
  ClientKey <- MCClientKey
  MaxStarts = 1
  MaxMallocFails = 0
  Length = 3
  Size <- MCSize
  MaxSeq = 2
SPECIFICATION Spec
INVARIANT Isolation
