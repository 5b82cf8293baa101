\* The flag goes up before the key is there: the key of the last request is
\* served again.
CONSTANTS
  DATA_SECTION_SIZE = 4192224
  IVSHMEM_PAGE_SIZE = 4096
  IVSHMEM_CHANNEL_INIT_SIZE = 16384
  IVSHMEM_MAX_CHANNELS = 3
  w1 = w1
  w2 = w2
  r1 = r1
  Writers = {w1, w2}
  Readers = {}
  ClientKey <- MCClientKey
  MaxStarts = 1
  MaxMallocFails = 0
SPECIFICATION ControlSpec
INVARIANT DedicatedChannels
