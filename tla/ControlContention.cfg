\* Two writers compete for the mailbox of a host that does not fail.
CONSTANTS
  DATA_SECTION_SIZE = 4192224
  IVSHMEM_PAGE_SIZE = 4096
  IVSHMEM_CHANNEL_INIT_SIZE = 16384
  IVSHMEM_MAX_CHANNELS = 3
  w1 = w1
  w2 = w2
  r1 = r1
  Writers = {w1, w2}
  Readers = {r1}
  ClientKey <- MCClientKey
  MaxStarts = 1
  MaxMallocFails = 0
SPECIFICATION ControlSpec
INVARIANTS
  ControlTypeOK
  BuffersDisjoint
  PointersMatch
PROPERTIES
  TableGrows
  SkipOnlyWhenBalanced
  BalancedWithReserve
