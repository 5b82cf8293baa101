\* Rings grow from two pages to six and shrink to three while a message of
\* three pages passes through them.
CONSTANTS
  DATA_SECTION_SIZE = 9
  IVSHMEM_PAGE_SIZE = 1
  IVSHMEM_CHANNEL_INIT_SIZE = 2
  IVSHMEM_MAX_CHANNELS = 2
  w1 = w1
  w2 = w2
  r1 = r1
  Writers = {w1, w2}
  Readers = {r1}
  ClientKey <- MCClientKey
  MaxStarts = 1
  MaxMallocFails = 0
  Length = 3
  Size <- MCSize
  MaxSeq = 3
SPECIFICATION Spec
CONSTRAINT Quiet
INVARIANTS
  QuietRebalancingIsTransparent
  QuietCopiesStayInside
