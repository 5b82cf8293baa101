\* Two threads, the device and the hook loaded, one of them a second time, and
\* one failure; the threads stop after MaxCalls calls.
CONSTANTS
  t1 = t1
  t2 = t2
  Nobody = Nobody
  Threads = {t1, t2}
  Requests <- MCRequests
  MIN_VALID_OFFSET = 4096
  MAX_ALLOWED_MMAP_SIZE = 2097152
  LimitMapSize = 4096
  MEM_SIZE = 4194304
  MaxCalls = 2
  MaxLoads = 3
  MaxFails = 1
SPECIFICATION HookFairSpec
INVARIANTS
  LockedByACall
  GuardsLoneCalls
  NoRehook
  MemoryOutlivesMappings
  RecursionBounded
PROPERTY CallsReturn
CHECK_DEADLOCK FALSE
