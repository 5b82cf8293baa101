\* A peer that comes and goes, a server that restarts and offers one vector
\* more than a record holds; everything stops when the bounds are used up.
CONSTANTS
  Me = 3
  Others = {1}
  IVSHMEM_CLIENT_MAX_VECTORS = 2
  VectorCounts = {2, 3}
  MaxStarts = 2
  MaxJoins = 2
  MaxConnects = 2
  MaxAllocFails = 1
SPECIFICATION DoorbellFairSpec
INVARIANTS
  DoorbellTypeOK
  HeldAreOpen
  OneLostPerConnection
  ViewFollowsServer
PROPERTIES
  CatchesUp
  RingsHandled
CHECK_DEADLOCK FALSE
