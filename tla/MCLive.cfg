\* Two requests, one of them for a given device; everything may fail that fails by
\* itself; every client ends at some time.
SPECIFICATION FairClientsSpec
CONSTANTS
  r1 = r1  r2 = r2  r3 = r3
  d1 = d1  d2 = d2  d3 = d3
  l1 = l1  l2 = l2
  Requests = {r1, r2}
  Devices = {d1, d2}
  Locks = {l1}
  NoRequest = NoRequest
  NoDevice = NoDevice
  LockOf <- OneLock
  Match <- MatchUdid
  ByUdid = {r2}
  Remote = {d1}
  MaxSessions = 1
  MaxDeletes = 1
  Env = {"throw", "crash", "report", "block", "idle", "quit", "stale", "disk"}
INVARIANTS
  OneAllocatorPerLock
  SessionRowSound
  PendingIsUnanswered
PROPERTIES
  EveryRequestAnswered
  PendingCleared
  EveryLeaseEnds
