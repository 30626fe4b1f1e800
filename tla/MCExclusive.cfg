\* Three requests under two lock names compete for two devices; releases
\* overlap, steps after the block fail, clients fall silent, the dashboard's user
\* frees devices in use.
SPECIFICATION HistorySpec
CONSTANTS
  r1 = r1  r2 = r2  r3 = r3
  d1 = d1  d2 = d2
  l1 = l1  l2 = l2
  Requests = {r1, r2, r3}
  Devices = {d1, d2}
  Locks = {l1, l2}
  NoRequest = NoRequest
  NoDevice = NoDevice
  LockOf <- TwoLocks
  Match <- MatchAll
  ByUdid = {}
  Remote = {}
  MaxSessions = 1
  MaxDeletes = 1
  Env = {"throw", "overlap", "idle", "unblock"}
SYMMETRY Symmetry
INVARIANTS
  TypeOK
  ExclusiveAllocation
  LimitUnlessCrowded
PROPERTIES
  OnlyOwnRelease
  ImplementsLease
