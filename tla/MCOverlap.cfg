\* An idle session is reaped while its client deletes it.
SPECIFICATION Spec
CONSTANTS
  r1 = r1  r2 = r2  r3 = r3
  d1 = d1  d2 = d2  d3 = d3
  l1 = l1  l2 = l2
  Requests = {r1, r2}
  Devices = {d1}
  Locks = {l1}
  NoRequest = NoRequest
  NoDevice = NoDevice
  LockOf <- OneLock
  Match <- MatchAll
  ByUdid = {}
  Remote = {}
  MaxSessions = 2
  MaxDeletes = 1
  Env = {"overlap", "idle"}
INVARIANT
  CreationKeepsDevice
