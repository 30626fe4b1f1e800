\* Two sessions on two devices and two ports, with everything in Env: whose end
\* closes whose port, and what ends.
SPECIFICATION FairHistorySpec
CONSTANTS
  s1 = s1  s2 = s2  s3 = s3
  d1 = d1  d2 = d2
  Sessions = {s1, s2}
  Devices = {d1, d2}
  Ports = {8100, 8101}
  None = None
  Foreign = Foreign
  Env = {"reuse", "samePort", "foreign", "novideo", "fail"}
INVARIANTS
  ForwardingTypeOK
  SocketsMatchMapping
  SessionHasPort
PROPERTIES
  SparedUnlessOvertaking
  EveryRequestSettles
  EveryDeleteCloses
