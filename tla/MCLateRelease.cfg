\* A device is allocated again before its last session's forwarding is released.
SPECIFICATION FairSpec
CONSTANTS
  s1 = s1  s2 = s2
  d1 = d1  d2 = d2
  Sessions = {s1, s2}
  Devices = {d1, d2}
  Ports = {8100, 8101}
  None = None
  Foreign = Foreign
  Env = {"reuse"}
PROPERTIES
  ReleasesSpareOthers
