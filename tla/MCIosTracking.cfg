\* Both trackers, and everything that may go wrong with them.
SPECIFICATION FairSpec
CONSTANTS
  u1 = u1 u2 = u2
  Udids = {u1, u2}
  Body = 2
  Beyond = 99
  MaxId = 2
  MaxListings = 2
  Env = {"usbmux", "goios", "cut", "noise", "pair", "lost", "info", "quick"}
CHECK_DEADLOCK FALSE
INVARIANTS
  IosTypeOK
  NothingMissing
  DevicesMirrorUsbmuxd
  TableFollowsDevices
PROPERTIES
  ImplementsChannel
  AttachedIsListed
