\* The hub goes down and is started again during a session.
SPECIFICATION HistorySpec
CONSTANTS
  hub = hub  n1 = n1
  e0 = e0  e1 = e1
  emulator = emulator
  Hosts = {hub, n1}
  Hub = hub
  Devices = {e1}
  HostOf <- Attached
  UdidOf <- OneUdid
  Within <- Apart
  MaxPlugs = 1
  MaxCrashes = 1
  MaxShared = 2
  Env = {"hub"}
INVARIANT
  SecondAfterRelease
