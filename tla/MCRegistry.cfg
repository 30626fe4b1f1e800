\* Two emulators with one udid; the node's address is part of the hub's URL.
\* Everything may fail.
SPECIFICATION HistorySpec
CONSTANTS
  hub = hub  n1 = n1
  e0 = e0  e1 = e1
  emulator = emulator
  Hosts = {hub, n1}
  Hub = hub
  Devices = {e0, e1}
  HostOf <- Attached
  UdidOf <- OneUdid
  Within <- Contained
  MaxPlugs = 1
  MaxCrashes = 1
  MaxShared = 2
  Env = {"post", "ping", "adb", "node", "hub", "silent"}
INVARIANTS
  RegistryTypeOK
  
