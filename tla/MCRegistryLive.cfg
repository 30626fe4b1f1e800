\* Everything may fail: what the repeated lists and pings repair.
SPECIFICATION FairSpec
CONSTANTS
  hub = hub  n1 = n1
  e0 = e0  e1 = e1
  emulator = emulator
  Hosts = {hub, n1}
  Hub = hub
  Devices = {e1}
  HostOf <- Attached
  UdidOf <- OneUdid
  Within <- Apart
  MaxPlugs = 2
  MaxCrashes = 1
  MaxShared = 2
  Env = {"post", "ping", "adb", "replug", "node", "hub", "silent"}
PROPERTIES
  PluggedIsListed
  DeadNodeGoes
