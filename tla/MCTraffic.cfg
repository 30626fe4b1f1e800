\* A command, a DELETE and its retry, and a DELETE of the hub's own session; or a
\* test and its hook in one session and a test in the other.  With all of Env.
SPECIFICATION FairSpec
CONSTANTS
  remote = remote  own = own
  look = look  quit = quit  retry = retry  ownQuit = ownQuit
  test = test  hook = hook  other = other
  Sessions = {remote, own}
  Commands = {look, quit, retry, ownQuit}
  Events = {test, hook, other}
  SessionOf <- MCSessionOf
  Deletes = {quit, retry, ownQuit}
  Own = {own}
  Middlewares = 1
  Apart = TRUE
  Env = {"throw", "down", "disk", "reap", "db", "reorder"}
CHECK_DEADLOCK FALSE
INVARIANTS
  TrafficTypeOK
  CommandsReachTheirHost
  RememberedIsRunning
PROPERTIES
  EveryCommandAnswered
  DeleteFreesDevice
  EndIsRecorded
