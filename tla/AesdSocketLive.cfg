CONSTANTS
  Client = {c1, c2}
  Tick = {}
  NULL = NULL
  Builds = {"device"}
  Inputs <- MCLines
  Capacity = 1
  MaxFd = 6
  Argvs <- MCDaemon
  Faults <- MCNoFaults
SPECIFICATION FairSpec
CHECK_DEADLOCK FALSE
PROPERTIES
  ClientsAreAccepted
  ConnectionsEnd
  StopEndsServerUnlessHeldUp
