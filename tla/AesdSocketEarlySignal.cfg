CONSTANTS
  Client = {c1}
  Tick = {}
  NULL = NULL
  Builds = {"device"}
  Inputs <- MCLines
  Capacity = 1
  MaxFd = 4
  Argvs <- MCDaemon
  Faults <- MCNoFaults
SPECIFICATION PromptClientsSpec
CHECK_DEADLOCK FALSE
PROPERTY
  SignalEndsServer
