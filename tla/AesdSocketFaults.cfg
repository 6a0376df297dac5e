CONSTANTS
  Client = {c1, c2}
  Tick = {t1}
  NULL = NULL
  Builds = {"device", "file"}
  Inputs <- MCInputs
  Capacity = 1
  MaxFd = 7
  Argvs <- MCArgvs
  Faults <- MCFaults
SPECIFICATION Spec
CHECK_DEADLOCK FALSE
SYMMETRY Symmetric
INVARIANTS
  TypeOK
  EchoIsSnapshot
  DescriptorsStayWithTheirThread
  ListHoldsThreads
  ExitReleasesEverything
PROPERTY
  RemovedForGood
