CONSTANTS
  Thread = {t1, t2, t3}
  NULL = NULL
  Faults = {"malloc", "pthread_create", "usleep", "lock", "unlock"}
SPECIFICATION FairSpec
CHECK_DEADLOCK FALSE
INVARIANTS
  ArgsHaveOneOwner
  SuccessMeansReleased
PROPERTY
  ThreadsReturn
