CONSTANTS
  MAX_WRITE_OPERATIONS = 3
  NULL = NULL
  Ptr = {p1, p2}
  Sizes = {0, 1, 3}
SPECIFICATION Spec
INVARIANTS
  TypeOK
  IndexDiscipline
  FindAgreesWithConcatenation
  SizeIsReachable
PROPERTY
  ImplementsBoundedLog
