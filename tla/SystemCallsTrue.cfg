CONSTANTS
  Paths <- MCPaths
  Faults = {}
SPECIFICATION Spec
CHECK_DEADLOCK FALSE
INVARIANT
  TrueOnlyOnSuccess
