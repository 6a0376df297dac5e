CONSTANTS
  Paths <- MCPaths
  Faults = {"system", "open", "fork", "waitpid", "dup2", "execv"}
SPECIFICATION Spec
CHECK_DEADLOCK FALSE
INVARIANTS
  ResultTellsOutcome
  OnlyParentGoesOn
  OutputFileClosed
  NameIsLastComponent
