CONSTANTS
  MAX_WRITE_OPERATIONS = 2
  NULL = NULL
  a = a
  Proc = {p1, p2}
  Ptr = {q1, q2, q3}
  FREE = FREE
  Chars = {a}
  NL = NL
  NUL = NUL
  JUNK = JUNK
  Payloads <- MCCommands
  Counts = {2}
  Offsets <- MCOffsets
  Whences = {"SEEK_SET"}
  WriteCmds = {1, 2}
  CmdOffsets = {0, 1}
  Faults = {}
  StrayBytes = {a}
  NoOne = NoOne
  Idle = Idle
  MaxPos = 2
  MaxPartial = 2
SPECIFICATION Spec
SYMMETRY Symmetric
PROPERTY
  SeekLandsOnCommand
