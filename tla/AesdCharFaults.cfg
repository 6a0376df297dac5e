CONSTANTS
  MAX_WRITE_OPERATIONS = 1
  NULL = NULL
  a = a
  Proc = {p1, p2}
  Ptr = {q1, q2}
  FREE = FREE
  Chars = {a}
  NL = NL
  NUL = NUL
  JUNK = JUNK
  Payloads <- MCNewlines
  Counts = {1}
  Offsets = {0}
  Whences = {"SEEK_SET", "SEEK_HOLE"}
  WriteCmds = {0, 1}
  CmdOffsets = {0}
  Faults = {"region", "kzalloc", "krealloc", "cdev", "copy"}
  StrayBytes = {a}
  NoOne = NoOne
  Idle = Idle
  MaxPos = 1
  MaxPartial = 1
SPECIFICATION FairSpec
INVARIANTS
  TypeOK
  LockDiscipline
  EntriesOwnTheirBlocks
  AccessesInBounds
PROPERTIES
  BlocksKeepAnOwner
  CallsReturn
