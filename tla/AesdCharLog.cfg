CONSTANTS
  MAX_WRITE_OPERATIONS = 2
  NULL = NULL
  a = a
  Proc = {p1, p2}
  Ptr = {q1, q2, q3}
  FREE = FREE
  Chars = {a}
  NL = NL
  NUL = NUL
  JUNK = JUNK
  Payloads <- MCPayloadsOrNothing
  Counts = {2}
  Offsets <- MCOffsets
  Whences = {"SEEK_END"}
  WriteCmds = {1}
  CmdOffsets = {0}
  Faults = {"kzalloc", "copy"}
  StrayBytes = {a}
  NoOne = NoOne
  Idle = Idle
  MaxPos = 1
  MaxPartial = 2
SPECIFICATION Spec
SYMMETRY Symmetric
INVARIANTS
  EntriesOwnTheirBlocks
  AccessesInBounds
  CountedBytesAreStored
PROPERTIES
  ImplementsCommandDevice
  SeekLandsWhileOldestIsFirst
