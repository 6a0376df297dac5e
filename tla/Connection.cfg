CONSTANTS
  BUFLEN = 3
  IntBits = 4
  LongBits = 6
  EMBED_CTRL_PREF <- MCPrefix
  Chars <- MCChars
  MaxStream = 6
  Commands <- MCCommands
  Unfinished <- MCUnfinished
  MaxErrors = 1
  Faults = {"malloc", "reallocarray", "recv", "fwrite", "getline", "send", "sigpipe"}
SPECIFICATION Spec
CHECK_DEADLOCK FALSE
INVARIANTS
  TypeOK
  LineIsFirstLine
  SeekAsDocumented
  AnswerArrives
  TrueMeansSent
