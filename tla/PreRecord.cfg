SPECIFICATION Spec
CONSTANTS
  Gop = 2
  Rate = 2
  PreTime = 1
  FileLen = 4
  SplitLen = 2
  PoolSize = 1
  Modes = {"NONE", "SINGLE"}
  MaxT <- MCMaxT
  MaxOps = 3
INVARIANTS FileInOrder FileWhole BuffersCounted
CHECK_DEADLOCK FALSE
