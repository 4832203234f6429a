SPECIFICATION Spec
CONSTANTS
  DBG = FALSE
  Mapped = 64
  CodeBase = 2
  DataBase = 30
  StackBase = 46
  CodeSize = 24
  DataSize = 12
  StackSize = 6
  Heaps <- OneHeap
  INSTR <- PolictfINSTR
  FlagWords = {0}
  ObjectWords = {6}
  Programs <- PopEmpty
  CodeBuffers = {}
  DataBuffers = {}
  StackBuffers = {}
PROPERTY NeverBelowZero
CONSTRAINT StackWindow
CHECK_DEADLOCK FALSE
