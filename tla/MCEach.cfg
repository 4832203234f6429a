SPECIFICATION FairSpec
CONSTANTS
  DBG = TRUE
  Mapped = 64
  CodeBase = 2
  DataBase = 30
  StackBase = 46
  CodeSize = 24
  DataSize = 12
  StackSize = 6
  Heaps <- OneHeap
  INSTR <- PolictfINSTR
  FlagWords = {0, 65535}
  ObjectWords = {6, 65535}
  Programs <- EachInstruction
  CodeBuffers = {}
  DataBuffers = {}
  StackBuffers = {}
INVARIANT VMTypeOK
PROPERTIES SectionsIsolated ControlRegisters MovesOn RunReturns
CONSTRAINT StackWindow
CHECK_DEADLOCK FALSE
