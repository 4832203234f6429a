SPECIFICATION Spec
CONSTANTS
  DBG = FALSE
  Mapped = 64
  CodeBase = 2
  DataBase = 30
  StackBase = 46
  CodeSize = 24
  DataSize = 12
  StackSize = 6
  Heaps <- FallThroughHeaps
  INSTR <- PolictfINSTR
  FlagWords = {0}
  ObjectWords = {6}
  Programs <- StackAndHostPrograms
  CodeBuffers <- HostCode
  DataBuffers <- HostBuffers
  StackBuffers <- HostBuffers
INVARIANT RPInCode
PROPERTIES SectionsIsolated NothingComputedOutside StackSpec
CONSTRAINT StackWindow
ACTION_CONSTRAINT InsertsIntoHost
CHECK_DEADLOCK FALSE
