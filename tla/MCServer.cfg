SPECIFICATION FairSpec
CONSTANTS
  DBG = FALSE
  Mapped = 64
  CodeBase = 2
  DataBase = 30
  StackBase = 46
  CodeSize = 24
  DataSize = 8
  StackSize = 6
  Heaps <- Zeros
  INSTR <- PolictfINSTR
  FlagWords = {0}
  ObjectWords = {0}
  Codes <- ServerCodes
  Solutions <- ServerSolutions
  EN_DATASECTION <- Encrypted
  decdatasec <- Text
  Uninitialised = {0, 7}
INVARIANTS TypeOK RunsWhatWasSent FlagEarned
PROPERTY SessionEnds
CHECK_DEADLOCK FALSE
