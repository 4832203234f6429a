SPECIFICATION ToolchainSpec
CONSTANTS
  DBG = FALSE
  Sources <- ToolchainSources
  opcodes <- PolictfOpcodes
  casefold <- lower
  Mapped = 376
  CodeBase = 2
  DataBase = 266
  StackBase = 348
  CodeSize = 262
  DataSize = 80
  StackSize = 24
  Heaps <- Zeros
  INSTR <- PolictfINSTR
  FlagWords = {0}
  ObjectWords = {6}
  Inputs <- ToolchainInputs
INVARIANTS TypeOK InPlace SymbolsBound JumpsLand AsWritten ClientBytecode SameAsC
CONSTRAINT StackWindow
CHECK_DEADLOCK FALSE
