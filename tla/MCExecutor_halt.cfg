CONSTANTS
  State = {1, 2, 3}
  InitialState = 2
  Input = {i1, i2}
  Seed = {a}
  MaxForks = 2
  MaxDepth = 2
  MemoryCap = TRUE
  MaxMemoryInhibit = TRUE
  OnlyReplaySeeds = FALSE
  OnlySeed = FALSE
  DumpStatesOnHalt = TRUE
  UnreadableStrings = TRUE
  SymbolicCalls = TRUE
SPECIFICATION Spec
PROPERTIES HaltEnds
CHECK_DEADLOCK FALSE
