CONSTANTS
  State = {1, 2, 3}
  InitialState = 2
  Input = {i1, i2, i3}
  Seed = {}
  MaxForks <- Off
  MaxDepth = 0
  MemoryCap = TRUE
  MaxMemoryInhibit = TRUE
  OnlyReplaySeeds = FALSE
  OnlySeed = FALSE
  DumpStatesOnHalt = TRUE
  UnreadableStrings = FALSE
  SymbolicCalls = FALSE
SPECIFICATION Spec
INVARIANTS RemovedOnce
CHECK_DEADLOCK FALSE
