CONSTANTS
  State = {1, 2, 3}
  InitialState = 2
  Input = {i1, i2, i3}
  Seed = {a, b}
  MaxForks = 2
  MaxDepth = 2
  MemoryCap = FALSE
  MaxMemoryInhibit = TRUE
  OnlyReplaySeeds = TRUE
  OnlySeed = FALSE
  DumpStatesOnHalt = TRUE
  UnreadableStrings = FALSE
  SymbolicCalls = FALSE
SPECIFICATION Spec
INVARIANTS InputsKept SearcherInSync RemovedOnce SeedsSound
PROPERTIES SeedsKept SeedsTakeTurns PoolSpec
CHECK_DEADLOCK FALSE
