CONSTANTS
  Node = {root, n1, n2, n3, n4}
  State = {s0, s1, s2}
  Root = root
  InitialState = s0
  Null = null
SPECIFICATION Spec
INVARIANTS TreeSound EveryStateReachable
PROPERTIES LoopsEnd PoolSpec
CHECK_DEADLOCK FALSE
