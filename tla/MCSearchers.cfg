CONSTANTS
  State = {s0, s1, s2}
  InitialState = s0
  Nobody = Nobody
  Searches <- AllSearches
  MaxLevel = 3
SPECIFICATION FairSpec
INVARIANTS SearchersSound BreadthFirst
PROPERTIES PoolSpec EverySearcherAsked
CHECK_DEADLOCK FALSE
