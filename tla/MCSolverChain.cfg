CONSTANTS
  Array = {"a", "b"}
  Size <- SizeOf
  Bytes = {0, 1}
  Input = {0, 1, 2, 3, 4, 5, 6, 7}
  Content <- ContentFor
  Paths <- PathSet
  Conditions <- ConditionSet
  Chains <- ChainSet
  Terms <- TermSet
  Order <- OrderSeq
  NoValue = NoValue
  ShmSize = 5
  Stale = 9
  NoSolution = NoSolution
  None = None
SPECIFICATION Spec
INVARIANTS CachesSound AnswersExact IndexExact
CHECK_DEADLOCK FALSE
