CONSTANTS
  State = {s0, s1, s2, s3}
  InitialState = s0
  Handler = {h1, h2}
  Point = {p1, p2}
  Input = {i1, i2, i3, i4}
  PointerCalls = FALSE
SPECIFICATION BoundedSpec
INVARIANTS HandlersExact NobodyLost SomebodyRuns InputsKept
PROPERTIES PoolSpec
SYMMETRY MergeSymmetry
CHECK_DEADLOCK FALSE
