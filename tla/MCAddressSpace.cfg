CONSTANTS
  State = {s0, s1, s2}
  InitialState = s0
  Object = {m1, k}
  Constant = {k}
  Address = {a1, a2, a3, a4, a5}
  Contents = {c1, c2}
  Null = Null
  Unbound = Unbound
  Dead = Dead
  MaxKey = 3
SPECIFICATION Spec
SYMMETRY Symmetry
INVARIANTS OwnershipSound FoundIsCurrent
PROPERTIES PrivateSpec
CHECK_DEADLOCK FALSE
