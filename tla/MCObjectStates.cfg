CONSTANTS
  Size = 2
  Byte = {0, 1, 171}
  Input = {i1, i2}
  RandomByte = 171
  Null = Null
SPECIFICATION Spec
SYMMETRY InputSymmetry
INVARIANTS BytesExact
