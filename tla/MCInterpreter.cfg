SPECIFICATION Spec
CONSTANTS
    Byte = 2
    Word = 8
    Half = 4
    SymBytes = 2
    Huge = 40
    Available = 30
    Small = 4
    MaxFrames = 4
    FpWidths = {4, 8}
    FpArith <- MCFpArith
    FpOrder <- MCFpOrder
    Programs <- MCPrograms
    Options <- MCOptions
INVARIANTS OutcomesRight StatesSound
PROPERTIES EveryPathEnds
