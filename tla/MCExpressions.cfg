SPECIFICATION Spec
CONSTANTS
    ByteWidth = 2
    RangeBits = 8
    DivBits = 4
    Arrays = {"x", "t"}
    ArraySize <- SizeOf
    Contents <- ContentsOf
    NoArray = "none"
    ConstArrayOpt = TRUE
    RewriteEqualities = TRUE
    Null = Null
    MaxCalls = 2
    MaxConstraints = 3
INVARIANTS RewritingSound EvaluationSound PathSound FastSolverSound BackendsSound
CHECK_DEADLOCK FALSE
