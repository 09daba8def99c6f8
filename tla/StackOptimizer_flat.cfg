SPECIFICATION Spec
CONSTANTS
    v1 = v1
    v2 = v2
    Val <- MCVal
    MaxDepth = 5
    MaxArgs = 2
    MaxNest = 0
    Rewrites <- All
    SilentCalls = FALSE
    RandSeed = FALSE
SYMMETRY Symmetry
VIEW View
INVARIANTS
    TypeOK
    SegmentInside
    SameStack
    SameArguments
    EmitsWellFormed
