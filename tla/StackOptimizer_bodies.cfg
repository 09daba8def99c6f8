SPECIFICATION Spec
CONSTANTS
    v1 = v1
    v2 = v2
    Val <- MCVal
    MaxDepth = 3
    MaxArgs = 1
    MaxNest = 1
    Rewrites <- All
    SilentCalls = TRUE
    RandSeed = TRUE
SYMMETRY Symmetry
VIEW View
INVARIANTS
    ShadowInSync
    BodyEndSize
    OnlyMovedValueDiffers
