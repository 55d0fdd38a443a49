SPECIFICATION Spec
CONSTANTS
    Names <- MCNames
    Initial = "INITIAL"
    IntMax = 2
    Files <- MCFiles
    WarningsAsErrors = FALSE
INVARIANTS
    CyclesToldExactly
    OnlyGapsPanic
    LexersAgree
PROPERTY
    LoweringEnds
CHECK_DEADLOCK FALSE
