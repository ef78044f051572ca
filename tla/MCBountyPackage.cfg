SPECIFICATION Spec
CONSTANTS
    a1 = a1
    a2 = a2
    d1 = d1
    Arms = {a1, a2}
    Decaps = {d1}
    Inputs <- MCInputs
    ChunkBytes = 2
    Rate = 2
    PkUnits <- MCPkUnits
    ShareUnits <- MCShareUnits
    None = None
    Hole = Hole
INVARIANTS
    TypeOK
    KeyForItsInput
    MismatchMeansOneText
PROPERTY
    FinishedPackageOpens
CHECK_DEADLOCK FALSE
