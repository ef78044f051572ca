SPECIFICATION Spec
CONSTANTS
    P = 7
    None = None
    Scalars <- MCScalars
    Zero = 0
    One = 1
    Plus <- AddMod
    Times <- MulMod
    Minus <- NegMod
    Keys <- MCKeys
    Inputs <- MCInputs
    Witnesses <- MCWitnesses
    Rhos <- MCRhos
    Points <- MCPoints
    Randomizers <- MCRandomizers
    MaxBColumns = 4
    MaxThetaRows = 2
    MaxTotalPairings = 12
INVARIANTS
    TypeOK
    VerifiedKey
    HonestKey
    StatementBinding
    HonestVerdict
    ArmsWellFormed
CHECK_DEADLOCK FALSE
