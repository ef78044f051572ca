SPECIFICATION Spec
CONSTANTS
    P = 17
    None = None
    Scalars <- MCScalars
    Zero = 0
    One = 1
    Plus <- AddMod
    Times <- MulMod
    Minus <- NegMod
    DomainSizes = {4, 8}
    Element <- RootPower
    Reciprocal <- InverseMod
    OfNat <- NatMod
    Circuits <- MCCircuits
    Points = {0, 1, 4, 11}
    NumChecks = 2
INVARIANTS
    TypeOK
    EvaluationAgrees
    SafeIsAffine
    StructureSuffices
PROPERTIES
    SpanVerdictExact
    IndependenceExact
CHECK_DEADLOCK FALSE
