SPECIFICATION Spec
CONSTANTS
    P = 17
    None = None
    Scalars <- MCScalars
    Zero = 0
    One = 1
    Plus <- AddMod
    Times <- MulMod
    Minus <- NegMod
    Circuits <- MCCircuits
    DomainSizes = {4, 8}
    Element <- RootPower
    Reciprocal <- InverseMod
    OfNat <- NatMod
    CosetGenerator = 3
    Taus <- MCTaus
    Trapdoors <- MCTrapdoors
    CustomSamples <- MCSamples
    Randomizers = {0, 7}
INVARIANTS
    TypeOK
    BasesRight
    PanicJustified
    StandardVerifies
    LeanVerifies
CHECK_DEADLOCK FALSE
