SPECIFICATION Spec
CONSTANTS
    P = 7
    N = 3
    None = None
    Scalars <- MCScalars
    Zero = 0
    One = 1
    Plus <- AddMod
    Times <- MulMod
    Minus <- NegMod
    Even <- MCEven
    Challenge <- MCChallenge
    Secrets <- MCSecrets
    Shares <- MCShares
    Nonces <- MCNonces
    Hashes <- MCHashes
INVARIANTS
    TypeOK
    PreSignatureOpens
    SharesUnlock
CHECK_DEADLOCK FALSE
