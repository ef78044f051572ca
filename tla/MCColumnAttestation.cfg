CONSTANTS
    Scalars <- MCScalars
    Zero = 0
    One = 1
    Plus <- MCPlus
    Times <- MCTimes
    Minus <- MCMinus
    None = None
    Builders <- MCBuilders
    Columns <- MCColumns
    Delta <- MCDelta
    Exponents = {2, 3}
    Nonces = {1}
    Shares = {1, 2}
    Challenges = {2, 3}
    GsDigest = 9
    MaxLives = 2
    MaxOpened = 2
    MaxSessions = 2
SPECIFICATION Spec
INVARIANTS
    TypeOK
    SameExponent
    AcceptedAsAttested
    HonestAccepted
    InstancesDistinct
CHECK_DEADLOCK FALSE
