SPECIFICATION Spec
CONSTANTS
    alice = alice
    bob = bob
    Operators = {alice, bob}
    MaxDraws = 2
    None = None
INVARIANTS
    TypeOK
    DepositSpendable
    NeverInvalid
    RecoveredAsCommitted
PROPERTY
    ImplementsRelease
CHECK_DEADLOCK FALSE
