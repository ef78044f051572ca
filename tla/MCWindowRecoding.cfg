SPECIFICATION RecodeSpec
CONSTANTS
    WindowSize = 6
    NumWindows = 3
    TotalBits = 16
    Order = 65521
INVARIANTS
    HostMatchesCircuit
    RecodedValue
CHECK_DEADLOCK FALSE
