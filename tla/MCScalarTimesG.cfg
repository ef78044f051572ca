SPECIFICATION RecodeSpec
CONSTANTS
    WindowSize = 6
    NumWindows = 3
    TotalBits = 16
    Order = 65521
INVARIANT
    ScalarTimesG
CHECK_DEADLOCK FALSE
