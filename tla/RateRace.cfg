CONSTANTS
    Calls = {a, b, c, d}
    max_calls = 2
    window = 4
    Tenth = 3
    MaxTime = 8
    MaxErrors = 1
SYMMETRY CallSymmetry
SPECIFICATION LimiterSpec
INVARIANTS WindowHolds
PROPERTIES WaitIsEnough
CHECK_DEADLOCK FALSE
