CONSTANTS
    Coroutines = {a, b, c, d}
    failure_threshold = 3
    MaxDown = 2
    MaxCancels = 2
SPECIFICATION BreakerFairSpec
INVARIANTS ProbeHasAnOwner
PROPERTIES Recovers
