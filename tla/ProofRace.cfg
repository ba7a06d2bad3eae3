CONSTANTS
    Updates = {u1, u2, u3}
    MaxSessions = 3
    MaxMsgs = 3
    MaxTicks = 1
SPECIFICATION SessionFairSpec
INVARIANTS ExecutedOnce SessionHasOwner
PROPERTIES SessionsResolve
CHECK_DEADLOCK FALSE
