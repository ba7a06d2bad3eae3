CONSTANTS
    Handlers = {h1, h2, h3, h4}
    MaxCards = 3
    MaxBusy = 2
    MaxFaults = 1
    LockWindow = 1
    Cooldown = 2
    StaleWindow = 3
    MaxAge = 4
SPECIFICATION FairSpec
INVARIANTS VerdictIsCommitted PendingCardIsLive LiveCardIsPending
PROPERTIES LockRespected NotLockedOut
CHECK_DEADLOCK FALSE
