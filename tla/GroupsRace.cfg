CONSTANTS
    Old = old
    New = new
    Handlers = {h1, h2, h3}
    Kinds <- Everything
    MaxBusy = 2
    MaxMoves = 1
    MaxFaults = 1
SYMMETRY HandlerSymmetry
SPECIFICATION Spec
INVARIANTS NoStrandedRequest NoGhost ConfirmedIsConnected CacheNotPoisoned
