CONSTANTS
    Chats = {old, new, other}
    Old = old
    New = new
    Limit = 2
    FedLimit = 3
    Handlers = {h1, h2, h3}
    Kinds <- Everything
    MaxBusy = 2
    MaxFaults = 1
SYMMETRY HandlerSymmetry
SPECIFICATION Spec
INVARIANTS NoEarlyBan NoWarnUncounted LimitIsNoticed
