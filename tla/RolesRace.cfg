CONSTANTS
    Users = {1, 2}
    Founder = 1
    Requests = {1, 2, 3}
    Handlers = {h1, h2}
    Kinds <- Everything
    MaxBusy = 2
    MaxFaults = 2
SYMMETRY HandlerSymmetry
SPECIFICATION Spec
INVARIANTS OwnerNeverVanishes NoHiddenRole
PROPERTIES DemotionIsComplete QueueDecides
