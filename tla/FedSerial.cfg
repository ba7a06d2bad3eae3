CONSTANTS
    NoChat = NoChat
    Chats = {p, g1}
    Primaries = {p}
    Refusing = {}
    Handlers = {h1, h2, h3}
    Kinds <- Everything
    MaxBusy = 1
    MaxFaults = 1
SYMMETRY HandlerSymmetry
SPECIFICATION Spec
INVARIANTS NoSilentDivergence
PROPERTIES WarningsBecomeABan VerifyRepairs
