CONSTANTS
    Chats = {c1, c2}
    Handlers = {h1, h2}
    MaxRequests = 2
    MaxOthers = 1
    MaxFaults = 1
SYMMETRY HandlerSymmetry
SPECIFICATION Spec
INVARIANTS ExecutedOnce MuteIsLiftable KickIsNotABan
