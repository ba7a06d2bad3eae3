CONSTANTS
    NoChat = NoChat
    Chats = {p, g1}
    Primaries = {p}
    Refusing = {g1}
    Handlers = {h1, h2}
    Kinds <- Everything
    MaxBusy = 2
    MaxFaults = 1
SPECIFICATION FairSpec
INVARIANTS EnforcementHasRecord LiftFollowsDeactivation
PROPERTIES LiftedStaysLifted BannedMemberRemoved
