CONSTANTS
    Handlers = {h1, h2}
    Locks = {1, 2, 3}
    MaxPending = 2
    MaxWrites = 2
    MaxFaults = 1
SPECIFICATION Spec
INVARIANTS MutationsInOrder SingleFlight FreshUnlessRaced
PROPERTIES StaleGoesAway
