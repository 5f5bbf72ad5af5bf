SPECIFICATION Spec
CONSTANTS
    Players = {p1, p2}
    Games = {g1, g2}
    MaxConns = 1
    Lobbies = {g2}
    QuickLookups = FALSE
SYMMETRY Symmetry
INVARIANT LoadedByAll
INVARIANT StartersAreTold
PROPERTY KeepsLoadPromise
CHECK_DEADLOCK FALSE
