SPECIFICATION FairSpec
CONSTANTS
    Players = {p1, p2, p3}
    Games = {g1}
    MaxConns = 2
    Lobbies = {g1}
    QuickLookups = TRUE
PROPERTY LoadsSettle
INVARIANT SubscriptionsEnd
CHECK_DEADLOCK FALSE
