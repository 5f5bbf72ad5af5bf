SPECIFICATION FairSpec
CONSTANTS
    Users = {u1, u2, u3}
    Lobbies = {l1, l2}
    Listed = {l1}
    None = None
    MaxLate = 1
    MaxFailures = 1
INVARIANT SeatsAreHeld
INVARIANT CrewIsSeated
INVARIANT BannedStayOut
INVARIANT RowsFollow
PROPERTY GamesStart
CHECK_DEADLOCK FALSE
