SPECIFICATION FairSpec
CONSTANTS
    TeamSize = 2
    Races = {r, t}
    Hidden = hidden
    MaxChanges = 2
    MaxReconnects = 1
    MaxInFlight = 4
    Watchers <- FirstTeam
INVARIANT OneClock
INVARIANT PicksAreInOrder
INVARIANT ScreensCatchUp
PROPERTY DraftEnds
CHECK_DEADLOCK FALSE
