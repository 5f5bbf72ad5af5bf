SPECIFICATION FairSpec
CONSTANTS
    Players = {p1, p2}
    MatchSize = 2
    Slots = {1}
    MaxFinds = 2
    MaxConns = 1
    MaxMatches = 2
    MaxRestarts = 1
    MaxLosses = 0
    HasDraft = FALSE
    Prompt = TRUE
    Waits = TRUE
    QuietRestart = TRUE
PROPERTY MatchesEnd
PROPERTY LostSearchEnds
PROPERTY GhostsVanish
CHECK_DEADLOCK FALSE
