SPECIFICATION Spec
CONSTANTS
    Players = {p1, p2}
    MatchSize = 2
    Slots = {1, 2}
    MaxFinds = 2
    MaxConns = 1
    MaxMatches = 1
    MaxRestarts = 1
    MaxLosses = 2
    HasDraft = FALSE
    Prompt = FALSE
    Waits = FALSE
    QuietRestart = FALSE
SYMMETRY Symmetry
INVARIANT EntryHasData
INVARIANT EntryNamesLiveMatch
PROPERTY LeaversStayOut
CHECK_DEADLOCK FALSE
