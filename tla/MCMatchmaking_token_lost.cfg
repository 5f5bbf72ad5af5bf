SPECIFICATION Spec
CONSTANTS
    Players = {p1, p2}
    MatchSize = 2
    Slots = {1}
    MaxFinds = 2
    MaxConns = 1
    MaxMatches = 1
    MaxRestarts = 0
    MaxLosses = 1
    HasDraft = FALSE
    Prompt = TRUE
    Waits = TRUE
    QuietRestart = TRUE
SYMMETRY Symmetry
INVARIANT MembersCanAccept
CHECK_DEADLOCK FALSE
