SPECIFICATION Spec
CONSTANTS
    Players = {p1, p2}
    MatchSize = 2
    Slots = {1}
    MaxFinds = 3
    MaxConns = 2
    MaxMatches = 2
    MaxRestarts = 1
    MaxLosses = 0
    HasDraft = TRUE
    Prompt = TRUE
    Waits = TRUE
    QuietRestart = TRUE
INVARIANT EntryIsRegistered
INVARIANT QueuedHasData
INVARIANT MembersCanAccept
INVARIANT SearchIsBacked
PROPERTY WatchdogKicksOnlyLost
PROPERTY KeepsPromise
CHECK_DEADLOCK FALSE
