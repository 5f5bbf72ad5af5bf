SPECIFICATION FairSpec
CONSTANTS
    u1 = u1
    u2 = u2
    u3 = u3
    Users = {u1, u2, u3}
    Games <- PairAndTrio
    Team <- Teams
    Races = {1, 2}
    Claims <- Reports
    None = None
    MaxTasks = 2
    MaxFaults <- Faults
    MaxDesyncs <- Desyncs
INVARIANT RatedOnce
INVARIANT NobodyStillPlays
INVARIANT NothingInFlight
INVARIANT NobodyContradicts
PROPERTY ResultsComeIn
CHECK_DEADLOCK FALSE
