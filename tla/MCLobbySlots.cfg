SPECIFICATION Spec
CONSTANTS
    Users = {u1, u2, u3}
    Kinds = {"melee", "controlled", "ums"}
    Size <- TwoTeams
    Observers = 1
    Races = {"r", "t"}
    ForcedPlaces <- OneForced
    MapComputers <- OneComputer
    MaxJoins = 3
SYMMETRY Symmetry
INVARIANT TeamsAreWhole
INVARIANT HostIsSenior
INVARIANT ViewFollows
INVARIANT MapIsKept
PROPERTY OthersStay
CHECK_DEADLOCK FALSE
