SPECIFICATION Spec
CONSTANTS
    Ids = {u1, u2, u3, u4}
    Modes = {solo, fastest}
    Size <- Pairs
    Examined = 4
    Window = 1
    Grain = 2
    MaxTime = 2
    MaxEntries = 4
    MaxProposals = 2
    MaxStarts = 2
SYMMETRY Symmetry
INVARIANT CountsAgree
INVARIANT QueueSorted
PROPERTY PeakCoversWindow
PROPERTY TickConserves
CHECK_DEADLOCK FALSE
