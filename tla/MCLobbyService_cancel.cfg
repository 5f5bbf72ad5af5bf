SPECIFICATION Spec
CONSTANTS
    Users = {u1, u2}
    Lobbies = {l1}
    Listed = {l1}
    None = None
    MaxLate = 0
    MaxFailures = 0
INVARIANT FailureCancels
CHECK_DEADLOCK FALSE
