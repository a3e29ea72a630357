CONSTANTS
    Clients = {c1, c2}
    Workers = {w1, w2}
    max_per_window = 2
    window_secs = 1
    MaxTime = 2
    MaxRequests = 4
    MaxUncounted = 1
    MaxCodes = 1
    MaxAccess = 3
    MaxRefresh = 2
    CodeTtl = 1
    AccessTtl = 1
    RefreshTtl = 2
    MaxFaults = 1
    None = None
SYMMETRY Symmetry
SPECIFICATION OSpec
INVARIANTS OInv CodeUsedOnce RotationBounded UnderTwiceTheLimit
PROPERTIES RevocationSticks
CHECK_DEADLOCK FALSE
