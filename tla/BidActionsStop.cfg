SPECIFICATION Spec
CONSTANTS
    None = None
    Admin = Admin
    p1 = p1
    q1 = q1
    b1 = b1
    b2 = b2
    w1 = w1
    Workers = {w1}
    Scopes <- NestedScopes
    Bids = {b1, b2}
    SettingsSet <- AllStops
    MaxActions = 2
    MaxVersions = 2
    MaxDays = 2
    MaxUpdates = 2
    MaxEdits = 0
    MaxFaults = 1
    ReconcileLimit = 2
    PromptWorkers = FALSE
CHECK_DEADLOCK FALSE
SYMMETRY Symmetry
INVARIANT WithinDailyCap
INVARIANT AtMostOneLateWrite
