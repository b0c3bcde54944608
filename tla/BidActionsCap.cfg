SPECIFICATION Spec
CONSTANTS
    None = None
    Admin = Admin
    p1 = p1
    q1 = q1
    b1 = b1
    b2 = b2
    w1 = w1
    w2 = w2
    Workers = {w1, w2}
    Scopes <- NestedScopes
    Bids = {b1, b2}
    SettingsSet <- CapOne
    MaxActions = 2
    MaxVersions = 2
    MaxDays = 1
    MaxUpdates = 0
    MaxEdits = 0
    MaxFaults = 1
    ReconcileLimit = 2
    PromptWorkers = TRUE
SYMMETRY Symmetry
INVARIANT WithinDailyCap
INVARIANT WriteOnce
PROPERTY LedgerSpec
