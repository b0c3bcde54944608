SPECIFICATION FairSpec
CONSTANTS
    None = None
    Admin = Admin
    p1 = p1
    q1 = q1
    b1 = b1
    b2 = b2
    w1 = w1
    Workers = {w1}
    Scopes <- NestedScopes
    Bids = {b1, b2}
    SettingsSet <- CapTwo
    MaxActions = 2
    MaxVersions = 2
    MaxDays = 1
    MaxUpdates = 0
    MaxEdits = 1
    MaxFaults = 1
    ReconcileLimit = 2
    PromptWorkers = FALSE
INVARIANT UnresolvedExclusive
INVARIANT StatusTellsTheTruth
INVARIANT ActsOnCurrentBid
INVARIANT AuditAgrees
PROPERTY EventuallyResolved
