SPECIFICATION Spec
CONSTANTS
    p1 = p1
    p2 = p2
    s1 = s1
    r1 = r1
    None = None
    Worker = worker
    Products = {p1}
    Apis = {api}
    Entries = {s1}
    RevertOf <- MCRevertOf
    Economics <- MCSteady
    Strategy <- MCStrategy
    StartPrice = 30
    Discount = 0
    Targets = {5}
    MaxChanges = 2
    MaxMishaps = 1
    MaxSyncs = 0
    RejectRetries = FALSE
INVARIANT NeverQuarantined
