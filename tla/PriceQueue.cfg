SPECIFICATION Spec
CONSTANTS
    p1 = p1
    p2 = p2
    s1 = s1
    r1 = r1
    None = None
    Worker = worker
    Products = {p1, p2}
    Apis = {api}
    Entries = {s1}
    RevertOf <- MCRevertOf
    Economics <- MCEconomics
    Strategy <- MCStrategy
    StartPrice = 14
    Discount = 0
    Targets = {5}
    MaxChanges = 2
    MaxMishaps = 1
    MaxSyncs = 1
    RejectRetries = FALSE
INVARIANTS TypeOK LockCoversWrites LastAppliedWins DoneMeansApplied ScheduleOnce MarginKept
