SPECIFICATION Spec
CONSTANTS
    u1 = u1
    u2 = u2
    g1 = g1
    Users = {u1, u2}
    Generators = {g1}
    MaxBid = 2
    MaxRecs = 2
    MaxChanges = 2
    MaxRuns = 2
    MaxEvents = 2
SYMMETRY Symmetry
CHECK_DEADLOCK FALSE
INVARIANT SentOnce
INVARIANT NoBlindOverwrite
INVARIANT UncertainStaysVisible
INVARIANT ClaimNotLeaked
