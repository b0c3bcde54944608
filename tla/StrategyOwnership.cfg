SPECIFICATION Spec
CONSTANTS
    s1 = s1
    s2 = s2
    k1 = k1
    k2 = k2
    m1 = m1
    m2 = m2
    Strategies = {s1, s2}
    Campaigns = {k1, k2}
    Products = {p1, p2}
    Cabinets = {m1, m2}
    CabinetOf <- MCCabinetOf
    BindingIds = {b1, b2}
    Clients = {c1, c2}
    Levels = {0, 3}
    None = None
    MaxRequests = 3
SYMMETRY Symmetry
INVARIANTS
    OneLiveOwner
    RefusalIsExact
    LockNotLeaked
CHECK_DEADLOCK FALSE
