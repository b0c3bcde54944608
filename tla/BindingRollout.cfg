SPECIFICATION FairSpec
CONSTANTS
    w1 = w1
    o1 = o1
    o2 = o2
    Workers = {w1}
    Operators = {o1, o2}
    Targets = 2
    MaxRequests = 2
    MaxPeriods = 4
    MaxFaults = 1
CHECK_DEADLOCK FALSE
PROPERTY HoldSticks
INVARIANT NeverLiveUntested
INVARIANT LateWritesBounded
PROPERTY LiveInTheEnd
