SPECIFICATION Spec
CONSTANTS
    c1 = c1
    None = None
    Workers = {w1}
    Users = {u1}
    Camps = {c1}
    Levels = {0, 2, 3}
    Plans <- MCPlans
    MaxRuns = 2
    MaxSteps = 2
    MaxDecisions = 3
    MaxStrategies = 2
    MaxMishaps = 1
    MaxActionsPerDay = 2
    MaxChangesPerDay = 2
INVARIANTS WriteOnce PlanStops WithinCap
PROPERTIES FinalStays HumanPauseStays StopTakesHold
