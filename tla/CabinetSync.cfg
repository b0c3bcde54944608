SPECIFICATION LiveSpec
CONSTANTS
    cabinet = cabinet
    h1 = h1
    h2 = h2
    m1 = m1
    m2 = m2
    m3 = m3
    request = request
    none = none
    None <- none
    Cabinets <- MCCabinets
    Pipeline <- MCPipeline
    Handlers <- MCHandlers
    Mutexes <- MCMutexes
    Requests <- MCRequests
    MaxPhaseRetry = 1
    MaxRetry = 1
    MaxMishaps = 1
    PromptRequests = TRUE
INVARIANT CabinetExclusive
INVARIANT ReadyIsWhole
INVARIANT ReadyIsCurrent
INVARIANT OwnedRuns
PROPERTY SyncSettles
