\* Two fees, no faults: callbacks repeat and come in any order.
SPECIFICATION FairSpec
CONSTANTS
    noCursor = noCursor
    NoCursor = noCursor
    N = 2
    Kind <- TwoFees
    Span = 4
    MaxAttempts = 2
    Redelivers = TRUE
    PaysLate = FALSE
    WorkerFaults = 0
    ApiFaults = 0
    MaxCalls = 4
INVARIANTS
    LedgerTellsTheTruth
PROPERTIES
    PaysOnceBurnsOnce
    EveryFeeResolved
