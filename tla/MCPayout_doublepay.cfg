\* A retry whose acknowledgement is lost.
SPECIFICATION Spec
CONSTANTS
    noCursor = noCursor
    NoCursor = noCursor
    N = 1
    Kind <- OneFee
    Span = 4
    MaxAttempts = 2
    Redelivers = FALSE
    PaysLate = FALSE
    WorkerFaults = 1
    ApiFaults = 0
    MaxCalls = 3
INVARIANT
    PaidAtMostOnce
