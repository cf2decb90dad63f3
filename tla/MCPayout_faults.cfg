\* Every fault at once: crashes, lost acknowledgements, late and repeated callbacks.
SPECIFICATION Spec
CONSTANTS
    noCursor = noCursor
    NoCursor = noCursor
    N = 3
    Kind <- MixedKinds
    Span = 4
    MaxAttempts = 2
    Redelivers = TRUE
    PaysLate = TRUE
    WorkerFaults = 2
    ApiFaults = 1
    MaxCalls = 3
INVARIANTS
    TypeOK
    OnlyFeesArePaid
    BurnFollowsPayment
    NoTransferSkipped
