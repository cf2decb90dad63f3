\* The same purchase made twice over Jenga, with a repeated callback.
SPECIFICATION Spec
CONSTANTS
    alice = alice
    bob = bob
    noOrder = noOrder
    NoOrder = noOrder
    Prefix <- Start8
    Purchases <- Two
    Buyer <- SameBuyer
    Rail <- SameRail
    Kes <- SameKes
    Overtaking <- Nobody
    Redelivers = TRUE
    MaxFaults = 0
    MaxMints = 3
INVARIANT
    MintsAreBacked
\* Buyers need not buy.
CHECK_DEADLOCK FALSE
