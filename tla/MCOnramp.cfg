\* Three purchases, repeated callbacks, one of them early, and two faults.
SPECIFICATION FairSpec
CONSTANTS
    alice = alice
    bob = bob
    noOrder = noOrder
    NoOrder = noOrder
    Prefix <- Start8
    Purchases <- Three
    Buyer <- ThreeBuyers
    Rail <- ThreeRails
    Kes <- ThreeKes
    Overtaking <- Hasty
    Redelivers = TRUE
    MaxFaults = 2
    MaxMints = 4
INVARIANTS
    MintedOnce
    MintsAreBacked
    VoucherFollowsMint
PROPERTY
    EveryPaymentMinted
\* Providers repeat callbacks for ever and buyers need not buy.
CHECK_DEADLOCK FALSE
