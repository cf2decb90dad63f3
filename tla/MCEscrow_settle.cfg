\* Deposits, tickets, batches, claims, fees and prices; nobody sends tokens to
\* the escrow behind its back.
SPECIFICATION Spec
CONSTANTS
    alice = alice
    bob = bob
    node = node
    EscrowAddr = escrow
    TreasuryAddr = treasury
    ZeroAddr = zero
    NoOne = noOne
    Users <- MCUsers
    InitBalance <- MCBalance
    Bridges <- MCNone
    Permits <- MCNone
    SignedPermits <- MCNone
    Amounts = {3}
    Receivers = {node}
    Caps <- MCNone
    Day = 1
    MaxTime = 2
    Founder = node
    Owner = bob
    Heirs <- MCNone
    Delay = 1
    BpsBase = 4
    MaxFeeBps = 2
    InitFeeBps = 1
    FeeChoices = {2, 3}
    Tickets <- MCTickets
    SignedTickets <- MCSignedTickets
    Auths <- MCNone
    SignedAuths <- MCNone
    EscrowAmounts = {1, 3}
    InitPrice = 2
    PriceMin = 1
    PriceMax = 2
    Cooldown = 1
    PriceChoices = {0, 1, 3}
    MaxBatch = 2
INVARIANTS
    TypeOK
    ExactlyBacked
    BatchCanPayItsFee
    NoUnitPaidTwice
    SettledUnitsAreSigned
    CumulativeTicketsCompose
