\* Permits, relayed withdrawals and transfers, claims, and tokens sent to any
\* address, the escrow's own included.
SPECIFICATION Spec
CONSTANTS
    alice = alice
    bob = bob
    node = node
    EscrowAddr = escrow
    TreasuryAddr = treasury
    ZeroAddr = zero
    NoOne = noOne
    Users <- MCUsers
    InitBalance <- MCBalance
    Bridges <- MCNone
    Permits <- MCPermits
    SignedPermits <- MCSignedPermits
    Amounts = {2}
    Receivers = {escrow, zero, alice, bob, node}
    Caps <- MCNone
    Day = 1
    MaxTime = 2
    Founder = node
    Owner = bob
    Heirs <- MCNone
    Delay = 1
    BpsBase = 4
    MaxFeeBps = 2
    InitFeeBps = 1
    FeeChoices <- MCNone
    Tickets <- MCNone
    SignedTickets <- MCNone
    Auths <- MCAuths
    SignedAuths <- MCSignedAuths
    EscrowAmounts = {1}
    InitPrice = 2
    PriceMin = 1
    PriceMax = 2
    Cooldown = 1
    PriceChoices <- MCNone
    MaxBatch = 2
INVARIANTS
    Solvent
    FrontRunHarmless
PROPERTIES
    NoUnauthorisedDebit
