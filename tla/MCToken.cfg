\* A bridge whose cap the owner moves, over four days of two clock units.
SPECIFICATION HistorySpec
CONSTANTS
    user = user
    kiosk = kiosk
    Users <- MCUsers
    EscrowAddr = escrow
    TreasuryAddr = treasury
    ZeroAddr = zero
    Bridges = {kiosk}
    Permits <- MCNone
    SignedPermits <- MCNone
    Amounts = {1, 2}
    Receivers = {zero, user, kiosk}
    Caps = {1, 2}
    InitBalance <- MCBalance
    Day = 2
    MaxTime = 5
INVARIANTS
    TwiceCapPerDay
    SupplyAccounted
