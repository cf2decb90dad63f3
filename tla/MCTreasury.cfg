\* Every behaviour of the timelock, the founder attentive or not.
SPECIFICATION TimelockSpec
CONSTANTS
    founder = founder
    thief = thief
    Users <- MCUsers
    EscrowAddr = escrow
    TreasuryAddr = treasury
    ZeroAddr = zero
    NoOne = noOne
    Bridges <- MCNone
    Permits <- MCNone
    SignedPermits <- MCNone
    Amounts = {1}
    Receivers = {treasury, founder, thief}
    Caps <- MCNone
    InitBalance <- MCBalance
    Day = 1
    MaxTime = 6
    Founder = founder
    Owner = thief
    Heirs = {thief, treasury, founder}
    Delay = 2
    BpsBase = 4
    MaxFeeBps = 1
    InitFeeBps = 1
    FeeChoices = {0, 2}
INVARIANTS
    TimelockTypeOK
    FounderKeepsSeat
PROPERTIES
    AnnouncedInTime
    FeesReachOnlyBeneficiary
