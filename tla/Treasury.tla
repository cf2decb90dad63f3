------------------------------ MODULE Treasury ------------------------------
(***************************************************************************)
(* contracts/src/xKoinTreasury.sol: holds the protocol fees, pays them to  *)
(* one beneficiary on anybody's call, and lets the owner change that       *)
(* beneficiary only through a timelock the beneficiary can veto.           *)
(***************************************************************************)
EXTENDS XknToken

CONSTANTS
    Founder,      \* the beneficiary the constructor is given
    Owner,        \* the Ownable2Step owner
    NoOne,        \* pendingBeneficiary == address(0)
    Heirs,        \* accounts the owner may queue as beneficiary
    Delay,        \* BENEFICIARY_DELAY, `7 days` in clock units
    BpsBase,      \* the 10_000 of feeOn
    MaxFeeBps,    \* MAX_FEE_BPS
    InitFeeBps,   \* constructor argument
    FeeChoices    \* fees the owner may ask for, legal or not

ASSUME TreasuryConstants ==
    /\ Founder \in Account /\ Owner \in Users /\ NoOne \notin Account
    /\ Heirs \subseteq Account \cap Receivers /\ Founder \in Receivers
    /\ Delay \in Nat \ {0}
    /\ BpsBase \in Nat \ {0}
    /\ MaxFeeBps \in 0 .. BpsBase
    /\ InitFeeBps \in 0 .. MaxFeeBps
    /\ FeeChoices \subseteq Nat

VARIABLES feeBps, beneficiary, pendingBeneficiary, beneficiaryActivation

treasuryVars == <<feeBps, beneficiary, pendingBeneficiary, beneficiaryActivation>>
seat == <<beneficiary, pendingBeneficiary, beneficiaryActivation>>

TreasuryInit ==
    /\ TokenInit
    /\ feeBps = InitFeeBps
    /\ beneficiary = Founder
    /\ pendingBeneficiary = NoOne
    /\ beneficiaryActivation = 0

\* Wrong: the basis points are not divided out.
FeeOnUndivided(gross) == gross * feeBps

\* The fee on a gross amount: rounded down, so never more than the exact share.
FeeOn(gross) == (gross * feeBps) \div BpsBase

\* Wrong: no ceiling.
SetFeeBpsUncapped(fee) ==
    /\ feeBps' = fee
    /\ UNCHANGED <<now, tokenVars, seat>>

SetFeeBps(fee) ==
    /\ fee <= MaxFeeBps
    /\ feeBps' = fee
    /\ UNCHANGED <<now, tokenVars, seat>>

\* Wrong: the owner is paid.
ClaimByOwner ==
    /\ balance[TreasuryAddr] > 0
    /\ balance' = Moved(balance, TreasuryAddr, Owner, balance[TreasuryAddr])
    /\ UNCHANGED <<now, allowance, permitNonce, bridges, treasuryVars>>

\* Anybody sweeps the treasury's whole balance to the beneficiary.
Claim ==
    /\ balance[TreasuryAddr] > 0
    /\ balance' = Moved(balance, TreasuryAddr, beneficiary, balance[TreasuryAddr])
    /\ UNCHANGED <<now, allowance, permitNonce, bridges, treasuryVars>>

\* Wrong: the timelock of a change already pending goes on for the new heir.
QueueBeneficiaryGoesOn(heir) ==
    /\ pendingBeneficiary' = heir
    /\ beneficiaryActivation' =
         IF pendingBeneficiary = NoOne THEN now + Delay ELSE beneficiaryActivation
    /\ UNCHANGED <<now, tokenVars, feeBps, beneficiary>>

\* The owner starts a change, or restarts it with another successor.
QueueBeneficiary(heir) ==
    /\ pendingBeneficiary' = heir
    /\ beneficiaryActivation' = now + Delay
    /\ UNCHANGED <<now, tokenVars, feeBps, beneficiary>>

\* Wrong: one unit of time too early.
ActivateBeneficiaryEarly ==
    /\ pendingBeneficiary # NoOne
    /\ now + 1 >= beneficiaryActivation
    /\ beneficiary' = pendingBeneficiary
    /\ pendingBeneficiary' = NoOne
    /\ beneficiaryActivation' = 0
    /\ UNCHANGED <<now, tokenVars, feeBps>>

\* Anybody completes a change whose timelock ran out.
ActivateBeneficiary ==
    /\ pendingBeneficiary # NoOne
    /\ now >= beneficiaryActivation
    /\ beneficiary' = pendingBeneficiary
    /\ pendingBeneficiary' = NoOne
    /\ beneficiaryActivation' = 0
    /\ UNCHANGED <<now, tokenVars, feeBps>>

\* The owner or the beneficiary vetoes a change, at any time before it is done.
CancelBeneficiaryChange(sender) ==
    /\ sender \in {Owner, beneficiary}
    /\ pendingBeneficiary # NoOne
    /\ pendingBeneficiary' = NoOne
    /\ beneficiaryActivation' = 0
    /\ UNCHANGED <<now, tokenVars, feeBps, beneficiary>>

TreasuryStep ==
    \/ \E fee \in FeeChoices : SetFeeBps(fee)
    \/ Claim
    \/ \E heir \in Heirs : QueueBeneficiary(heir)
    \/ ActivateBeneficiary
    \/ \E sender \in Users : CancelBeneficiaryChange(sender)

\* Every variable of the treasury holds a value of its Solidity type.
TreasuryTypeOK ==
    /\ TokenTypeOK
    /\ feeBps \in 0 .. MaxFeeBps
    /\ beneficiary \in Account
    /\ pendingBeneficiary \in Account \cup {NoOne}
    /\ beneficiaryActivation \in Nat

TreasuryNext ==
    \/ TokenStep /\ UNCHANGED treasuryVars
    \/ TreasuryStep
    \/ Tick /\ UNCHANGED treasuryVars

TreasurySpec == TreasuryInit /\ [][TreasuryNext]_<<now, tokenVars, treasuryVars>>
=============================================================================
