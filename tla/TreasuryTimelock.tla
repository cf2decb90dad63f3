-------------------------- MODULE TreasuryTimelock --------------------------
(***************************************************************************)
(* What the timelock of Treasury is for.  Two histories: when the pending  *)
(* beneficiary was queued, and whether the founder ever slept, that is,    *)
(* left a change pending until its timelock ran out.  The contract asks    *)
(* one thing of people: that the founder looks at the chain, and vetoes    *)
(* what he sees, within BENEFICIARY_DELAY.                                 *)
(***************************************************************************)
EXTENDS Treasury

VARIABLES
    queuedAt,   \* the block time of the last QueueBeneficiary
    slept       \* a block reached the end of the timelock of a pending change

timelockVars == <<now, tokenVars, treasuryVars, queuedAt, slept>>

TimelockInit == TreasuryInit /\ queuedAt = 0 /\ slept = FALSE

RecordQueue(heir) == QueueBeneficiary(heir) /\ queuedAt' = now

OtherTreasuryStep ==
    \/ \E fee \in FeeChoices : SetFeeBps(fee)
    \/ Claim
    \/ ActivateBeneficiary
    \/ \E sender \in Users : CancelBeneficiaryChange(sender)

\* No block reaches the end of the timelock while a change is still pending.
VetoInTime == pendingBeneficiary # NoOne => now + 1 < queuedAt + Delay

TimelockStep ==
    \/ \E heir \in Heirs : RecordQueue(heir)
    \/ OtherTreasuryStep /\ UNCHANGED queuedAt
    \/ TokenStep /\ UNCHANGED <<treasuryVars, queuedAt>>

PassTime ==
    /\ Tick /\ UNCHANGED <<treasuryVars, queuedAt>>
    /\ slept' = (slept \/ ~VetoInTime)

TimelockNext == (TimelockStep /\ UNCHANGED slept) \/ PassTime

TimelockSpec == TimelockInit /\ [][TimelockNext]_timelockVars

-----------------------------------------------------------------------------
\* The treasury's variables and the history have their types.
TimelockTypeOK == TreasuryTypeOK /\ queuedAt \in Nat /\ slept \in BOOLEAN

\* The public delay: whoever becomes beneficiary was announced as such a full
\* BENEFICIARY_DELAY before, and nobody else was announced since.  Re-queueing
\* restarts the clock, so no early announcement can be reused for another heir.
AnnouncedInTime ==
    [][beneficiary' # beneficiary =>
         /\ beneficiary' = pendingBeneficiary
         /\ now >= queuedAt + Delay]_timelockVars

\* Tokens leave the treasury only to the beneficiary of that moment, all of
\* them at once, whoever calls and whatever the owner changed before.
FeesReachOnlyBeneficiary ==
    [][balance'[TreasuryAddr] < balance[TreasuryAddr] =>
         balance' = [balance EXCEPT ![beneficiary] = @ + balance[TreasuryAddr],
                                    ![TreasuryAddr] = 0]]_timelockVars

\* A founder who vetoes in time keeps the seat against any owner, a stolen
\* owner key included, for as long as he does.
FounderKeepsSeat == ~slept => beneficiary = Founder
=============================================================================
