------------------------------- MODULE Escrow -------------------------------
(***************************************************************************)
(* contracts/src/xKoinEscrow.sol together with the token it holds and the  *)
(* treasury it pays: clients deposit XKN, node admins settle the tickets   *)
(* clients signed for relayed bytes, and everyone takes out what is theirs.*)
(*                                                                         *)
(* Transactions run one at a time and are atomic.  All but one are single  *)
(* steps here.  settleTicketBatch loops over its tickets and reverts as a  *)
(* whole, so it is one step per loop iteration on a working copy of the    *)
(* escrow's storage, `work', which a last step makes the chain's (`book')  *)
(* or throws away; no other transaction runs in between.                   *)
(***************************************************************************)
EXTENDS Treasury

CONSTANTS
    Tickets,         \* tickets a relayer may submit ...
    SignedTickets,   \* ... and those whose signature recovers to the client
    Auths,           \* withdraw and transfer authorisations anyone may submit
    SignedAuths,     \* ... and those their client really signed
    EscrowAmounts,   \* amounts callers of the escrow may name
    InitPrice,       \* constructor argument
    PriceMin, PriceMax, Cooldown,  \* PRICE_MIN, PRICE_MAX, PRICE_COOLDOWN
    PriceChoices,    \* prices the owner may ask for, legal or not
    MaxBatch         \* bound on the tickets of one batch

Ticket == [client : Users, nodeAdmin : Account, sequenceNumber : Nat,
           cumulativeUnits : Nat, epochExpiry : Nat]

Authorization == [kind : {"Withdraw", "TransferDeposit"}, client : Users,
                  to : Address, amount : Nat, nonce : Nat, deadline : Nat]

ASSUME EscrowConstants ==
    /\ Tickets \subseteq Ticket /\ SignedTickets \subseteq Tickets
    /\ Auths \subseteq Authorization /\ SignedAuths \subseteq Auths
    /\ \A a \in Auths : a.to \in Receivers
    /\ EscrowAmounts \subseteq Nat
    /\ PriceMin \in Nat /\ PriceMax \in Nat /\ Cooldown \in Nat
    /\ InitPrice \in PriceMin .. PriceMax
    /\ PriceChoices \subseteq Nat
    /\ MaxBatch \in Nat \ {0}

VARIABLES
    book,             \* the escrow's storage after the last transaction
    work,             \* its storage as the transaction under way sees it
    exec,             \* the batch under way: tickets settled, gross and fee
    authNonces,       \* mapping(address => uint256) of the same name
    pricePerUnit,
    lastPriceChange

prices == <<pricePerUnit, lastPriceChange>>
escrowVars == <<book, work, exec, authNonces, prices>>
vars == <<now, tokenVars, treasuryVars, escrowVars>>

Channel == Users \X Account

\* The events TicketSettled of a channel, added up, are its `paid'.
ChannelState == [lastSequence : Nat, settledUnits : Nat, paid : Nat]

Book == [deposits : [Account -> Nat], earnings : [Account -> Nat],
         channels : [Channel -> ChannelState]]

NoBatch == [size |-> 0, gross |-> 0, fee |-> 0]
Idle == exec.size = 0

Init ==
    /\ TreasuryInit
    /\ book = [deposits |-> [a \in Account |-> 0],
               earnings |-> [a \in Account |-> 0],
               channels |-> [ch \in Channel |->
                               [lastSequence |-> 0, settledUnits |-> 0, paid |-> 0]]]
    /\ work = book
    /\ exec = NoBatch
    /\ authNonces = [u \in Users |-> 0]
    /\ pricePerUnit = InitPrice
    /\ lastPriceChange = now

\* A single-step transaction leaves storage b.
Store(b) == book' = b /\ work' = b /\ UNCHANGED exec

-----------------------------------------------------------------------------
\* Client side.

Deposited(client, n) == [book EXCEPT !.deposits = Credit(@, client, n)]
\* Wrong: the deposit is not debited.
WithdrawnForgotten(client, n) == book

Withdrawn(client, n) == [book EXCEPT !.deposits = Debit(@, client, n)]

Deposit(client, n) ==
    /\ n > 0
    /\ allowance[client] >= n
    /\ CanMove(client, EscrowAddr, n)
    /\ balance' = Moved(balance, client, EscrowAddr, n)
    /\ allowance' = Debit(allowance, client, n)
    /\ Store(Deposited(client, n))
    /\ UNCHANGED <<now, permitNonce, bridges, treasuryVars, authNonces, prices>>

\* Wrong: the deposit fails with its permit (no try/catch).
DepositWithPermitStrict(p) ==
    /\ PermitValid(p)
    /\ p.value > 0
    /\ CanMove(p.owner, EscrowAddr, p.value)
    /\ permitNonce' = NonceUsed(p)
    /\ balance' = Moved(balance, p.owner, EscrowAddr, p.value)
    /\ allowance' = Debit(Permitted(p), p.owner, p.value)
    /\ Store(Deposited(p.owner, p.value))
    /\ UNCHANGED <<now, bridges, treasuryVars, authNonces, prices>>

\* The permit may fail; the deposit then draws on whatever allowance there is.
DepositWithPermit(p) ==
    LET granted == IF PermitValid(p) THEN Permitted(p) ELSE allowance IN
    /\ p.value > 0
    /\ granted[p.owner] >= p.value
    /\ CanMove(p.owner, EscrowAddr, p.value)
    /\ permitNonce' = IF PermitValid(p) THEN NonceUsed(p) ELSE permitNonce
    /\ balance' = Moved(balance, p.owner, EscrowAddr, p.value)
    /\ allowance' = Debit(granted, p.owner, p.value)
    /\ Store(Deposited(p.owner, p.value))
    /\ UNCHANGED <<now, bridges, treasuryVars, authNonces, prices>>

WithdrawDeposit(client, n) ==
    /\ n > 0
    /\ book.deposits[client] >= n
    /\ CanMove(EscrowAddr, client, n)
    /\ balance' = Moved(balance, EscrowAddr, client, n)
    /\ Store(Withdrawn(client, n))
    /\ UNCHANGED <<now, allowance, permitNonce, bridges, treasuryVars, authNonces, prices>>

\* In time, signed by the client over its next nonce.
AuthorizationValid(a) ==
    /\ now <= a.deadline
    /\ a \in SignedAuths
    /\ a.nonce = authNonces[a.client]

\* Wrong: the nonce is checked and not used up.
UseAuthorizationAgain(a) == AuthorizationValid(a) /\ UNCHANGED authNonces

UseAuthorization(a) ==
    /\ AuthorizationValid(a)
    /\ authNonces' = [authNonces EXCEPT ![a.client] = @ + 1]

WithdrawWithSig(a) ==
    /\ a.kind = "Withdraw"
    /\ a.amount > 0
    /\ a.to # ZeroAddr
    /\ UseAuthorization(a)
    /\ book.deposits[a.client] >= a.amount
    /\ CanMove(EscrowAddr, a.to, a.amount)
    /\ balance' = Moved(balance, EscrowAddr, a.to, a.amount)
    /\ Store(Withdrawn(a.client, a.amount))
    /\ UNCHANGED <<now, allowance, permitNonce, bridges, treasuryVars, prices>>

TransferDeposit(a) ==
    /\ a.kind = "TransferDeposit"
    /\ a.amount > 0
    /\ a.to # ZeroAddr
    /\ UseAuthorization(a)
    /\ book.deposits[a.client] >= a.amount
    /\ Store([book EXCEPT !.deposits = Moved(@, a.client, a.to, a.amount)])
    /\ UNCHANGED <<now, tokenVars, treasuryVars, prices>>

-----------------------------------------------------------------------------
\* Node side.

ChannelOf(t) == <<t.client, t.nodeAdmin>>

\* Wrong: the signature is not checked.
TicketUnsigned(t) ==
    /\ t.epochExpiry >= now
    /\ t.sequenceNumber > work.channels[ChannelOf(t)].lastSequence
    /\ t.cumulativeUnits > work.channels[ChannelOf(t)].settledUnits

TicketValid(t) ==
    /\ t.epochExpiry >= now
    /\ t.sequenceNumber > work.channels[ChannelOf(t)].lastSequence
    /\ t.cumulativeUnits > work.channels[ChannelOf(t)].settledUnits
    /\ t \in SignedTickets

\* Wrong: the unit settled last is charged again.
OwedFromLastUnit(t) ==
    (t.cumulativeUnits - work.channels[ChannelOf(t)].settledUnits + 1) * pricePerUnit

Owed(t) == (t.cumulativeUnits - work.channels[ChannelOf(t)].settledUnits) * pricePerUnit

\* Wrong: a claim the deposit cannot cover is not paid at all.
PayAllOrNothing(owed, available) == IF owed <= available THEN owed ELSE 0

\* What a claim takes from a deposit: never more than is there.
Pay(owed, available) == IF owed <= available THEN owed ELSE available

\* One iteration of the batch's loop.  A ticket the deposit cannot cover is
\* paid in part and all its units count as settled.
SettleOne(t) ==
    LET paid == Pay(Owed(t), work.deposits[t.client])
        fee == FeeOn(paid)
    IN
    /\ exec.size < MaxBatch
    /\ TicketValid(t)
    /\ work' = [deposits |-> Debit(work.deposits, t.client, paid),
                earnings |-> Credit(work.earnings, t.nodeAdmin, paid - fee),
                channels |-> [work.channels EXCEPT ![ChannelOf(t)] =
                                [lastSequence |-> t.sequenceNumber,
                                 settledUnits |-> t.cumulativeUnits,
                                 paid |-> @.paid + paid]]]
    /\ exec' = [size |-> exec.size + 1, gross |-> exec.gross + paid,
                fee |-> exec.fee + fee]
    /\ UNCHANGED <<now, tokenVars, treasuryVars, book, authNonces, prices>>

\* Wrong: the fee is computed once, on the batch's gross.
SettleTicketBatchOneFee ==
    /\ ~Idle
    /\ exec.gross > 0
    /\ CanMove(EscrowAddr, TreasuryAddr, FeeOn(exec.gross))
    /\ balance' = Moved(balance, EscrowAddr, TreasuryAddr, FeeOn(exec.gross))
    /\ book' = work
    /\ exec' = NoBatch
    /\ UNCHANGED <<now, allowance, permitNonce, bridges, treasuryVars, work, authNonces, prices>>

\* The batch ends: it paid something, and its fees go to the treasury.
SettleTicketBatch ==
    /\ ~Idle
    /\ exec.gross > 0
    /\ CanMove(EscrowAddr, TreasuryAddr, exec.fee)
    /\ balance' = Moved(balance, EscrowAddr, TreasuryAddr, exec.fee)
    /\ book' = work
    /\ exec' = NoBatch
    /\ UNCHANGED <<now, allowance, permitNonce, bridges, treasuryVars, work, authNonces, prices>>

\* A ticket is invalid, or the batch paid nothing: all of it is undone.
RevertBatch ==
    /\ ~Idle
    /\ (\E t \in Tickets : ~TicketValid(t)) \/ exec.gross = 0
    /\ work' = book
    /\ exec' = NoBatch
    /\ UNCHANGED <<now, tokenVars, treasuryVars, book, authNonces, prices>>

ClaimEarnings(nodeAdmin, to, n) ==
    /\ n > 0
    /\ book.earnings[nodeAdmin] >= n
    /\ CanMove(EscrowAddr, to, n)
    /\ balance' = Moved(balance, EscrowAddr, to, n)
    /\ Store([book EXCEPT !.earnings = Debit(@, nodeAdmin, n)])
    /\ UNCHANGED <<now, allowance, permitNonce, bridges, treasuryVars, authNonces, prices>>

\* Governance.
SetPricePerUnit(price) ==
    /\ price \in PriceMin .. PriceMax
    /\ now >= lastPriceChange + Cooldown
    /\ pricePerUnit' = price
    /\ lastPriceChange' = now
    /\ UNCHANGED <<now, tokenVars, treasuryVars, book, work, exec, authNonces>>

-----------------------------------------------------------------------------
EscrowStep ==
    \/ \E client \in Users, n \in EscrowAmounts :
         Deposit(client, n) \/ WithdrawDeposit(client, n)
    \/ \E p \in Permits : DepositWithPermit(p)
    \/ \E a \in Auths : WithdrawWithSig(a) \/ TransferDeposit(a)
    \/ \E nodeAdmin \in Users, to \in Receivers, n \in EscrowAmounts :
         ClaimEarnings(nodeAdmin, to, n)
    \/ \E price \in PriceChoices : SetPricePerUnit(price)

BatchStep ==
    \/ \E t \in Tickets : SettleOne(t)
    \/ SettleTicketBatch
    \/ RevertBatch

Next ==
    \/ Idle /\ EscrowStep
    \/ BatchStep
    \/ Idle /\ TokenStep /\ UNCHANGED <<treasuryVars, escrowVars>>
    \/ Idle /\ TreasuryStep /\ UNCHANGED escrowVars
    \/ Idle /\ Tick /\ UNCHANGED <<treasuryVars, escrowVars>>

Spec == Init /\ [][Next]_vars

-----------------------------------------------------------------------------
\* Every variable of the escrow holds a value of its Solidity type.
TypeOK ==
    /\ TreasuryTypeOK
    /\ book \in Book /\ work \in Book
    /\ exec \in [size : Nat, gross : Nat, fee : Nat]
    /\ authNonces \in [Users -> Nat]
    /\ pricePerUnit \in PriceMin .. PriceMax
    /\ lastPriceChange \in Nat

\* What the escrow owes: deposits not yet spent, earnings not yet claimed.
Liabilities(b) == Total(b.deposits) + Total(b.earnings)

\* Solvency: after any sequence of transactions the escrow holds at least the
\* tokens that back every deposit and every earning, so all can be paid out
\* whatever the order in which they are asked for.
Solvent == balance[EscrowAddr] >= Liabilities(book)

\* It holds exactly those tokens as long as nobody names the escrow's own
\* address as the receiver of a transfer, a mint, a claim or a withdrawal.
ExactlyBacked == EscrowAddr \notin Receivers => balance[EscrowAddr] = Liabilities(book)

\* A batch never reverts at its last line: the fees added up ticket by ticket
\* are always among the tokens the escrow holds.
BatchCanPayItsFee == ~Idle => CanMove(EscrowAddr, TreasuryAddr, exec.fee)

\* No unit of a channel is ever paid for twice: over all batches, prices and
\* tickets a client has paid at most the ceiling price for the units settled.
NoUnitPaidTwice ==
    \A ch \in Channel :
        work.channels[ch].paid <= work.channels[ch].settledUnits * PriceMax

\* A channel stands at a ticket its client signed, never at a mix of two
\* tickets or at units nobody signed for.
SettledUnitsAreSigned ==
    \A ch \in Channel : work.channels[ch].lastSequence # 0 =>
        \E t \in SignedTickets :
            /\ ChannelOf(t) = ch
            /\ t.sequenceNumber = work.channels[ch].lastSequence
            /\ t.cumulativeUnits = work.channels[ch].settledUnits

\* Losing an intermediate ticket loses nothing: settling t1 and then t2 takes
\* from the deposit exactly what settling t2 alone takes.
CumulativeTicketsCompose ==
    \A t1, t2 \in SignedTickets :
        /\ ChannelOf(t1) = ChannelOf(t2)
        /\ TicketValid(t1)
        /\ t2.cumulativeUnits > t1.cumulativeUnits
        => LET available == work.deposits[t1.client]
               first == Pay(Owed(t1), available)
               rest == Owed(t2) - Owed(t1)
           IN Pay(Owed(t2), available) = first + Pay(rest, available - first)

\* What authorisation a promises its client: the whole amount reaches a.to.
CarriedOut(a) ==
    /\ a.kind = "Withdraw" => balance' = Moved(balance, EscrowAddr, a.to, a.amount)
    /\ a.kind = "TransferDeposit" =>
         work'.deposits = Moved(work.deposits, a.client, a.to, a.amount)

\* The three ways the deposit of c may shrink, by n.
ByAuthorization(c, n) ==
    \E a \in SignedAuths :
        /\ a.client = c /\ a.amount = n /\ now <= a.deadline
        /\ a.nonce = authNonces[c] /\ authNonces'[c] = a.nonce + 1
        /\ CarriedOut(a)
ByTicket(c, n) ==
    \E t \in SignedTickets :
        /\ t.client = c /\ now <= t.epochExpiry
        /\ work'.channels[ChannelOf(t)].settledUnits = t.cumulativeUnits
        /\ n <= Owed(t)
ToOwnWallet(c, n) == balance' = Moved(balance, EscrowAddr, c, n)

\* No client loses deposit but by its own word: a withdrawal into its own
\* wallet, an authorisation it signed, in time, unused and delivered to the
\* receiver it names, or a ticket it signed, at the current price at most.
NoUnauthorisedDebit ==
    [][\A c \in Users :
         LET n == work.deposits[c] - work'.deposits[c] IN
         n > 0 => ByAuthorization(c, n) \/ ByTicket(c, n) \/ ToOwnWallet(c, n)]_vars

\* Front-running a permit only griefs the relayer: if somebody submits a
\* signed permit to the token first, the deposit it was for still goes through.
FrontRunHarmless ==
    \A p \in SignedPermits :
        /\ permitNonce[p.owner] = p.nonce + 1
        /\ p.value > 0
        /\ allowance[p.owner] >= p.value
        /\ balance[p.owner] >= p.value
        => ENABLED DepositWithPermit(p)
=============================================================================
