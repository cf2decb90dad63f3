---------------------------- MODULE EscrowProofs ----------------------------
(***************************************************************************)
(* The escrow is type correct and solvent, for any users, tickets, fees,   *)
(* prices and amounts, and a batch can always pay its fee.  A channel      *)
(* stands at a signed ticket and pays for no unit twice, and a deposit     *)
(* shrinks only by its owner's word.                                       *)
(***************************************************************************)
EXTENDS Escrow, TreasuryProofs

-----------------------------------------------------------------------------
\* What the operators on the escrow's storage do to what it owes.

LEMMA LiabilitiesType ==
  ASSUME NEW b \in Book
  PROVE  /\ Total(b.deposits) \in Nat /\ Total(b.earnings) \in Nat
         /\ Liabilities(b) = Total(b.deposits) + Total(b.earnings)
         /\ Liabilities(b) \in Nat
<1>1. b.deposits \in [Account -> Nat] /\ b.earnings \in [Account -> Nat]
  BY DEF Book
<1>2. Total(b.deposits) \in Nat /\ Total(b.earnings) \in Nat
  BY <1>1, FiniteAccounts, TotalType
<1>3. QED BY <1>2 DEF Liabilities

LEMMA NewDeposits ==
  ASSUME NEW b \in Book, NEW d \in [Account -> Nat]
  PROVE  /\ [b EXCEPT !.deposits = d] \in Book
         /\ Liabilities([b EXCEPT !.deposits = d]) = Total(d) + Total(b.earnings)
BY DEF Book, Liabilities

LEMMA NewEarnings ==
  ASSUME NEW b \in Book, NEW e \in [Account -> Nat]
  PROVE  /\ [b EXCEPT !.earnings = e] \in Book
         /\ Liabilities([b EXCEPT !.earnings = e]) = Total(b.deposits) + Total(e)
BY DEF Book, Liabilities

LEMMA DepositedFacts ==
  ASSUME NEW client \in Account, NEW n \in Nat, book \in Book
  PROVE  /\ Deposited(client, n) \in Book
         /\ Liabilities(Deposited(client, n)) = Liabilities(book) + n
<1>1. book.deposits \in [Account -> Nat]
  BY DEF Book
<1>2. /\ Credit(book.deposits, client, n) \in [Account -> Nat]
      /\ Total(Credit(book.deposits, client, n)) = Total(book.deposits) + n
  BY <1>1, FiniteAccounts, TotalCredit
<1>3. Deposited(client, n) = [book EXCEPT !.deposits = Credit(book.deposits, client, n)]
  BY DEF Deposited
<1>4. QED BY <1>2, <1>3, NewDeposits, LiabilitiesType

LEMMA WithdrawnFacts ==
  ASSUME NEW client \in Account, NEW n \in Nat, book \in Book, n <= book.deposits[client]
  PROVE  /\ Withdrawn(client, n) \in Book
         /\ Liabilities(Withdrawn(client, n)) = Liabilities(book) - n
<1>1. book.deposits \in [Account -> Nat]
  BY DEF Book
<1>2. /\ Debit(book.deposits, client, n) \in [Account -> Nat]
      /\ Total(Debit(book.deposits, client, n)) = Total(book.deposits) - n
  BY <1>1, FiniteAccounts, TotalDebit
<1>3. Withdrawn(client, n) = [book EXCEPT !.deposits = Debit(book.deposits, client, n)]
  BY DEF Withdrawn
<1>4. QED BY <1>2, <1>3, NewDeposits, LiabilitiesType

\* An authorised transfer moves deposit; the escrow owes what it owed.
LEMMA TransferredFacts ==
  ASSUME NEW from \in Account, NEW to \in Account, NEW n \in Nat, book \in Book,
         n <= book.deposits[from]
  PROVE  LET b == [book EXCEPT !.deposits = Moved(@, from, to, n)]
         IN b \in Book /\ Liabilities(b) = Liabilities(book)
<1>1. book.deposits \in [Account -> Nat]
  BY DEF Book
<1>2. /\ Moved(book.deposits, from, to, n) \in [Account -> Nat]
      /\ Total(Moved(book.deposits, from, to, n)) = Total(book.deposits)
  BY <1>1, FiniteAccounts, MovedFacts
<1>3. QED BY <1>2, NewDeposits, LiabilitiesType

LEMMA ClaimedFacts ==
  ASSUME NEW nodeAdmin \in Account, NEW n \in Nat, book \in Book,
         n <= book.earnings[nodeAdmin]
  PROVE  LET b == [book EXCEPT !.earnings = Debit(@, nodeAdmin, n)]
         IN b \in Book /\ Liabilities(b) = Liabilities(book) - n
<1>1. book.earnings \in [Account -> Nat]
  BY DEF Book
<1>2. /\ Debit(book.earnings, nodeAdmin, n) \in [Account -> Nat]
      /\ Total(Debit(book.earnings, nodeAdmin, n)) = Total(book.earnings) - n
  BY <1>1, FiniteAccounts, TotalDebit
<1>3. QED BY <1>2, NewEarnings, LiabilitiesType

\* What one ticket takes from a deposit is there, and its fee is part of it.
LEMMA PaidFacts ==
  ASSUME TypeOK, NEW t \in Tickets, TicketValid(t)
  PROVE  LET paid == Pay(Owed(t), work.deposits[t.client])
         IN /\ paid \in Nat /\ paid <= work.deposits[t.client]
            /\ FeeOn(paid) \in Nat /\ FeeOn(paid) <= paid
<1>1. t.client \in Account /\ t.nodeAdmin \in Account /\ t.cumulativeUnits \in Nat
      /\ ChannelOf(t) \in Channel
  BY EscrowConstants DEF Ticket, Account, ChannelOf, Channel
<1>2. work.deposits[t.client] \in Nat
  BY <1>1 DEF TypeOK, Book
<1>3. work.channels[ChannelOf(t)].settledUnits \in Nat
  BY <1>1 DEF TypeOK, Book, ChannelState
<1>4. t.cumulativeUnits - work.channels[ChannelOf(t)].settledUnits \in Nat
  BY <1>1, <1>3 DEF TicketValid
<1>5. pricePerUnit \in Nat
  BY EscrowConstants DEF TypeOK
<1>6. Owed(t) \in Nat
  BY <1>4, <1>5 DEF Owed
<1> DEFINE paid == Pay(Owed(t), work.deposits[t.client])
<1>7. paid \in Nat /\ paid <= work.deposits[t.client]
  BY <1>2, <1>6 DEF Pay
<1> HIDE DEF paid
<1>8. FeeOn(paid) \in Nat /\ FeeOn(paid) <= paid
  BY <1>7, FeeIsPart DEF TypeOK
<1>9. QED BY <1>7, <1>8 DEF paid

\* One ticket of a batch: what the deposit loses, the node's earnings and the
\* batch's fee gain.
LEMMA SettledFacts ==
  ASSUME TypeOK, NEW t \in Tickets, SettleOne(t)
  PROVE  /\ work' \in Book
         /\ exec' \in [size : Nat, gross : Nat, fee : Nat]
         /\ exec'.size # 0
         /\ Liabilities(work') + exec'.fee = Liabilities(work) + exec.fee
<1> DEFINE paid == Pay(Owed(t), work.deposits[t.client])
           fee == FeeOn(paid)
           d == Debit(work.deposits, t.client, paid)
           e == Credit(work.earnings, t.nodeAdmin, paid - fee)
           c == [work.channels EXCEPT ![ChannelOf(t)] =
                   [lastSequence |-> t.sequenceNumber, settledUnits |-> t.cumulativeUnits,
                    paid |-> @.paid + paid]]
<1>1. /\ t.client \in Account /\ t.nodeAdmin \in Account /\ t.cumulativeUnits \in Nat
      /\ t.sequenceNumber \in Nat /\ ChannelOf(t) \in Channel
  BY EscrowConstants DEF Ticket, Account, ChannelOf, Channel
<1>2. /\ work \in Book
      /\ work.deposits \in [Account -> Nat] /\ work.earnings \in [Account -> Nat]
      /\ work.channels \in [Channel -> ChannelState]
      /\ exec.size \in Nat /\ exec.gross \in Nat /\ exec.fee \in Nat
  BY DEF TypeOK, Book
<1>3. /\ paid \in Nat /\ paid <= work.deposits[t.client]
      /\ fee \in Nat /\ fee <= paid
  BY PaidFacts DEF SettleOne
<1>4. /\ work' = [deposits |-> d, earnings |-> e, channels |-> c]
      /\ exec' = [size |-> exec.size + 1, gross |-> exec.gross + paid, fee |-> exec.fee + fee]
  BY DEF SettleOne
<1> HIDE DEF paid, fee
<1>5. d \in [Account -> Nat] /\ Total(d) = Total(work.deposits) - paid
  <2>1. t.client \in Account /\ work.deposits \in [Account -> Nat]
    BY <1>1, <1>2
  <2>2. paid \in Nat /\ paid <= work.deposits[t.client]
    BY <1>3
  <2>3. QED BY <2>1, <2>2, FiniteAccounts, TotalDebit
<1>6. paid - fee \in Nat
  BY <1>3
<1>7. e \in [Account -> Nat] /\ Total(e) = Total(work.earnings) + (paid - fee)
  <2>1. t.nodeAdmin \in Account /\ work.earnings \in [Account -> Nat]
    BY <1>1, <1>2
  <2>2. QED BY <1>6, <2>1, FiniteAccounts, TotalCredit
<1>8. c \in [Channel -> ChannelState]
  BY <1>1, <1>2, <1>3 DEF ChannelState
<1> HIDE DEF d, e, c
<1>9. work' \in Book /\ Liabilities(work') = Total(d) + Total(e)
  BY <1>4, <1>5, <1>7, <1>8 DEF Book, Liabilities
<1>10. exec' \in [size : Nat, gross : Nat, fee : Nat]
  BY <1>2, <1>3, <1>4
<1>11. /\ Total(work.deposits) \in Nat /\ Total(work.earnings) \in Nat
       /\ Liabilities(work) = Total(work.deposits) + Total(work.earnings)
  BY <1>2, LiabilitiesType
<1>12. Liabilities(work') + exec'.fee = Liabilities(work) + exec.fee
  BY <1>2, <1>3, <1>4, <1>5, <1>7, <1>9, <1>11
<1>13. exec'.size # 0
  BY <1>2, <1>4
<1>14. QED BY <1>9, <1>10, <1>12, <1>13

-----------------------------------------------------------------------------
\* Type correctness.

LEMMA TypeInit == Init => TypeOK
<1> SUFFICES ASSUME Init PROVE TypeOK
  OBVIOUS
<1>1. TreasuryTypeOK
  BY TreasuryTypeInit DEF Init
<1>2. book \in Book /\ work = book
  BY DEF Init, Book, ChannelState, Channel
<1>3. QED
  BY <1>1, <1>2, EscrowConstants
     DEF Init, TypeOK, NoBatch, TreasuryTypeOK, TokenTypeOK

\* The transactions of the escrow that are one step.
LEMMA EscrowTypeStep ==
  ASSUME TypeOK, EscrowStep
  PROVE  TypeOK'
<1> USE DEF TypeOK, TreasuryTypeOK, TokenTypeOK, treasuryVars, prices, Store
<1>0. Users \subseteq Account /\ EscrowAddr \in Account
  BY DEF Account
<1>1. ASSUME NEW client \in Users, NEW n \in EscrowAmounts, Deposit(client, n)
      PROVE  TypeOK'
  <2>1. client \in Account /\ n \in Nat /\ n <= balance[client] /\ n <= allowance[client]
    BY <1>0, <1>1, EscrowConstants DEF Deposit, CanMove
  <2>2. balance' \in [Account -> Nat]
    BY <1>0, <1>1, <2>1, FiniteAccounts, MovedFacts DEF Deposit
  <2>3. allowance' \in [Users -> Nat]
    BY <1>1, <2>1 DEF Deposit, Debit
  <2>4. book' \in Book /\ work' \in Book
    BY <1>1, <2>1, DepositedFacts DEF Deposit
  <2>5. QED BY <1>1, <2>2, <2>3, <2>4 DEF Deposit
<1>2. ASSUME NEW client \in Users, NEW n \in EscrowAmounts, WithdrawDeposit(client, n)
      PROVE  TypeOK'
  <2>1. client \in Account /\ n \in Nat /\ n <= balance[EscrowAddr] /\ n <= book.deposits[client]
    BY <1>0, <1>2, EscrowConstants DEF WithdrawDeposit, CanMove
  <2>2. balance' \in [Account -> Nat]
    BY <1>0, <1>2, <2>1, FiniteAccounts, MovedFacts DEF WithdrawDeposit
  <2>3. book' \in Book /\ work' \in Book
    BY <1>2, <2>1, WithdrawnFacts DEF WithdrawDeposit
  <2>4. QED BY <1>2, <2>2, <2>3 DEF WithdrawDeposit
<1>3. ASSUME NEW p \in Permits, DepositWithPermit(p)
      PROVE  TypeOK'
  <2> DEFINE granted == IF PermitValid(p) THEN Permitted(p) ELSE allowance
  <2>1. p.owner \in Users /\ p.owner \in Account /\ p.value \in Nat /\ p.value <= balance[p.owner]
    BY <1>0, <1>3, TokenConstants DEF DepositWithPermit, CanMove, Permit
  <2>2. granted \in [Users -> Nat] /\ p.value <= granted[p.owner]
    BY <1>3, <2>1 DEF DepositWithPermit, Permitted
  <2>3. balance' \in [Account -> Nat]
    BY <1>0, <1>3, <2>1, FiniteAccounts, MovedFacts DEF DepositWithPermit
  <2>4. allowance' \in [Users -> Nat]
    <3>1. allowance' = Debit(granted, p.owner, p.value)
      BY <1>3 DEF DepositWithPermit
    <3> HIDE DEF granted
    <3>2. QED BY <2>1, <2>2, <3>1 DEF Debit
  <2>5. permitNonce' \in [Users -> Nat]
    BY <1>3, <2>1 DEF DepositWithPermit, NonceUsed
  <2>6. book' \in Book /\ work' \in Book
    BY <1>3, <2>1, DepositedFacts DEF DepositWithPermit
  <2>7. QED BY <1>3, <2>3, <2>4, <2>5, <2>6 DEF DepositWithPermit
<1>4. ASSUME NEW a \in Auths, WithdrawWithSig(a)
      PROVE  TypeOK'
  <2>1. /\ a.client \in Users /\ a.client \in Account /\ a.to \in Account /\ a.amount \in Nat
        /\ a.amount <= balance[EscrowAddr] /\ a.amount <= book.deposits[a.client]
    BY <1>0, <1>4, EscrowConstants DEF WithdrawWithSig, CanMove, Authorization
  <2>2. balance' \in [Account -> Nat]
    BY <1>0, <1>4, <2>1, FiniteAccounts, MovedFacts DEF WithdrawWithSig
  <2>3. book' \in Book /\ work' \in Book
    BY <1>4, <2>1, WithdrawnFacts DEF WithdrawWithSig
  <2>4. authNonces' \in [Users -> Nat]
    BY <1>4, <2>1 DEF WithdrawWithSig, UseAuthorization
  <2>5. QED BY <1>4, <2>2, <2>3, <2>4 DEF WithdrawWithSig
<1>5. ASSUME NEW a \in Auths, TransferDeposit(a)
      PROVE  TypeOK'
  <2>1. /\ a.client \in Users /\ a.client \in Account /\ a.to \in Account /\ a.amount \in Nat
        /\ a.amount <= book.deposits[a.client]
    BY <1>0, <1>5, EscrowConstants DEF TransferDeposit, Authorization, Address
  <2>2. book' \in Book /\ work' \in Book
    BY <1>5, <2>1, TransferredFacts DEF TransferDeposit
  <2>3. authNonces' \in [Users -> Nat]
    BY <1>5, <2>1 DEF TransferDeposit, UseAuthorization
  <2>4. QED BY <1>5, <2>2, <2>3 DEF TransferDeposit, tokenVars
<1>6. ASSUME NEW nodeAdmin \in Users, NEW to \in Receivers, NEW n \in EscrowAmounts,
             ClaimEarnings(nodeAdmin, to, n)
      PROVE  TypeOK'
  <2>1. /\ nodeAdmin \in Account /\ to \in Account /\ n \in Nat
        /\ n <= balance[EscrowAddr] /\ n <= book.earnings[nodeAdmin]
    BY <1>0, <1>6, EscrowConstants DEF ClaimEarnings, CanMove
  <2>2. balance' \in [Account -> Nat]
    BY <1>0, <1>6, <2>1, FiniteAccounts, MovedFacts DEF ClaimEarnings
  <2>3. book' \in Book /\ work' \in Book
    BY <1>6, <2>1, ClaimedFacts DEF ClaimEarnings
  <2>4. QED BY <1>6, <2>2, <2>3 DEF ClaimEarnings
<1>7. ASSUME NEW price \in PriceChoices, SetPricePerUnit(price)
      PROVE  TypeOK'
  BY <1>7 DEF SetPricePerUnit, tokenVars
<1>8. QED BY <1>1, <1>2, <1>3, <1>4, <1>5, <1>6, <1>7 DEF EscrowStep

\* The steps of a batch.
LEMMA BatchTypeStep ==
  ASSUME TypeOK, BatchStep
  PROVE  TypeOK'
<1> USE DEF TypeOK, TreasuryTypeOK, TokenTypeOK, treasuryVars, prices, tokenVars
<1>1. ASSUME NEW t \in Tickets, SettleOne(t)
      PROVE  TypeOK'
  <2>1. work' \in Book /\ exec' \in [size : Nat, gross : Nat, fee : Nat]
    BY <1>1, SettledFacts
  <2>2. QED BY <1>1, <2>1 DEF SettleOne
<1>2. CASE SettleTicketBatch
  <2>1. /\ EscrowAddr \in Account /\ TreasuryAddr \in Account /\ exec.fee \in Nat
        /\ exec.fee <= balance[EscrowAddr]
    BY <1>2 DEF SettleTicketBatch, CanMove, Account
  <2>2. balance' \in [Account -> Nat]
    BY <1>2, <2>1, FiniteAccounts, MovedFacts DEF SettleTicketBatch
  <2>3. QED BY <1>2, <2>2 DEF SettleTicketBatch, NoBatch
<1>3. CASE RevertBatch
  BY <1>3 DEF RevertBatch, NoBatch
<1>4. QED BY <1>1, <1>2, <1>3 DEF BatchStep

LEMMA TypeStep ==
  ASSUME TypeOK, [Next]_vars
  PROVE  TypeOK'
<1>1. CASE EscrowStep
  BY <1>1, EscrowTypeStep
<1>2. CASE BatchStep
  BY <1>2, BatchTypeStep
<1>3. ASSUME TokenStep, UNCHANGED <<treasuryVars, escrowVars>>
      PROVE  TypeOK'
  BY <1>3, TokenTypeStep DEF TypeOK, TreasuryTypeOK, treasuryVars, escrowVars, prices
<1>4. ASSUME TreasuryStep, UNCHANGED escrowVars
      PROVE  TypeOK'
  BY <1>4, TreasuryTypeStep DEF TypeOK, escrowVars, prices
<1>5. ASSUME Tick, UNCHANGED <<treasuryVars, escrowVars>>
      PROVE  TypeOK'
  BY <1>5, TickType DEF TypeOK, TreasuryTypeOK, treasuryVars, escrowVars, prices
<1>6. CASE UNCHANGED vars
  BY <1>6 DEF TypeOK, TreasuryTypeOK, TokenTypeOK, vars, tokenVars, treasuryVars,
              escrowVars, prices
<1>7. QED BY <1>1, <1>2, <1>3, <1>4, <1>5, <1>6 DEF Next

\* Every variable of the escrow, the treasury and the token always holds a
\* value of its Solidity type: no ledger entry ever goes below zero, so no
\* subtraction of the contracts underflows.
THEOREM TypeCorrect == Spec => []TypeOK
<1>1. Init => TypeOK
  BY TypeInit
<1>2. TypeOK /\ [Next]_vars => TypeOK'
  BY TypeStep
<1>3. QED BY <1>1, <1>2, PTL DEF Spec

-----------------------------------------------------------------------------
\* Solvency.  Solvent alone is not inductive: the last step of a batch pays a
\* fee out of the tokens that back `book', and is safe only because the steps
\* before it took that fee from the working copy, ticket by ticket.

\* Between transactions there is no trace of a batch.
IdleIsClean == Idle => work = book /\ exec = NoBatch

\* During one, what the working copy no longer owes is the fee still unpaid.
BatchBalances == Liabilities(work) + exec.fee = Liabilities(book)

SolvencyInv == /\ TypeOK
               /\ SeatOK
               /\ IdleIsClean
               /\ BatchBalances
               /\ Solvent
               /\ ExactlyBacked

LEMMA SolvencyInit == Init => SolvencyInv
<1> SUFFICES ASSUME Init PROVE SolvencyInv
  OBVIOUS
<1>1. TypeOK
  BY TypeInit
<1>2. SeatOK
  BY TreasuryConstants DEF Init, TreasuryInit, SeatOK
<1>3. IdleIsClean
  BY DEF Init, IdleIsClean
<1>4. Liabilities(book) = 0
  <2>1. Total([a \in Account |-> 0]) = 0
    BY TotalEmpty
  <2>2. book.deposits = [a \in Account |-> 0] /\ book.earnings = [a \in Account |-> 0]
    BY DEF Init
  <2>3. QED BY <2>1, <2>2 DEF Liabilities
<1>5. BatchBalances
  BY <1>4 DEF Init, BatchBalances, NoBatch
<1>6. balance[EscrowAddr] = 0
  BY TokenConstants DEF Init, TreasuryInit, TokenInit, Account
<1>7. Solvent /\ ExactlyBacked
  BY <1>4, <1>6 DEF Solvent, ExactlyBacked
<1>8. QED BY <1>1, <1>2, <1>3, <1>5, <1>7 DEF SolvencyInv

\* A transaction of one step keeps the invariant if the escrow's tokens grow
\* by no less than what it owes, and by exactly that unless its own address
\* may be named as a receiver.
LEMMA OneStep ==
  ASSUME SolvencyInv, TypeOK', SeatOK', Idle, work' = book', UNCHANGED exec,
         NEW owed \in Nat, NEW covered \in Nat,
         Liabilities(book') + covered = Liabilities(book) + owed,
         balance'[EscrowAddr] + covered >= balance[EscrowAddr] + owed,
         EscrowAddr \notin Receivers =>
           balance'[EscrowAddr] + covered = balance[EscrowAddr] + owed
  PROVE  SolvencyInv'
<1>1. /\ book \in Book /\ book' \in Book
      /\ balance[EscrowAddr] \in Nat /\ balance'[EscrowAddr] \in Nat
  BY DEF SolvencyInv, TypeOK, TreasuryTypeOK, TokenTypeOK, Account
<1>2. Liabilities(book) \in Nat /\ Liabilities(book') \in Nat
  BY <1>1, LiabilitiesType
<1>3. exec = NoBatch /\ exec' = NoBatch
  BY DEF SolvencyInv, IdleIsClean
<1>4. IdleIsClean' /\ BatchBalances'
  BY <1>2, <1>3 DEF IdleIsClean, BatchBalances, NoBatch
<1>5. Solvent'
  BY <1>1, <1>2 DEF SolvencyInv, Solvent
<1>6. ExactlyBacked'
  BY <1>1, <1>2 DEF SolvencyInv, ExactlyBacked
<1>7. QED BY <1>4, <1>5, <1>6 DEF SolvencyInv

\* Steps of the token and the treasury: they never take from the escrow, and
\* give to it only where it may be named.
LEMMA TokenSolvencyStep ==
  ASSUME TypeOK, TokenStep
  PROVE  /\ balance'[EscrowAddr] >= balance[EscrowAddr]
         /\ EscrowAddr \notin Receivers => balance'[EscrowAddr] = balance[EscrowAddr]
<1> USE TokenConstants
<1>0. /\ balance \in [Account -> Nat] /\ EscrowAddr \in Account
      /\ balance[EscrowAddr] \in Nat
  BY DEF TypeOK, TreasuryTypeOK, TokenTypeOK, Account
<1>1. ASSUME NEW from \in Users, NEW to \in Receivers, NEW n \in Amounts,
             TokenTransfer(from, to, n)
      PROVE  /\ balance'[EscrowAddr] >= balance[EscrowAddr]
             /\ EscrowAddr # to => balance'[EscrowAddr] = balance[EscrowAddr]
  <2>1. from \in Account /\ to \in Account /\ n \in Nat /\ n <= balance[from] /\ from # EscrowAddr
    BY <1>1 DEF TokenTransfer, CanMove, Account
  <2>2. balance' = Moved(balance, from, to, n)
    BY <1>1 DEF TokenTransfer
  <2>3. /\ to = EscrowAddr => balance'[EscrowAddr] = balance[EscrowAddr] + n
        /\ to # EscrowAddr => balance'[EscrowAddr] = balance[EscrowAddr]
    BY <1>0, <2>1, <2>2, FiniteAccounts, MovedFacts
  <2>4. QED BY <1>0, <2>1, <2>3
<1>2. ASSUME NEW b \in Bridges, NEW to \in Receivers, NEW n \in Amounts,
             BridgeMint(b, to, n)
      PROVE  /\ balance'[EscrowAddr] >= balance[EscrowAddr]
             /\ EscrowAddr # to => balance'[EscrowAddr] = balance[EscrowAddr]
  <2>1. to \in Account /\ n \in Nat /\ balance' = Credit(balance, to, n)
    BY <1>2 DEF BridgeMint
  <2>2. QED BY <1>0, <2>1 DEF Credit
<1>3. ASSUME NEW b \in Bridges, NEW n \in Amounts, BridgeBurn(b, n)
      PROVE  balance'[EscrowAddr] = balance[EscrowAddr]
  <2>1. b # EscrowAddr /\ balance' = Debit(balance, b, n)
    BY <1>3 DEF BridgeBurn
  <2>2. QED BY <1>0, <2>1 DEF Debit
<1>4. CASE \/ \E owner \in Users, n \in Amounts : Approve(owner, n)
           \/ \E p \in Permits : SubmitPermit(p)
           \/ OwnerStep
  <2>1. balance' = balance
    BY <1>4 DEF Approve, SubmitPermit, OwnerStep, SetBridge
  <2>2. QED BY <1>0, <2>1
<1>5. QED
  BY <1>0, <1>1, <1>2, <1>3, <1>4 DEF TokenStep, UserStep, MintStep, BurnStep

LEMMA TreasurySolvencyStep ==
  ASSUME TypeOK, SeatOK, TreasuryStep
  PROVE  /\ balance'[EscrowAddr] >= balance[EscrowAddr]
         /\ EscrowAddr \notin Receivers => balance'[EscrowAddr] = balance[EscrowAddr]
<1>0. /\ balance \in [Account -> Nat] /\ EscrowAddr \in Account /\ TreasuryAddr \in Account
      /\ balance[EscrowAddr] \in Nat /\ balance[TreasuryAddr] \in Nat
      /\ beneficiary \in Account /\ TreasuryAddr # EscrowAddr
  BY TokenConstants DEF TypeOK, TreasuryTypeOK, TokenTypeOK, Account
<1>1. CASE Claim
  <2>1. balance' = Moved(balance, TreasuryAddr, beneficiary, balance[TreasuryAddr])
    BY <1>1 DEF Claim
  <2>2. /\ beneficiary = EscrowAddr =>
             balance'[EscrowAddr] = balance[EscrowAddr] + balance[TreasuryAddr]
        /\ beneficiary # EscrowAddr => balance'[EscrowAddr] = balance[EscrowAddr]
    BY <1>0, <2>1, FiniteAccounts, MovedFacts
  <2>3. QED BY <1>0, <2>2 DEF SeatOK
<1>2. CASE ~Claim
  <2>1. balance' = balance
    BY <1>2 DEF TreasuryStep, SetFeeBps, QueueBeneficiary, ActivateBeneficiary,
                CancelBeneficiaryChange, tokenVars
  <2>2. QED BY <1>0, <2>1
<1>3. QED BY <1>1, <1>2

LEMMA EscrowSolvencyStep ==
  ASSUME SolvencyInv, TypeOK', SeatOK', Idle, EscrowStep
  PROVE  SolvencyInv'
<1>0. /\ Users \subseteq Account /\ EscrowAddr \in Account /\ EscrowAddr \notin Users
      /\ balance \in [Account -> Nat] /\ book \in Book
      /\ balance[EscrowAddr] \in Nat
  BY TokenConstants DEF SolvencyInv, TypeOK, TreasuryTypeOK, TokenTypeOK, Account
<1>1. ASSUME NEW client \in Account, NEW n \in Nat, client # EscrowAddr,
             n <= balance[client], balance' = Moved(balance, client, EscrowAddr, n),
             Store(Deposited(client, n))
      PROVE  SolvencyInv'
  <2>1. Liabilities(book') = Liabilities(book) + n /\ work' = book' /\ exec' = exec
    BY <1>0, <1>1, DepositedFacts DEF Store
  <2>2. balance'[EscrowAddr] = balance[EscrowAddr] + n
    BY <1>0, <1>1, FiniteAccounts, MovedFacts
  <2>3. Liabilities(book) \in Nat
    BY <1>0, LiabilitiesType
  <2>4. /\ Liabilities(book') + 0 = Liabilities(book) + n
        /\ balance'[EscrowAddr] + 0 = balance[EscrowAddr] + n
        /\ balance'[EscrowAddr] + 0 >= balance[EscrowAddr] + n
    BY <1>0, <2>1, <2>2, <2>3
  <2>5. QED BY <1>1, <2>1, <2>4, OneStep
<1>2. ASSUME NEW to \in Receivers \cup Users, to \in Account, NEW n \in Nat, n <= balance[EscrowAddr],
             balance' = Moved(balance, EscrowAddr, to, n),
             Liabilities(book') = Liabilities(book) - n, work' = book', exec' = exec
      PROVE  SolvencyInv'
  <2>1. /\ to # EscrowAddr => balance'[EscrowAddr] = balance[EscrowAddr] - n
        /\ to = EscrowAddr => balance'[EscrowAddr] = balance[EscrowAddr]
    BY <1>0, <1>2, FiniteAccounts, MovedFacts
  <2>2. Liabilities(book) \in Nat
    BY <1>0, LiabilitiesType
  <2>3. /\ Liabilities(book') + n = Liabilities(book) + 0
        /\ balance'[EscrowAddr] + n >= balance[EscrowAddr] + 0
    BY <1>0, <1>2, <2>1, <2>2
  <2>4. EscrowAddr \notin Receivers => balance'[EscrowAddr] + n = balance[EscrowAddr] + 0
    BY <1>0, <1>2, <2>1
  <2>5. QED BY <1>2, <2>3, <2>4, OneStep
<1>3. ASSUME Liabilities(book') = Liabilities(book), balance' = balance,
             work' = book', exec' = exec
      PROVE  SolvencyInv'
  <2>1. Liabilities(book) \in Nat
    BY <1>0, LiabilitiesType
  <2>2. /\ Liabilities(book') + 0 = Liabilities(book) + 0
        /\ balance'[EscrowAddr] + 0 >= balance[EscrowAddr] + 0
        /\ balance'[EscrowAddr] + 0 = balance[EscrowAddr] + 0
    BY <1>0, <1>3, <2>1
  <2>3. QED BY <1>3, <2>2, OneStep
<1>4. ASSUME NEW client \in Users, NEW n \in EscrowAmounts, Deposit(client, n)
      PROVE  SolvencyInv'
  <2>1. n \in Nat
    BY EscrowConstants
  <2>2. QED BY <1>0, <1>1, <1>4, <2>1 DEF Deposit, CanMove
<1>5. ASSUME NEW p \in Permits, DepositWithPermit(p)
      PROVE  SolvencyInv'
  <2>1. p.owner \in Users /\ p.value \in Nat
    BY TokenConstants DEF Permit
  <2>2. QED BY <1>0, <1>1, <1>5, <2>1 DEF DepositWithPermit, CanMove
<1>6. ASSUME NEW client \in Users, NEW n \in EscrowAmounts, WithdrawDeposit(client, n)
      PROVE  SolvencyInv'
  <2>1. n \in Nat /\ client \in Account /\ n <= book.deposits[client] /\ n <= balance[EscrowAddr]
    BY <1>0, <1>6, EscrowConstants DEF WithdrawDeposit, CanMove
  <2>2. Liabilities(book') = Liabilities(book) - n /\ work' = book' /\ exec' = exec
    BY <1>0, <1>6, <2>1, WithdrawnFacts DEF WithdrawDeposit, Store
  <2>3. QED BY <1>2, <1>6, <2>1, <2>2 DEF WithdrawDeposit
<1>7. ASSUME NEW a \in Auths, WithdrawWithSig(a)
      PROVE  SolvencyInv'
  <2>1. /\ a.client \in Account /\ a.amount \in Nat /\ a.to \in Receivers /\ a.to \in Account
        /\ a.amount <= book.deposits[a.client] /\ a.amount <= balance[EscrowAddr]
    BY <1>0, <1>7, EscrowConstants DEF WithdrawWithSig, CanMove, Authorization
  <2>2. Liabilities(book') = Liabilities(book) - a.amount /\ work' = book' /\ exec' = exec
    BY <1>0, <1>7, <2>1, WithdrawnFacts DEF WithdrawWithSig, Store
  <2>3. QED BY <1>2, <1>7, <2>1, <2>2 DEF WithdrawWithSig
<1>8. ASSUME NEW a \in Auths, TransferDeposit(a)
      PROVE  SolvencyInv'
  <2>1. /\ a.client \in Account /\ a.amount \in Nat /\ a.to \in Account
        /\ a.amount <= book.deposits[a.client]
    BY <1>0, <1>8, EscrowConstants DEF TransferDeposit, Authorization, Address
  <2>2. Liabilities(book') = Liabilities(book) /\ work' = book' /\ exec' = exec
    BY <1>0, <1>8, <2>1, TransferredFacts DEF TransferDeposit, Store
  <2>3. QED BY <1>3, <1>8, <2>2 DEF TransferDeposit, tokenVars
<1>9. ASSUME NEW nodeAdmin \in Users, NEW to \in Receivers, NEW n \in EscrowAmounts,
             ClaimEarnings(nodeAdmin, to, n)
      PROVE  SolvencyInv'
  <2>1. /\ nodeAdmin \in Account /\ n \in Nat /\ to \in Account
        /\ n <= book.earnings[nodeAdmin] /\ n <= balance[EscrowAddr]
    BY <1>0, <1>9, EscrowConstants DEF ClaimEarnings, CanMove
  <2>2. Liabilities(book') = Liabilities(book) - n /\ work' = book' /\ exec' = exec
    BY <1>0, <1>9, <2>1, ClaimedFacts DEF ClaimEarnings, Store
  <2>3. QED BY <1>2, <1>9, <2>1, <2>2 DEF ClaimEarnings
<1>10. ASSUME NEW price \in PriceChoices, SetPricePerUnit(price)
       PROVE  SolvencyInv'
  <2>1. work = book
    BY DEF SolvencyInv, IdleIsClean
  <2>2. QED BY <1>3, <1>10, <2>1 DEF SetPricePerUnit, tokenVars
<1>11. QED BY <1>4, <1>5, <1>6, <1>7, <1>8, <1>9, <1>10 DEF EscrowStep

LEMMA BatchSolvencyStep ==
  ASSUME SolvencyInv, TypeOK', SeatOK', BatchStep
  PROVE  SolvencyInv'
<1>0. /\ TypeOK /\ BatchBalances /\ Solvent /\ ExactlyBacked
      /\ book \in Book /\ work \in Book /\ exec.fee \in Nat
      /\ balance \in [Account -> Nat] /\ EscrowAddr \in Account /\ TreasuryAddr \in Account
      /\ balance[EscrowAddr] \in Nat /\ EscrowAddr # TreasuryAddr
  BY TokenConstants DEF SolvencyInv, TypeOK, TreasuryTypeOK, TokenTypeOK, Account
<1>00. Liabilities(book) \in Nat /\ Liabilities(work) \in Nat
  BY <1>0, LiabilitiesType
<1>1. ASSUME NEW t \in Tickets, SettleOne(t)
      PROVE  SolvencyInv'
  <2>1. Liabilities(work') + exec'.fee = Liabilities(work) + exec.fee /\ exec'.size # 0
    BY <1>0, <1>1, SettledFacts
  <2>2. book' = book /\ balance' = balance
    BY <1>1 DEF SettleOne, tokenVars
  <2>3. BatchBalances' /\ IdleIsClean'
    BY <1>0, <2>1, <2>2 DEF BatchBalances, IdleIsClean, Idle
  <2>4. Solvent' /\ ExactlyBacked'
    BY <1>0, <2>2 DEF Solvent, ExactlyBacked
  <2>5. QED BY <2>3, <2>4 DEF SolvencyInv
<1>2. CASE SettleTicketBatch
  <2>1. /\ exec.fee <= balance[EscrowAddr]
        /\ balance' = Moved(balance, EscrowAddr, TreasuryAddr, exec.fee)
        /\ book' = work /\ work' = work /\ exec' = NoBatch
    BY <1>2 DEF SettleTicketBatch, CanMove
  <2>2. balance'[EscrowAddr] = balance[EscrowAddr] - exec.fee
    BY <1>0, <2>1, FiniteAccounts, MovedFacts
  <2>3. BatchBalances' /\ IdleIsClean'
    BY <1>00, <2>1 DEF BatchBalances, IdleIsClean, NoBatch
  <2>4. Solvent' /\ ExactlyBacked'
    BY <1>0, <1>00, <2>1, <2>2 DEF Solvent, ExactlyBacked, BatchBalances
  <2>5. QED BY <2>3, <2>4 DEF SolvencyInv
<1>3. CASE RevertBatch
  <2>1. book' = book /\ work' = book /\ exec' = NoBatch /\ balance' = balance
    BY <1>3 DEF RevertBatch, tokenVars
  <2>2. BatchBalances' /\ IdleIsClean'
    BY <1>00, <2>1 DEF BatchBalances, IdleIsClean, NoBatch
  <2>3. Solvent' /\ ExactlyBacked'
    BY <1>0, <2>1 DEF Solvent, ExactlyBacked
  <2>4. QED BY <2>2, <2>3 DEF SolvencyInv
<1>4. QED BY <1>1, <1>2, <1>3 DEF BatchStep

\* Steps that leave the escrow's storage alone.
LEMMA OutsideSolvencyStep ==
  ASSUME SolvencyInv, TypeOK', SeatOK', UNCHANGED <<book, work, exec>>,
         balance'[EscrowAddr] >= balance[EscrowAddr],
         EscrowAddr \notin Receivers => balance'[EscrowAddr] = balance[EscrowAddr]
  PROVE  SolvencyInv'
<1>1. /\ balance[EscrowAddr] \in Nat /\ balance'[EscrowAddr] \in Nat /\ book \in Book
  BY DEF SolvencyInv, TypeOK, TreasuryTypeOK, TokenTypeOK, Account
<1>2. Liabilities(book) \in Nat
  BY <1>1, LiabilitiesType
<1>3. IdleIsClean' /\ BatchBalances'
  BY DEF SolvencyInv, IdleIsClean, BatchBalances, Idle
<1>4. Solvent' /\ ExactlyBacked'
  BY <1>1, <1>2 DEF SolvencyInv, Solvent, ExactlyBacked
<1>5. QED BY <1>3, <1>4 DEF SolvencyInv

LEMMA SolvencyStep ==
  ASSUME SolvencyInv, [Next]_vars
  PROVE  SolvencyInv'
<1>1. TypeOK /\ SeatOK /\ TypeOK'
  BY TypeStep DEF SolvencyInv
<1>2. balance[EscrowAddr] \in Nat
  BY <1>1 DEF TypeOK, TreasuryTypeOK, TokenTypeOK, Account
<1>3. ASSUME UNCHANGED treasuryVars PROVE SeatOK'
  BY <1>1, <1>3 DEF SeatOK, treasuryVars
<1>4. ASSUME Idle, EscrowStep PROVE SolvencyInv'
  <2>1. UNCHANGED treasuryVars
    BY <1>4 DEF EscrowStep, Deposit, WithdrawDeposit, DepositWithPermit, WithdrawWithSig,
                TransferDeposit, ClaimEarnings, SetPricePerUnit
  <2>2. QED BY <1>1, <1>3, <1>4, <2>1, EscrowSolvencyStep
<1>5. CASE BatchStep
  <2>1. UNCHANGED treasuryVars
    BY <1>5 DEF BatchStep, SettleOne, SettleTicketBatch, RevertBatch
  <2>2. QED BY <1>1, <1>3, <1>5, <2>1, BatchSolvencyStep
<1>6. ASSUME TokenStep, UNCHANGED <<treasuryVars, escrowVars>> PROVE SolvencyInv'
  BY <1>1, <1>3, <1>6, TokenSolvencyStep, OutsideSolvencyStep DEF escrowVars
<1>7. ASSUME TreasuryStep, UNCHANGED escrowVars PROVE SolvencyInv'
  BY <1>1, <1>7, SeatStep, TreasurySolvencyStep, OutsideSolvencyStep DEF escrowVars
<1>8. ASSUME Tick, UNCHANGED <<treasuryVars, escrowVars>> PROVE SolvencyInv'
  <2>1. balance' = balance
    BY <1>8 DEF Tick, tokenVars
  <2>2. QED BY <1>1, <1>2, <1>3, <1>8, <2>1, OutsideSolvencyStep DEF escrowVars
<1>9. CASE UNCHANGED vars
  <2>1. balance' = balance /\ UNCHANGED <<treasuryVars, escrowVars>>
    BY <1>9 DEF vars, tokenVars
  <2>2. QED BY <1>1, <1>2, <1>3, <2>1, OutsideSolvencyStep DEF escrowVars
<1>10. QED BY <1>4, <1>5, <1>6, <1>7, <1>8, <1>9 DEF Next

\* The escrow holds at least the tokens that back every deposit and earning,
\* after any sequence of transactions of any users, node admins and owners.
THEOREM Solvency == Spec => []Solvent
<1>1. SolvencyInv => Solvent
  BY DEF SolvencyInv
<1>2. QED BY <1>1, SolvencyInit, SolvencyStep, PTL DEF Spec

\* It holds exactly those tokens if nobody names its address as a receiver.
THEOREM Backing == Spec => []ExactlyBacked
<1>1. SolvencyInv => ExactlyBacked
  BY DEF SolvencyInv
<1>2. QED BY <1>1, SolvencyInit, SolvencyStep, PTL DEF Spec

\* The transfer of the fee at the end of a batch never fails for lack of
\* tokens: a batch whose tickets are valid and pay something succeeds.
THEOREM BatchSucceeds == Spec => []BatchCanPayItsFee
<1>1. ASSUME SolvencyInv PROVE BatchCanPayItsFee
  <2>1. /\ balance[EscrowAddr] \in Nat /\ exec.fee \in Nat /\ TreasuryAddr \in Account
        /\ book \in Book /\ work \in Book
    BY <1>1 DEF SolvencyInv, TypeOK, TreasuryTypeOK, TokenTypeOK, Account
  <2>2. Liabilities(book) \in Nat /\ Liabilities(work) \in Nat
    BY <2>1, LiabilitiesType
  <2>3. exec.fee <= balance[EscrowAddr]
    BY <1>1, <2>1, <2>2 DEF SolvencyInv, BatchBalances, Solvent
  <2>4. QED BY <2>1, <2>3 DEF BatchCanPayItsFee, CanMove
<1>2. QED BY <1>1, SolvencyInit, SolvencyStep, PTL DEF Spec

-----------------------------------------------------------------------------
\* Channels.  What holds of the channels in the chain's storage has to hold of
\* the working copy as well, because a batch makes the copy the chain's.

PaidWithinCeiling(channels) ==
    \A ch \in Channel : channels[ch].paid <= channels[ch].settledUnits * PriceMax

StandsAtSigned(channels, ch) ==
    channels[ch].lastSequence # 0 =>
        \E t \in SignedTickets :
            /\ ChannelOf(t) = ch
            /\ t.sequenceNumber = channels[ch].lastSequence
            /\ t.cumulativeUnits = channels[ch].settledUnits

ChannelsInv ==
    /\ TypeOK
    /\ PaidWithinCeiling(book.channels) /\ PaidWithinCeiling(work.channels)
    /\ \A ch \in Channel : StandsAtSigned(book.channels, ch) /\ StandsAtSigned(work.channels, ch)

\* Only batches touch channels.
LEMMA ChannelsKept ==
  ASSUME EscrowStep, IdleIsClean, Idle
  PROVE  book'.channels = book.channels /\ work'.channels = work.channels
<1>1. work = book
  BY DEF IdleIsClean
<1>2. /\ \A client, n : Deposited(client, n).channels = book.channels
      /\ \A client, n : Withdrawn(client, n).channels = book.channels
      /\ \A d : [book EXCEPT !.deposits = d].channels = book.channels
      /\ \A e : [book EXCEPT !.earnings = e].channels = book.channels
  BY DEF Deposited, Withdrawn
<1>3. ASSUME NEW b, b.channels = book.channels, Store(b)
      PROVE  book'.channels = book.channels /\ work'.channels = work.channels
  BY <1>1, <1>3 DEF Store
<1>4. CASE \E client \in Users, n \in EscrowAmounts : Deposit(client, n) \/ WithdrawDeposit(client, n)
  BY <1>2, <1>3, <1>4 DEF Deposit, WithdrawDeposit
<1>5. CASE \E p \in Permits : DepositWithPermit(p)
  BY <1>2, <1>3, <1>5 DEF DepositWithPermit
<1>6. CASE \E a \in Auths : WithdrawWithSig(a) \/ TransferDeposit(a)
  <2>1. ASSUME NEW a \in Auths, WithdrawWithSig(a)
        PROVE  book'.channels = book.channels /\ work'.channels = work.channels
    BY <1>2, <1>3, <2>1 DEF WithdrawWithSig
  <2>2. ASSUME NEW a \in Auths, TransferDeposit(a)
        PROVE  book'.channels = book.channels /\ work'.channels = work.channels
    <3> DEFINE d == Moved(book.deposits, a.client, a.to, a.amount)
    <3>1. Store([book EXCEPT !.deposits = d])
      BY <2>2 DEF TransferDeposit
    <3> HIDE DEF d
    <3>2. QED BY <1>2, <1>3, <3>1
  <2>3. QED BY <1>6, <2>1, <2>2
<1>7. CASE \E nodeAdmin \in Users, to \in Receivers, n \in EscrowAmounts : ClaimEarnings(nodeAdmin, to, n)
  BY <1>2, <1>3, <1>7 DEF ClaimEarnings
<1>8. CASE \E price \in PriceChoices : SetPricePerUnit(price)
  BY <1>8 DEF SetPricePerUnit
<1>9. QED BY <1>4, <1>5, <1>6, <1>7, <1>8 DEF EscrowStep

\* Units settled in two parts, each within the ceiling price, are within it.
LEMMA CeilingAdds ==
  ASSUME NEW a \in Nat, NEW b \in Nat, a <= b, NEW p \in Nat, NEW q \in Nat, q <= p,
         NEW x \in Nat, x <= a * p, NEW y \in Nat, y <= (b - a) * q
  PROVE  x + y <= b * p
<1>1. PICK c \in Nat : b = a + c
  <2>1. b - a \in Nat /\ b = a + (b - a)
    OBVIOUS
  <2>2. QED BY <2>1
<1>2. PICK r \in Nat : p = q + r
  <2>1. p - q \in Nat /\ p = q + (p - q)
    OBVIOUS
  <2>2. QED BY <2>1
<1>3. b - a = c
  BY <1>1
<1>4. c * q \in Nat /\ c * r \in Nat /\ a * p \in Nat
  OBVIOUS
<1>5. b * p = a * p + c * p /\ c * p = c * q + c * r
  BY <1>1, <1>2
<1>6. QED BY <1>3, <1>4, <1>5

\* What one ticket costs is at most its new units at the price of the day.
LEMMA PaidForUnits ==
  ASSUME TypeOK, NEW t \in Tickets, TicketValid(t)
  PROVE  /\ ChannelOf(t) \in Channel
         /\ t.cumulativeUnits \in Nat /\ work.channels[ChannelOf(t)].settledUnits \in Nat
         /\ work.channels[ChannelOf(t)].settledUnits <= t.cumulativeUnits
         /\ Owed(t) \in Nat
         /\ Pay(Owed(t), work.deposits[t.client]) \in Nat
         /\ Pay(Owed(t), work.deposits[t.client]) <= Owed(t)
<1>1. t.client \in Account /\ t.cumulativeUnits \in Nat /\ ChannelOf(t) \in Channel
  BY EscrowConstants DEF Ticket, Account, ChannelOf, Channel
<1>2. work.deposits[t.client] \in Nat /\ work.channels[ChannelOf(t)].settledUnits \in Nat
  BY <1>1 DEF TypeOK, Book, ChannelState
<1>3. work.channels[ChannelOf(t)].settledUnits < t.cumulativeUnits
  BY <1>1, <1>2 DEF TicketValid
<1>4. t.cumulativeUnits - work.channels[ChannelOf(t)].settledUnits \in Nat
  BY <1>1, <1>2, <1>3
<1>5. pricePerUnit \in Nat
  BY EscrowConstants DEF TypeOK
<1>6. Owed(t) \in Nat
  BY <1>4, <1>5 DEF Owed
<1>7. QED BY <1>1, <1>2, <1>3, <1>6 DEF Pay

\* A settled ticket's channel stands at that ticket, and paid its new units.
LEMMA SettleChannels ==
  ASSUME ChannelsInv, NEW t \in Tickets, SettleOne(t)
  PROVE  /\ PaidWithinCeiling(work'.channels)
         /\ \A ch \in Channel : StandsAtSigned(work'.channels, ch)
<1> DEFINE paid == Pay(Owed(t), work.deposits[t.client])
           c == work.channels[ChannelOf(t)]
           new == [lastSequence |-> t.sequenceNumber, settledUnits |-> t.cumulativeUnits,
                   paid |-> c.paid + paid]
<1>1. /\ ChannelOf(t) \in Channel /\ t.cumulativeUnits \in Nat /\ c.settledUnits \in Nat
      /\ c.settledUnits <= t.cumulativeUnits
      /\ paid \in Nat /\ paid <= Owed(t)
      /\ t \in SignedTickets
  BY PaidForUnits DEF ChannelsInv, SettleOne, TicketValid
<1>2. c.paid \in Nat /\ work.channels \in [Channel -> ChannelState]
  BY <1>1 DEF ChannelsInv, TypeOK, Book, ChannelState
<1>3. work'.channels = [work.channels EXCEPT ![ChannelOf(t)] = new]
  BY DEF SettleOne
<1>4. Owed(t) = (t.cumulativeUnits - c.settledUnits) * pricePerUnit
  BY DEF Owed
<1>5. pricePerUnit \in Nat /\ PriceMax \in Nat /\ pricePerUnit <= PriceMax
  BY EscrowConstants DEF ChannelsInv, TypeOK
<1>6. c.paid <= c.settledUnits * PriceMax
  BY <1>1 DEF ChannelsInv, PaidWithinCeiling
<1> HIDE DEF paid, c
<1>7. c.paid + paid <= t.cumulativeUnits * PriceMax
  <2> DEFINE a == c.settledUnits
             b == t.cumulativeUnits
             x == c.paid
  <2>1. /\ a \in Nat /\ b \in Nat /\ a <= b /\ x \in Nat /\ x <= a * PriceMax
        /\ paid \in Nat /\ paid <= (b - a) * pricePerUnit
    BY <1>1, <1>2, <1>4, <1>6
  <2> HIDE DEF a, b, x
  <2>2. x + paid <= b * PriceMax
    BY <1>5, <2>1, CeilingAdds
  <2>3. QED BY <2>2 DEF b, x
<1>8. ASSUME NEW ch \in Channel
      PROVE  work'.channels[ch] = IF ch = ChannelOf(t) THEN new ELSE work.channels[ch]
  BY <1>1, <1>2, <1>3
<1>9. PaidWithinCeiling(work'.channels)
  <2>1. SUFFICES ASSUME NEW ch \in Channel
                 PROVE  work'.channels[ch].paid <= work'.channels[ch].settledUnits * PriceMax
    BY DEF PaidWithinCeiling
  <2>2. CASE ch = ChannelOf(t)
    BY <1>7, <1>8, <2>2
  <2>3. CASE ch # ChannelOf(t)
    BY <1>8, <2>3 DEF ChannelsInv, PaidWithinCeiling
  <2>4. QED BY <2>2, <2>3
<1>10. ASSUME NEW ch \in Channel PROVE StandsAtSigned(work'.channels, ch)
  <2>1. CASE ch = ChannelOf(t)
    BY <1>1, <1>8, <2>1 DEF StandsAtSigned
  <2>2. CASE ch # ChannelOf(t)
    BY <1>8, <2>2 DEF ChannelsInv, StandsAtSigned
  <2>3. QED BY <2>1, <2>2
<1>11. QED BY <1>9, <1>10

LEMMA ChannelsInit == Init => ChannelsInv
<1> SUFFICES ASSUME Init PROVE ChannelsInv
  OBVIOUS
<1>1. TypeOK
  BY TypeInit
<1>2. ASSUME NEW ch \in Channel
      PROVE  /\ book.channels[ch].paid = 0 /\ book.channels[ch].lastSequence = 0
             /\ book.channels[ch].settledUnits = 0 /\ work = book
  BY DEF Init
<1>3. 0 <= 0 * PriceMax
  BY EscrowConstants
<1>4. QED BY <1>1, <1>2, <1>3 DEF ChannelsInv, PaidWithinCeiling, StandsAtSigned

LEMMA ChannelsStep ==
  ASSUME ChannelsInv, SolvencyInv, [Next]_vars
  PROVE  ChannelsInv'
<1>1. TypeOK' /\ IdleIsClean
  BY TypeStep DEF ChannelsInv, SolvencyInv
<1>2. ASSUME book'.channels \in {book.channels, work.channels},
             work'.channels \in {book.channels, work.channels}
      PROVE  ChannelsInv'
  BY <1>1, <1>2 DEF ChannelsInv, PaidWithinCeiling, StandsAtSigned
<1>3. ASSUME Idle, EscrowStep PROVE ChannelsInv'
  BY <1>1, <1>2, <1>3, ChannelsKept
<1>4. ASSUME NEW t \in Tickets, SettleOne(t) PROVE ChannelsInv'
  <2>1. book' = book
    BY <1>4 DEF SettleOne
  <2>2. /\ PaidWithinCeiling(work'.channels)
        /\ \A ch \in Channel : StandsAtSigned(work'.channels, ch)
    BY <1>4, SettleChannels
  <2>3. QED BY <1>1, <2>1, <2>2 DEF ChannelsInv, PaidWithinCeiling, StandsAtSigned
<1>5. CASE SettleTicketBatch \/ RevertBatch
  BY <1>2, <1>5 DEF SettleTicketBatch, RevertBatch
<1>6. ASSUME UNCHANGED <<book, work>> PROVE ChannelsInv'
  BY <1>2, <1>6
<1>7. QED BY <1>3, <1>4, <1>5, <1>6 DEF Next, BatchStep, escrowVars, vars

\* Over all batches, prices and tickets no channel pays a unit twice: the sum
\* of its payments is at most the ceiling price of the units it settled.
THEOREM UnitsPaidOnce == Spec => []NoUnitPaidTwice
<1>1. ChannelsInv => NoUnitPaidTwice
  BY DEF ChannelsInv, PaidWithinCeiling, NoUnitPaidTwice
<1>2. QED BY <1>1, ChannelsInit, ChannelsStep, SolvencyInit, SolvencyStep, PTL DEF Spec

\* A channel always stands at one ticket its client signed, whole.
THEOREM SettledSigned == Spec => []SettledUnitsAreSigned
<1>1. ChannelsInv => SettledUnitsAreSigned
  BY DEF ChannelsInv, StandsAtSigned, SettledUnitsAreSigned
<1>2. QED BY <1>1, ChannelsInit, ChannelsStep, SolvencyInit, SolvencyStep, PTL DEF Spec

\* What is owed in two parts is paid in two parts.
LEMMA PayAdds ==
  ASSUME NEW a \in Nat, NEW o1 \in Nat, NEW o2 \in Nat, o1 <= o2
  PROVE  Pay(o2, a) = Pay(o1, a) + Pay(o2 - o1, a - Pay(o1, a))
<1>1. CASE o1 <= a
  BY <1>1 DEF Pay
<1>2. CASE a < o1
  BY <1>2 DEF Pay
<1>3. QED BY <1>1, <1>2

LEMMA OwedGrows ==
  ASSUME NEW s \in Nat, NEW u1 \in Nat, NEW u2 \in Nat, s <= u1, u1 <= u2, NEW p \in Nat
  PROVE  (u1 - s) * p \in Nat /\ (u2 - s) * p \in Nat /\ (u1 - s) * p <= (u2 - s) * p
<1>1. PICK b \in Nat, c \in Nat : u1 = s + b /\ u2 = s + b + c
  <2>1. u1 - s \in Nat /\ u2 - u1 \in Nat
    OBVIOUS
  <2>2. u1 = s + (u1 - s) /\ u2 = s + (u1 - s) + (u2 - u1)
    OBVIOUS
  <2>3. QED BY <2>1, <2>2
<1>2. u1 - s = b /\ u2 - s = b + c
  BY <1>1
<1>3. b * p \in Nat /\ c * p \in Nat /\ (b + c) * p = b * p + c * p
  OBVIOUS
<1>4. QED BY <1>2, <1>3

\* Losing the ticket between two others changes nothing: whatever the prices,
\* deposits and tickets, the later one alone takes what both would take.
THEOREM TicketsCompose == Spec => []CumulativeTicketsCompose
<1>1. ASSUME TypeOK PROVE CumulativeTicketsCompose
  <2>1. SUFFICES ASSUME NEW t1 \in SignedTickets, NEW t2 \in SignedTickets,
                        ChannelOf(t1) = ChannelOf(t2), TicketValid(t1),
                        t2.cumulativeUnits > t1.cumulativeUnits
                 PROVE  LET available == work.deposits[t1.client]
                            first == Pay(Owed(t1), available)
                            rest == Owed(t2) - Owed(t1)
                        IN Pay(Owed(t2), available) = first + Pay(rest, available - first)
    BY DEF CumulativeTicketsCompose
  <2> DEFINE s == work.channels[ChannelOf(t1)].settledUnits
             a == work.deposits[t1.client]
  <2>2. t1 \in Tickets /\ t2 \in Tickets
    BY EscrowConstants
  <2>3. /\ t1.cumulativeUnits \in Nat /\ s \in Nat /\ s <= t1.cumulativeUnits
    BY <1>1, <2>1, <2>2, PaidForUnits
  <2>4. t2.cumulativeUnits \in Nat /\ t1.client \in Account
    BY <2>2, EscrowConstants DEF Ticket, Account
  <2>5. pricePerUnit \in Nat /\ a \in Nat
    BY <1>1, <2>4, EscrowConstants DEF TypeOK, Book
  <2>6. /\ Owed(t1) = (t1.cumulativeUnits - s) * pricePerUnit
        /\ Owed(t2) = (t2.cumulativeUnits - s) * pricePerUnit
    BY <2>1 DEF Owed
  <2> HIDE DEF s, a
  <2>7. Owed(t1) \in Nat /\ Owed(t2) \in Nat /\ Owed(t1) <= Owed(t2)
    BY <2>1, <2>3, <2>4, <2>5, <2>6, OwedGrows
  <2>8. Pay(Owed(t2), a) = Pay(Owed(t1), a) + Pay(Owed(t2) - Owed(t1), a - Pay(Owed(t1), a))
    BY <2>5, <2>7, PayAdds
  <2>9. QED BY <2>8 DEF a
<1>2. QED BY <1>1, TypeInit, TypeStep, PTL DEF Spec

-----------------------------------------------------------------------------
\* Debits.  Why a deposit may shrink, transaction by transaction.

Authorised(c) ==
    LET n == work.deposits[c] - work'.deposits[c] IN
    n > 0 => ByAuthorization(c, n) \/ ByTicket(c, n) \/ ToOwnWallet(c, n)

\* The client's own withdrawal goes into its own wallet.
LEMMA WithdrawDepositAuthorised ==
  ASSUME SolvencyInv, Idle, NEW client \in Users, NEW n \in EscrowAmounts,
         WithdrawDeposit(client, n), NEW c \in Users
  PROVE  Authorised(c)
<1> DEFINE f == book.deposits
           g == Debit(book.deposits, client, n)
<1>1. /\ f \in [Account -> Nat] /\ client \in Account /\ c \in Account
      /\ n \in Nat /\ n <= f[client] /\ work = book
  BY EscrowConstants DEF SolvencyInv, TypeOK, Book, IdleIsClean, Account, WithdrawDeposit
<1>2. work'.deposits = g
  BY <1>1 DEF WithdrawDeposit, Store, Withdrawn, SolvencyInv, TypeOK, Book
<1>3. /\ g[client] = f[client] - n
      /\ \A a \in Account : a # client => g[a] = f[a]
  BY <1>1, FiniteAccounts, TotalDebit
<1>4. balance' = Moved(balance, EscrowAddr, client, n)
  BY DEF WithdrawDeposit
<1> HIDE DEF f, g
<1>5. ASSUME f[c] - g[c] > 0 PROVE ToOwnWallet(c, f[c] - g[c])
  <2>1. c = client
    BY <1>1, <1>3, <1>5
  <2>2. f[c] - g[c] = n
    BY <1>1, <1>3, <2>1
  <2>3. QED BY <1>4, <2>1, <2>2 DEF ToOwnWallet
<1>6. QED BY <1>1, <1>2, <1>5 DEF Authorised, f

\* An authorised withdrawal is signed, in time, unused, and is delivered.
LEMMA WithdrawWithSigAuthorised ==
  ASSUME SolvencyInv, Idle, NEW a \in Auths, WithdrawWithSig(a), NEW c \in Users
  PROVE  Authorised(c)
<1> DEFINE f == book.deposits
           g == Debit(book.deposits, a.client, a.amount)
<1>1. /\ f \in [Account -> Nat] /\ a.client \in Users /\ a.client \in Account /\ c \in Account
      /\ a.amount \in Nat /\ a.amount <= f[a.client] /\ work = book
  BY EscrowConstants
     DEF SolvencyInv, TypeOK, Book, IdleIsClean, Account, WithdrawWithSig, Authorization
<1>2. work'.deposits = g
  BY <1>1 DEF WithdrawWithSig, Store, Withdrawn, SolvencyInv, TypeOK, Book
<1>3. /\ g[a.client] = f[a.client] - a.amount
      /\ \A b \in Account : b # a.client => g[b] = f[b]
  BY <1>1, FiniteAccounts, TotalDebit
<1>4. /\ a \in SignedAuths /\ now <= a.deadline /\ a.nonce = authNonces[a.client]
      /\ authNonces'[a.client] = a.nonce + 1
      /\ CarriedOut(a)
  BY <1>1 DEF WithdrawWithSig, UseAuthorization, AuthorizationValid, CarriedOut,
              SolvencyInv, TypeOK
<1> HIDE DEF f, g
<1>5. ASSUME f[c] - g[c] > 0 PROVE ByAuthorization(c, f[c] - g[c])
  <2>1. c = a.client
    BY <1>1, <1>3, <1>5
  <2>2. f[c] - g[c] = a.amount
    BY <1>1, <1>3, <2>1
  <2>3. QED BY <1>4, <2>1, <2>2 DEF ByAuthorization
<1>6. QED BY <1>1, <1>2, <1>5 DEF Authorised, f

\* An authorised transfer of deposit likewise.
LEMMA TransferDepositAuthorised ==
  ASSUME SolvencyInv, Idle, NEW a \in Auths, TransferDeposit(a), NEW c \in Users
  PROVE  Authorised(c)
<1> DEFINE f == book.deposits
           g == Moved(book.deposits, a.client, a.to, a.amount)
<1>1. /\ f \in [Account -> Nat] /\ a.client \in Users /\ a.client \in Account /\ c \in Account
      /\ a.to \in Account /\ a.amount \in Nat /\ a.amount <= f[a.client] /\ work = book
  BY EscrowConstants
     DEF SolvencyInv, TypeOK, Book, IdleIsClean, Account, Address, TransferDeposit, Authorization
<1>2. work'.deposits = g
  BY <1>1 DEF TransferDeposit, Store, SolvencyInv, TypeOK, Book
<1>3. /\ a.client # a.to => /\ g[a.client] = f[a.client] - a.amount
                            /\ g[a.to] = f[a.to] + a.amount
      /\ a.client = a.to => g[a.client] = f[a.client]
      /\ \A b \in Account : b # a.client /\ b # a.to => g[b] = f[b]
  <2> DEFINE from == a.client
             to == a.to
             n == a.amount
  <2>1. /\ from \in Account /\ to \in Account /\ n \in Nat /\ f \in [Account -> Nat]
        /\ n <= f[from] /\ g = Moved(f, from, to, n)
    BY <1>1
  <2> HIDE DEF f, g, from, to, n
  <2>2. /\ from # to => g[from] = f[from] - n /\ g[to] = f[to] + n
        /\ from = to => g[from] = f[from]
        /\ \A b \in Account : b # from /\ b # to => g[b] = f[b]
    BY <2>1, FiniteAccounts, MovedFacts
  <2>3. QED BY <2>2 DEF from, to, n
<1>4. /\ a \in SignedAuths /\ now <= a.deadline /\ a.nonce = authNonces[a.client]
      /\ authNonces'[a.client] = a.nonce + 1
      /\ CarriedOut(a)
  BY <1>1, <1>2 DEF TransferDeposit, UseAuthorization, AuthorizationValid, CarriedOut,
                    SolvencyInv, TypeOK
<1> HIDE DEF f, g
<1>5. ASSUME f[c] - g[c] > 0 PROVE ByAuthorization(c, f[c] - g[c])
  <2>1. c = a.client /\ a.client # a.to
    BY <1>1, <1>3, <1>5
  <2>2. f[c] - g[c] = a.amount
    BY <1>1, <1>3, <2>1
  <2>3. QED BY <1>4, <2>1, <2>2 DEF ByAuthorization
<1>6. QED BY <1>1, <1>2, <1>5 DEF Authorised, f

\* A ticket takes at most what its new units cost at the current price.
LEMMA SettleOneAuthorised ==
  ASSUME SolvencyInv, NEW t \in Tickets, SettleOne(t), NEW c \in Users
  PROVE  Authorised(c)
<1> DEFINE f == work.deposits
           paid == Pay(Owed(t), work.deposits[t.client])
           g == Debit(work.deposits, t.client, paid)
<1>1. f \in [Account -> Nat] /\ t.client \in Account /\ c \in Account
  BY EscrowConstants DEF SolvencyInv, TypeOK, Book, Account, Ticket
<1>2. /\ ChannelOf(t) \in Channel /\ paid \in Nat /\ paid <= Owed(t) /\ Owed(t) \in Nat
      /\ paid <= f[t.client]
  BY PaidForUnits, PaidFacts DEF SolvencyInv, SettleOne
<1>3. work'.deposits = g
  BY DEF SettleOne
<1>4. /\ t \in SignedTickets /\ now <= t.epochExpiry
      /\ work'.channels[ChannelOf(t)].settledUnits = t.cumulativeUnits
  <2>1. now \in Nat /\ t.epochExpiry \in Nat
    BY EscrowConstants DEF SolvencyInv, TypeOK, TreasuryTypeOK, TokenTypeOK, Ticket
  <2>2. work.channels \in [Channel -> ChannelState]
    BY DEF SolvencyInv, TypeOK, Book
  <2>3. QED BY <1>2, <2>1, <2>2 DEF SettleOne, TicketValid
<1> HIDE DEF paid
<1>5. /\ g[t.client] = f[t.client] - paid
      /\ \A b \in Account : b # t.client => g[b] = f[b]
  BY <1>1, <1>2, FiniteAccounts, TotalDebit
<1> HIDE DEF f, g
<1>6. ASSUME f[c] - g[c] > 0 PROVE ByTicket(c, f[c] - g[c])
  <2>1. c = t.client
    BY <1>1, <1>5, <1>6
  <2>2. f[c] - g[c] = paid
    BY <1>1, <1>2, <1>5, <2>1
  <2>3. QED BY <1>2, <1>4, <2>1, <2>2 DEF ByTicket
<1>7. QED BY <1>3, <1>6 DEF Authorised, f

\* Nothing else debits.
LEMMA NoDebit ==
  ASSUME NEW c \in Users, work.deposits[c] \in Nat, work'.deposits[c] \in Nat,
         work'.deposits[c] >= work.deposits[c]
  PROVE  Authorised(c)
BY DEF Authorised

LEMMA DepositedNoDebit ==
  ASSUME SolvencyInv, Idle, NEW client \in Users, NEW n \in Nat,
         Store(Deposited(client, n)), NEW c \in Users
  PROVE  Authorised(c)
<1>1. /\ book.deposits \in [Account -> Nat] /\ client \in Account /\ c \in Account /\ work = book
  BY DEF SolvencyInv, TypeOK, Book, IdleIsClean, Account
<1>2. work'.deposits = Credit(book.deposits, client, n)
  BY <1>1 DEF Store, Deposited, SolvencyInv, TypeOK, Book
<1>3. /\ Credit(book.deposits, client, n) \in [Account -> Nat]
      /\ Credit(book.deposits, client, n)[c] >= book.deposits[c]
  <2>1. Credit(book.deposits, client, n)[c] =
          IF c = client THEN book.deposits[c] + n ELSE book.deposits[c]
    BY <1>1 DEF Credit
  <2>2. QED BY <1>1, <2>1 DEF Credit
<1>4. QED BY <1>1, <1>2, <1>3, NoDebit

\* A batch that is undone gives back what it took: it never held more of a
\* deposit than the chain's storage says.
OnlySpent == \A a \in Account : work.deposits[a] <= book.deposits[a]

LEMMA OnlySpentStep ==
  ASSUME SolvencyInv, OnlySpent, [Next]_vars
  PROVE  OnlySpent'
<1>1. TypeOK /\ TypeOK' /\ IdleIsClean
  BY TypeStep DEF SolvencyInv
<1>2. ASSUME NEW a \in Account
      PROVE  /\ work.deposits[a] \in Nat /\ book.deposits[a] \in Nat
             /\ work'.deposits[a] \in Nat /\ book'.deposits[a] \in Nat
  BY <1>1 DEF TypeOK, Book
<1>3. ASSUME work' = book' PROVE OnlySpent'
  BY <1>2, <1>3 DEF OnlySpent
<1>4. ASSUME Idle, EscrowStep PROVE OnlySpent'
  <2>1. work' = book'
    BY <1>1, <1>4 DEF IdleIsClean, EscrowStep, Deposit, WithdrawDeposit, DepositWithPermit,
                      WithdrawWithSig, TransferDeposit, ClaimEarnings, SetPricePerUnit, Store
  <2>2. QED BY <1>3, <2>1
<1>5. ASSUME NEW t \in Tickets, SettleOne(t) PROVE OnlySpent'
  <2> DEFINE paid == Pay(Owed(t), work.deposits[t.client])
  <2>1. t.client \in Account /\ work.deposits \in [Account -> Nat]
    BY <1>1, EscrowConstants DEF TypeOK, Book, Account, Ticket
  <2>2. paid \in Nat
    BY <1>1, <1>5, PaidFacts DEF SettleOne
  <2>3. work'.deposits = Debit(work.deposits, t.client, paid) /\ book' = book
    BY <1>5 DEF SettleOne
  <2> HIDE DEF paid
  <2>4. ASSUME NEW a \in Account PROVE work'.deposits[a] <= work.deposits[a]
    BY <1>2, <2>1, <2>2, <2>3 DEF Debit
  <2>5. SUFFICES ASSUME NEW a \in Account PROVE work'.deposits[a] <= book'.deposits[a]
    BY DEF OnlySpent
  <2>6. work'.deposits[a] <= work.deposits[a] /\ work.deposits[a] <= book.deposits[a]
    BY <2>4 DEF OnlySpent
  <2>7. QED BY <1>2, <2>3, <2>6
<1>6. CASE SettleTicketBatch \/ RevertBatch
  BY <1>3, <1>6 DEF SettleTicketBatch, RevertBatch
<1>7. ASSUME UNCHANGED <<book, work>> PROVE OnlySpent'
  BY <1>7 DEF OnlySpent
<1>8. QED BY <1>4, <1>5, <1>6, <1>7 DEF Next, BatchStep, escrowVars, vars

LEMMA DebitStep ==
  ASSUME SolvencyInv, OnlySpent, [Next]_vars, NEW c \in Users
  PROVE  Authorised(c)
<1>1. TypeOK /\ TypeOK' /\ IdleIsClean /\ c \in Account
  BY TypeStep DEF SolvencyInv, Account
<1>2. /\ work.deposits[c] \in Nat /\ book.deposits[c] \in Nat
      /\ work'.deposits[c] \in Nat /\ book'.deposits[c] \in Nat
  BY <1>1 DEF TypeOK, Book
<1>3. ASSUME work'.deposits = work.deposits PROVE Authorised(c)
  BY <1>2, <1>3, NoDebit
<1>4. ASSUME Idle, EscrowStep PROVE Authorised(c)
  <2>1. ASSUME NEW client \in Users, NEW n \in EscrowAmounts, Deposit(client, n)
        PROVE  Authorised(c)
    BY <1>4, <2>1, EscrowConstants, DepositedNoDebit DEF Deposit
  <2>2. ASSUME NEW p \in Permits, DepositWithPermit(p)
        PROVE  Authorised(c)
    <3>1. p.owner \in Users /\ p.value \in Nat
      BY TokenConstants DEF Permit
    <3>2. QED BY <1>4, <2>2, <3>1, DepositedNoDebit DEF DepositWithPermit
  <2>3. ASSUME NEW nodeAdmin \in Users, NEW to \in Receivers, NEW n \in EscrowAmounts,
               ClaimEarnings(nodeAdmin, to, n)
        PROVE  Authorised(c)
    <3>1. \A e : [book EXCEPT !.earnings = e].deposits = book.deposits
      BY <1>1 DEF TypeOK, Book
    <3>2. work = book
      BY <1>1, <1>4 DEF IdleIsClean
    <3>3. QED BY <1>3, <2>3, <3>1, <3>2 DEF ClaimEarnings, Store
  <2>4. ASSUME NEW price \in PriceChoices, SetPricePerUnit(price)
        PROVE  Authorised(c)
    BY <1>3, <2>4 DEF SetPricePerUnit
  <2>5. QED
    BY <1>4, <2>1, <2>2, <2>3, <2>4, WithdrawDepositAuthorised, WithdrawWithSigAuthorised,
       TransferDepositAuthorised DEF EscrowStep
<1>5. CASE RevertBatch
  BY <1>1, <1>2, <1>5, NoDebit DEF RevertBatch, OnlySpent
<1>6. CASE SettleTicketBatch
  BY <1>3, <1>6 DEF SettleTicketBatch
<1>7. ASSUME UNCHANGED work PROVE Authorised(c)
  BY <1>3, <1>7
<1>8. QED
  BY <1>4, <1>5, <1>6, <1>7, SettleOneAuthorised DEF Next, BatchStep, escrowVars, vars

\* No transaction takes from a client's deposit without the client's word for
\* that very amount, whoever sends it, in whatever order.
THEOREM DebitsAuthorised == Spec => NoUnauthorisedDebit
<1>1. Init => OnlySpent
  <2>1. SUFFICES ASSUME Init PROVE OnlySpent
    OBVIOUS
  <2>2. work = book /\ TypeOK
    BY <2>1, TypeInit DEF Init
  <2>3. QED BY <2>2 DEF OnlySpent, TypeOK, Book
<1>2. SolvencyInv /\ OnlySpent /\ [Next]_vars => \A c \in Users : Authorised(c)
  BY DebitStep
<1>3. (\A c \in Users : Authorised(c)) =>
        \A c \in Users :
          LET n == work.deposits[c] - work'.deposits[c] IN
          n > 0 => ByAuthorization(c, n) \/ ByTicket(c, n) \/ ToOwnWallet(c, n)
  BY DEF Authorised
<1>4. QED
  BY <1>1, <1>2, <1>3, SolvencyInit, SolvencyStep, OnlySpentStep, PTL
     DEF Spec, NoUnauthorisedDebit
=============================================================================
