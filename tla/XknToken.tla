------------------------------ MODULE XknToken ------------------------------
(***************************************************************************)
(* contracts/src/xKoinToken.sol: an ERC-20 with EIP-2612 permits whose     *)
(* supply is moved by bridge accounts (the kiosk's fiat services) under an *)
(* on-chain daily mint cap.  ERC20, ERC20Permit and Ownable2Step are       *)
(* OpenZeppelin's and are modelled from how the contracts use them.        *)
(*                                                                         *)
(* A transaction is one step.  A transaction that reverts changes nothing  *)
(* and is not a step, so a guard below is the conjunction of everything    *)
(* the code requires on the way to its last assignment.                    *)
(***************************************************************************)
EXTENDS Accounting

CONSTANTS
    Users,         \* externally owned accounts: clients, node admins, bridges
    EscrowAddr,    \* the deployed xKoinEscrow
    TreasuryAddr,  \* the deployed xKoinTreasury
    ZeroAddr,      \* address(0), which OpenZeppelin refuses as a receiver
    Bridges,       \* the accounts the owner may make a bridge
    Permits,       \* EIP-2612 permits anybody may submit ...
    SignedPermits, \* ... and those of them their owner really signed
    Amounts,       \* amounts of base units a caller of the token may name
    Receivers,     \* addresses a caller may name as receiver
    Caps,          \* daily mint caps the owner may set
    InitBalance,   \* user balances the run starts from
    Day,           \* `1 days` in clock units
    MaxTime        \* bound of the clock

Account == Users \cup {EscrowAddr, TreasuryAddr}
Address == Account \cup {ZeroAddr}

Permit == [owner : Users, value : Nat, nonce : Nat, deadline : Nat]

ASSUME TokenConstants ==
    /\ IsFiniteSet(Users)
    /\ EscrowAddr \notin Users /\ TreasuryAddr \notin Users
    /\ EscrowAddr # TreasuryAddr /\ ZeroAddr \notin Account
    /\ Bridges \subseteq Users /\ Receivers \subseteq Address
    /\ Permits \subseteq Permit /\ SignedPermits \subseteq Permits
    /\ Amounts \subseteq Nat /\ Caps \subseteq Nat
    /\ InitBalance \in [Users -> Nat]
    /\ Day \in Nat \ {0} /\ MaxTime \in Nat

VARIABLES
    now,          \* block.timestamp
    balance,      \* ERC20._balances
    allowance,    \* ERC20._allowances[owner][escrow], the only spender in use
    permitNonce,  \* Nonces._nonces of ERC20Permit
    bridges       \* mapping(address => BridgeInfo)

tokenVars == <<balance, allowance, permitNonce, bridges>>

BridgeInfo == [allowed : BOOLEAN, dailyMintCap : Nat,
               mintedInWindow : Nat, windowStart : Nat]

(***************************************************************************)
(* The clock starts a day after timestamp 0, as every real chain's has.    *)
(***************************************************************************)
TokenInit ==
    /\ now = Day
    /\ balance = [a \in Account |-> IF a \in Users THEN InitBalance[a] ELSE 0]
    /\ allowance = [u \in Users |-> 0]
    /\ permitNonce = [u \in Users |-> 0]
    /\ bridges = [b \in Bridges |-> [allowed |-> FALSE, dailyMintCap |-> 0,
                                     mintedInWindow |-> 0, windowStart |-> 0]]

-----------------------------------------------------------------------------
\* Pure parts of the ERC-20, shared with the contracts that call the token.

\* Wrong: both new balances are computed from the old ones.
MovedFromSnapshot(bal, from, to, n) ==
    [bal EXCEPT ![from] = bal[from] - n, ![to] = bal[to] + n]

\* balances after `from` sends n units to `to` (Debit first: from may be to).
Moved(bal, from, to, n) == Credit(Debit(bal, from, n), to, n)

\* Wrong: the sender's balance is not looked at.
CanMoveUnchecked(from, to, n) == to \in Account

CanMove(from, to, n) == to \in Account /\ balance[from] >= n

\* ERC20Permit accepts p: signed by its owner, in time, nonce not yet used.
PermitValid(p) ==
    /\ p \in SignedPermits
    /\ now <= p.deadline
    /\ p.nonce = permitNonce[p.owner]

\* allowances and nonces after the token accepted p.
Permitted(p) == [allowance EXCEPT ![p.owner] = p.value]
NonceUsed(p) == [permitNonce EXCEPT ![p.owner] = @ + 1]

-----------------------------------------------------------------------------
\* A user sends tokens to any account, the escrow's and the treasury's included.
TokenTransfer(from, to, n) ==
    /\ CanMove(from, to, n)
    /\ balance' = Moved(balance, from, to, n)
    /\ UNCHANGED <<now, allowance, permitNonce, bridges>>

\* A user lets the escrow draw n units.
Approve(owner, n) ==
    /\ allowance' = [allowance EXCEPT ![owner] = n]
    /\ UNCHANGED <<now, balance, permitNonce, bridges>>

\* Anybody submits a permit straight to the token, ahead of a relayer or not.
SubmitPermit(p) ==
    /\ PermitValid(p)
    /\ allowance' = Permitted(p)
    /\ permitNonce' = NonceUsed(p)
    /\ UNCHANGED <<now, balance, bridges>>

\* Wrong: a new cap also starts a new, empty window.
SetBridgeRestarts(b, allowed, cap) ==
    /\ bridges' = [bridges EXCEPT ![b] = [allowed |-> allowed, dailyMintCap |-> cap,
                                          mintedInWindow |-> 0, windowStart |-> now]]
    /\ UNCHANGED <<now, balance, allowance, permitNonce>>

\* The owner allows or stops a bridge and sets its cap; the window stays.
SetBridge(b, allowed, cap) ==
    /\ bridges' = [bridges EXCEPT ![b].allowed = allowed,
                                  ![b].dailyMintCap = cap]
    /\ UNCHANGED <<now, balance, allowance, permitNonce>>

\* The window a mint at time `now` counts against: a day after the window's
\* first mint the next mint opens a new, empty one.
MintWindow(b) ==
    IF now >= bridges[b].windowStart + Day
      THEN [start |-> now, minted |-> 0]
      ELSE [start |-> bridges[b].windowStart,
            minted |-> bridges[b].mintedInWindow]

BridgeMint(b, to, n) ==
    /\ bridges[b].allowed
    /\ MintWindow(b).minted + n <= bridges[b].dailyMintCap
    /\ to \in Account
    /\ bridges' = [bridges EXCEPT
                     ![b].windowStart = MintWindow(b).start,
                     ![b].mintedInWindow = MintWindow(b).minted + n]
    /\ balance' = Credit(balance, to, n)
    /\ UNCHANGED <<now, allowance, permitNonce>>

\* A bridge burns from its own balance, after it paid the fiat out.
BridgeBurn(b, n) ==
    /\ bridges[b].allowed
    /\ balance[b] >= n
    /\ balance' = Debit(balance, b, n)
    /\ UNCHANGED <<now, allowance, permitNonce, bridges>>

\* Blocks are produced while the bound of the run allows.
Tick ==
    /\ now < MaxTime
    /\ now' = now + 1
    /\ UNCHANGED tokenVars

UserStep ==
    \/ \E from \in Users, to \in Receivers, n \in Amounts : TokenTransfer(from, to, n)
    \/ \E owner \in Users, n \in Amounts : Approve(owner, n)
    \/ \E p \in Permits : SubmitPermit(p)

OwnerStep == \E b \in Bridges, allowed \in BOOLEAN, cap \in Caps : SetBridge(b, allowed, cap)

MintStep == \E b \in Bridges, to \in Receivers, n \in Amounts : BridgeMint(b, to, n)
BurnStep == \E b \in Bridges, n \in Amounts : BridgeBurn(b, n)

TokenStep == UserStep \/ OwnerStep \/ MintStep \/ BurnStep

TokenNext == TokenStep \/ Tick

TokenSpec == TokenInit /\ [][TokenNext]_<<now, tokenVars>>

\* Every variable of the token holds a value of its Solidity type.
TokenTypeOK ==
    /\ now \in Nat
    /\ balance \in [Account -> Nat]
    /\ allowance \in [Users -> Nat]
    /\ permitNonce \in [Users -> Nat]
    /\ bridges \in [Bridges -> BridgeInfo]
=============================================================================
