---------------------------- MODULE TokenHistory ----------------------------
(***************************************************************************)
(* XknToken with a history of what its bridges minted and burned: the      *)
(* events BridgeMint and BridgeBurn, added up.  The history constrains no  *)
(* step; it is what the promises of the mint cap are stated with.          *)
(***************************************************************************)
EXTENDS XknToken

\* The clock's bound leaves room for its first value.
ASSUME HistoryConstants == Day <= MaxTime

VARIABLES
    mintedAt,   \* units each bridge minted at each time
    burned,     \* units each bridge burned
    capEver     \* the largest daily cap each bridge ever had

history == <<mintedAt, burned, capEver>>
historyVars == <<now, tokenVars, history>>

Larger(m, n) == IF m >= n THEN m ELSE n

HistoryInit ==
    /\ TokenInit
    /\ mintedAt = [b \in Bridges |-> [t \in 0 .. MaxTime |-> 0]]
    /\ burned = [b \in Bridges |-> 0]
    /\ capEver = [b \in Bridges |-> 0]

RecordMint(b, to, n) ==
    /\ BridgeMint(b, to, n)
    /\ mintedAt' = [mintedAt EXCEPT ![b][now] = @ + n]
    /\ UNCHANGED <<burned, capEver>>

RecordBurn(b, n) ==
    /\ BridgeBurn(b, n)
    /\ burned' = Credit(burned, b, n)
    /\ UNCHANGED <<mintedAt, capEver>>

RecordCap(b, allowed, cap) ==
    /\ SetBridge(b, allowed, cap)
    /\ capEver' = [capEver EXCEPT ![b] = Larger(@, cap)]
    /\ UNCHANGED <<mintedAt, burned>>

HistoryNext ==
    \/ \E b \in Bridges, to \in Receivers, n \in Amounts : RecordMint(b, to, n)
    \/ \E b \in Bridges, n \in Amounts : RecordBurn(b, n)
    \/ \E b \in Bridges, allowed \in BOOLEAN, cap \in Caps : RecordCap(b, allowed, cap)
    \/ (UserStep \/ Tick) /\ UNCHANGED history

HistorySpec == HistoryInit /\ [][HistoryNext]_historyVars

-----------------------------------------------------------------------------
\* The token's variables and its history have their types.
HistoryTypeOK ==
    /\ TokenTypeOK
    /\ mintedAt \in [Bridges -> [0 .. MaxTime -> Nat]]
    /\ burned \in [Bridges -> Nat]
    /\ capEver \in [Bridges -> Nat]

\* What bridge b minted at the times of S.
MintedIn(b, S) == Total([t \in S \cap (0 .. MaxTime) |-> mintedAt[b][t]])

\* The counter the cap is checked against is what really was minted since the
\* window opened, through cap changes and stops of the bridge.  So the bound the
\* contract really keeps: any stretch of a day sees less than two windows' worth.
TwiceCapPerDay ==
    \A b \in Bridges :
        /\ bridges[b].mintedInWindow = MintedIn(b, bridges[b].windowStart .. now)
        /\ \A t \in 0 .. now : MintedIn(b, t .. t + Day - 1) <= 2 * capEver[b]

\* The supply is what was there, plus all mints, minus all burns: no transfer,
\* to oneself or to a contract, makes or loses a unit.
SupplyAccounted ==
    Total(balance) + Total(burned) =
        Total(InitBalance) + Total([b \in Bridges |-> MintedIn(b, 0 .. MaxTime)])
=============================================================================
