--------------------------- MODULE TreasuryProofs ---------------------------
(***************************************************************************)
(* Facts about the token and the treasury that the proofs about the escrow *)
(* build on as well: what a move of tokens does to balances, that a fee is *)
(* part of what it is taken from, type correctness.  And what token and    *)
(* treasury promise about their past, for any bridges, caps, amounts,      *)
(* delay, heirs and owner:                                                 *)
(*                                                                         *)
(*   TokenHistory      the supply is accounted for to the unit, and no     *)
(*                     bridge mints more than twice its cap within a day,  *)
(*                     however its cap is moved;                           *)
(*   TreasuryTimelock  a beneficiary is announced a full delay before he   *)
(*                     takes the seat, and a founder who vetoes keeps it.  *)
(***************************************************************************)
EXTENDS TokenHistory, TreasuryTimelock, AccountingProofs

\* The chain has finitely many accounts.
LEMMA FiniteAccounts == IsFiniteSet(Account)
<1>1. IsFiniteSet(Users)
  BY TokenConstants
<1>2. IsFiniteSet(Users \cup {EscrowAddr})
  BY <1>1, FS_AddElement
<1>3. IsFiniteSet((Users \cup {EscrowAddr}) \cup {TreasuryAddr})
  BY <1>2, FS_AddElement
<1>4. Account = (Users \cup {EscrowAddr}) \cup {TreasuryAddr}
  BY DEF Account
<1>5. QED BY <1>3, <1>4

\* A move the sender can bear takes n units here, adds them there, touches no
\* third account and leaves the total; a move to oneself changes nothing.
LEMMA MovedFacts ==
  ASSUME NEW S, IsFiniteSet(S), NEW f \in [S -> Nat], NEW from \in S, NEW to \in S,
         NEW n \in Nat, n <= f[from]
  PROVE  /\ Moved(f, from, to, n) \in [S -> Nat]
         /\ Total(Moved(f, from, to, n)) = Total(f)
         /\ from # to => /\ Moved(f, from, to, n)[from] = f[from] - n
                         /\ Moved(f, from, to, n)[to] = f[to] + n
         /\ from = to => Moved(f, from, to, n)[from] = f[from]
         /\ \A a \in S : a # from /\ a # to => Moved(f, from, to, n)[a] = f[a]
<1> DEFINE g == Debit(f, from, n)
<1>1. /\ g \in [S -> Nat]
      /\ g[from] = f[from] - n
      /\ \A b \in S : b # from => g[b] = f[b]
      /\ Total(g) = Total(f) - n
  BY TotalDebit
<1> HIDE DEF g
<1>2. /\ Credit(g, to, n) \in [S -> Nat]
      /\ Credit(g, to, n)[to] = g[to] + n
      /\ \A b \in S : b # to => Credit(g, to, n)[b] = g[b]
  BY <1>1 DEF Credit
<1>3. Total(f) \in Nat /\ f[from] \in Nat
  BY TotalType
<1>4. Moved(f, from, to, n) = Credit(g, to, n)
  BY DEF Moved, g
<1>5. Total(Credit(g, to, n)) = Total(f)
  <2>1. Total(Credit(g, to, n)) = Total(g) + n
    BY <1>1, CreditTotal
  <2>2. QED BY <1>1, <1>3, <2>1
<1>6. QED BY <1>1, <1>2, <1>3, <1>4, <1>5

\* feeOn never asks for more than it is taken from.
LEMMA FeeIsPart ==
  ASSUME TreasuryTypeOK, NEW gross \in Nat
  PROVE  FeeOn(gross) \in Nat /\ FeeOn(gross) <= gross
<1>1. feeBps \in Nat /\ BpsBase \in Nat \ {0} /\ feeBps <= BpsBase
  BY TreasuryConstants DEF TreasuryTypeOK
<1>2. gross * feeBps \in Nat /\ gross * feeBps <= gross * BpsBase
  BY <1>1
<1>3. \A m \in Nat : m <= gross * BpsBase => m \div BpsBase \in Nat /\ m \div BpsBase <= gross
  BY <1>1
<1>4. QED BY <1>2, <1>3 DEF FeeOn

-----------------------------------------------------------------------------
\* Type correctness of the token and of the treasury: every step of either
\* contract keeps the types of both.

LEMMA TokenTypeStep ==
  ASSUME TokenTypeOK, TokenStep
  PROVE  TokenTypeOK'
<1> USE TokenConstants DEF TokenTypeOK
<1>1. ASSUME NEW from \in Users, NEW to \in Receivers, NEW n \in Amounts,
             TokenTransfer(from, to, n)
      PROVE  TokenTypeOK'
  <2>1. from \in Account /\ to \in Account /\ n \in Nat /\ n <= balance[from]
    BY <1>1 DEF TokenTransfer, CanMove, Account
  <2>2. balance' \in [Account -> Nat]
    BY <1>1, <2>1, FiniteAccounts, MovedFacts DEF TokenTransfer
  <2>3. QED BY <1>1, <2>2 DEF TokenTransfer
<1>2. ASSUME NEW owner \in Users, NEW n \in Amounts, Approve(owner, n)
      PROVE  TokenTypeOK'
  BY <1>2 DEF Approve
<1>3. ASSUME NEW p \in Permits, SubmitPermit(p)
      PROVE  TokenTypeOK'
  <2>1. p.owner \in Users /\ p.value \in Nat
    BY DEF Permit
  <2>2. QED BY <1>3, <2>1 DEF SubmitPermit, Permitted, NonceUsed
<1>4. ASSUME NEW b \in Bridges, NEW allowed \in BOOLEAN, NEW cap \in Caps,
             SetBridge(b, allowed, cap)
      PROVE  TokenTypeOK'
  BY <1>4 DEF SetBridge, BridgeInfo
<1>5. ASSUME NEW b \in Bridges, NEW to \in Receivers, NEW n \in Amounts,
             BridgeMint(b, to, n)
      PROVE  TokenTypeOK'
  <2>1. MintWindow(b).start \in Nat /\ MintWindow(b).minted \in Nat
    BY DEF MintWindow, BridgeInfo
  <2>2. to \in Account /\ n \in Nat
    BY <1>5 DEF BridgeMint
  <2>3. balance' \in [Account -> Nat]
    BY <1>5, <2>2, FiniteAccounts, TotalCredit DEF BridgeMint
  <2>4. bridges' \in [Bridges -> BridgeInfo]
    <3>1. \A start, minted \in Nat :
            [bridges EXCEPT ![b].windowStart = start, ![b].mintedInWindow = minted]
              \in [Bridges -> BridgeInfo]
      BY DEF BridgeInfo
    <3>2. MintWindow(b).minted + n \in Nat
      BY <2>1, <2>2
    <3>3. QED BY <1>5, <2>1, <3>1, <3>2 DEF BridgeMint
  <2>5. QED BY <1>5, <2>3, <2>4 DEF BridgeMint
<1>6. ASSUME NEW b \in Bridges, NEW n \in Amounts, BridgeBurn(b, n)
      PROVE  TokenTypeOK'
  <2>1. b \in Account /\ n \in Nat /\ n <= balance[b]
    BY <1>6 DEF BridgeBurn, Account
  <2>2. balance' \in [Account -> Nat]
    BY <1>6, <2>1, FiniteAccounts, TotalDebit DEF BridgeBurn
  <2>3. QED BY <1>6, <2>2 DEF BridgeBurn
<1>7. QED
  BY <1>1, <1>2, <1>3, <1>4, <1>5, <1>6 DEF TokenStep, UserStep, OwnerStep, MintStep, BurnStep

LEMMA TreasuryTypeStep ==
  ASSUME TreasuryTypeOK, TreasuryStep
  PROVE  TreasuryTypeOK'
<1> USE TreasuryConstants DEF TreasuryTypeOK, TokenTypeOK, tokenVars
<1>1. ASSUME NEW fee \in FeeChoices, SetFeeBps(fee)
      PROVE  TreasuryTypeOK'
  BY <1>1 DEF SetFeeBps, seat
<1>2. CASE Claim
  <2>1. TreasuryAddr \in Account /\ beneficiary \in Account
    BY DEF Account
  <2>2. balance[TreasuryAddr] \in Nat
    BY <2>1
  <2>3. balance' \in [Account -> Nat]
    BY <1>2, <2>1, <2>2, FiniteAccounts, MovedFacts DEF Claim
  <2>4. QED BY <1>2, <2>3 DEF Claim, treasuryVars
<1>3. ASSUME NEW heir \in Heirs, QueueBeneficiary(heir)
      PROVE  TreasuryTypeOK'
  BY <1>3 DEF QueueBeneficiary
<1>4. CASE ActivateBeneficiary
  BY <1>4 DEF ActivateBeneficiary
<1>5. ASSUME NEW sender \in Users, CancelBeneficiaryChange(sender)
      PROVE  TreasuryTypeOK'
  BY <1>5 DEF CancelBeneficiaryChange
<1>6. QED BY <1>1, <1>2, <1>3, <1>4, <1>5 DEF TreasuryStep

LEMMA TickType ==
  ASSUME TokenTypeOK, Tick
  PROVE  TokenTypeOK'
BY DEF TokenTypeOK, Tick, tokenVars

LEMMA TreasuryTypeInit == TreasuryInit => TreasuryTypeOK
BY TokenConstants, TreasuryConstants
   DEF TreasuryInit, TreasuryTypeOK, TokenInit, TokenTypeOK, BridgeInfo

-----------------------------------------------------------------------------
\* The seat: beneficiary and heir are always addresses someone may name as a
\* receiver, since only those are ever queued.
SeatOK == /\ beneficiary \in Receivers
          /\ pendingBeneficiary \in Receivers \cup {NoOne}

LEMMA SeatStep ==
  ASSUME SeatOK, TreasuryStep
  PROVE  SeatOK'
BY TreasuryConstants
   DEF SeatOK, TreasuryStep, SetFeeBps, Claim, QueueBeneficiary, ActivateBeneficiary,
       CancelBeneficiaryChange, treasuryVars, seat

-----------------------------------------------------------------------------
(* The token: its windows and its supply. *)

Times == 0 .. MaxTime

\* The clock never passes its bound.
HistoryInv == HistoryTypeOK /\ now \in Times

LEMMA FiniteTimes == IsFiniteSet(Times) /\ Times \subseteq Nat
<1>1. 0 \in Int /\ MaxTime \in Int /\ MaxTime \in Nat
  BY TokenConstants
<1>2. QED BY <1>1, FS_Interval DEF Times

LEMMA FiniteBridges == IsFiniteSet(Bridges)
BY TokenConstants, FS_Subset

\* A step of the history is a step of the token that it records.
LEMMA HistoryTypeStep ==
  ASSUME HistoryInv, [HistoryNext]_historyVars
  PROVE  HistoryInv'
<1> USE DEF HistoryInv, HistoryTypeOK
<1>0. /\ mintedAt \in [Bridges -> [Times -> Nat]]
      /\ burned \in [Bridges -> Nat] /\ capEver \in [Bridges -> Nat]
  BY DEF Times
<1>1. ASSUME NEW b \in Bridges, NEW to \in Receivers, NEW n \in Amounts, RecordMint(b, to, n)
      PROVE  HistoryInv'
  <2>1. TokenStep
    BY <1>1 DEF RecordMint, TokenStep, MintStep
  <2>2. TokenTypeOK'
    BY <2>1, TokenTypeStep
  <2>3. n \in Nat /\ mintedAt[b] \in [Times -> Nat]
    BY <1>0, TokenConstants
  <2>4. [mintedAt[b] EXCEPT ![now] = @ + n] \in [Times -> Nat]
    BY <2>3
  <2>5. mintedAt' \in [Bridges -> [Times -> Nat]]
    BY <1>0, <1>1, <2>4 DEF RecordMint
  <2>6. now' = now /\ burned' = burned /\ capEver' = capEver
    BY <1>1 DEF RecordMint, BridgeMint
  <2>7. QED BY <1>0, <2>2, <2>5, <2>6 DEF Times
<1>2. ASSUME NEW b \in Bridges, NEW n \in Amounts, RecordBurn(b, n)
      PROVE  HistoryInv'
  <2>1. TokenStep
    BY <1>2 DEF RecordBurn, TokenStep, BurnStep
  <2>2. TokenTypeOK'
    BY <2>1, TokenTypeStep
  <2>3. n \in Nat
    BY TokenConstants
  <2>4. burned' \in [Bridges -> Nat]
    BY <1>0, <1>2, <2>3 DEF RecordBurn, Credit
  <2>5. now' = now /\ mintedAt' = mintedAt /\ capEver' = capEver
    BY <1>2 DEF RecordBurn, BridgeBurn
  <2>6. QED BY <2>2, <2>4, <2>5
<1>3. ASSUME NEW b \in Bridges, NEW allowed \in BOOLEAN, NEW cap \in Caps,
             RecordCap(b, allowed, cap)
      PROVE  HistoryInv'
  <2>1. TokenStep
    BY <1>3 DEF RecordCap, TokenStep, OwnerStep
  <2>2. TokenTypeOK'
    BY <2>1, TokenTypeStep
  <2>3. cap \in Nat
    BY TokenConstants
  <2>4. capEver' \in [Bridges -> Nat]
    BY <1>0, <1>3, <2>3 DEF RecordCap, Larger
  <2>5. now' = now /\ mintedAt' = mintedAt /\ burned' = burned
    BY <1>3 DEF RecordCap, SetBridge
  <2>6. QED BY <2>2, <2>4, <2>5
<1>4. ASSUME UserStep, UNCHANGED history PROVE HistoryInv'
  <2>1. TokenTypeOK'
    BY <1>4, TokenTypeStep DEF TokenStep
  <2>2. now' = now
    BY <1>4 DEF UserStep, TokenTransfer, Approve, SubmitPermit
  <2>3. QED BY <1>4, <2>1, <2>2 DEF history
<1>5. ASSUME Tick, UNCHANGED history PROVE HistoryInv'
  <2>1. TokenTypeOK'
    BY <1>5, TickType
  <2>2. now' \in Times
    BY <1>5, TokenConstants DEF Tick, Times
  <2>3. QED BY <1>5, <2>1, <2>2 DEF history
<1>6. CASE UNCHANGED historyVars
  BY <1>6 DEF historyVars, history, tokenVars, TokenTypeOK
<1>7. QED BY <1>1, <1>2, <1>3, <1>4, <1>5, <1>6 DEF HistoryNext

LEMMA HistoryTypeInit == HistoryInit => HistoryInv
<1> SUFFICES ASSUME HistoryInit PROVE HistoryInv
  OBVIOUS
<1>1. TokenTypeOK
  BY TokenConstants DEF HistoryInit, TokenInit, TokenTypeOK, BridgeInfo
<1>2. now \in Times
  BY TokenConstants, HistoryConstants DEF HistoryInit, TokenInit, Times
<1>3. QED BY <1>1, <1>2 DEF HistoryInv, HistoryTypeOK, HistoryInit

-----------------------------------------------------------------------------
\* Sums over stretches of time.  These are facts about ledgers f of mints, so
\* that they can be cited of the ledger before a step and of the one after it.

Sum(f, S) == Total(PartOf(f, S \cap Times))

LEMMA MintedIsSum ==
  ASSUME NEW b \in Bridges, NEW S
  PROVE  MintedIn(b, S) = Sum(mintedAt[b], S)
BY DEF MintedIn, Sum, PartOf, Times

LEMMA SumType ==
  ASSUME NEW f \in [Times -> Nat], NEW S
  PROVE  Sum(f, S) \in Nat
BY FiniteTimes, PartType DEF Sum

LEMMA SumEmpty ==
  ASSUME NEW f \in [Times -> Nat], NEW S, \A t \in S \cap Times : f[t] = 0
  PROVE  Sum(f, S) = 0
<1>1. PartOf(f, S \cap Times) = [t \in S \cap Times |-> 0]
  BY DEF PartOf
<1>2. QED BY <1>1, TotalEmpty DEF Sum

\* Times that hold nothing do not count.
LEMMA SumGrows ==
  ASSUME NEW f \in [Times -> Nat], NEW S, NEW T, \A t \in S \cap Times : t \in T \/ f[t] = 0
  PROVE  Sum(f, S) <= Sum(f, T)
<1> DEFINE A == S \cap Times
           B == T \cap Times
           R == A \cap B
<1>1. A \in SUBSET Times /\ B \in SUBSET Times /\ R \in SUBSET A /\ R \in SUBSET B
  OBVIOUS
<1>2. \A t \in A \ R : f[t] = 0
  OBVIOUS
<1>3. Sum(f, S) = Total(PartOf(f, A)) /\ Sum(f, T) = Total(PartOf(f, B))
  BY DEF Sum
<1> HIDE DEF A, B, R
<1>4. Total(PartOf(f, A)) = Total(PartOf(f, R))
  BY <1>1, <1>2, FiniteTimes, PartSame
<1>5. Total(PartOf(f, R)) <= Total(PartOf(f, B))
  BY <1>1, FiniteTimes, PartGrows
<1>6. QED BY <1>3, <1>4, <1>5

LEMMA SumTogether ==
  ASSUME NEW f \in [Times -> Nat], NEW S, NEW T
  PROVE  Sum(f, S \cup T) <= Sum(f, S) + Sum(f, T)
<1>1. (S \cup T) \cap Times = (S \cap Times) \cup (T \cap Times)
  OBVIOUS
<1>2. Total(PartOf(f, (S \cap Times) \cup (T \cap Times)))
        <= Total(PartOf(f, S \cap Times)) + Total(PartOf(f, T \cap Times))
  BY FiniteTimes, PartsTogether
<1>3. QED BY <1>1, <1>2 DEF Sum

\* A mint counts in the stretches that hold its time, and in no others.
LEMMA SumMore ==
  ASSUME NEW f \in [Times -> Nat], NEW t0 \in Times, NEW n \in Nat
  PROVE  /\ Credit(f, t0, n) \in [Times -> Nat]
         /\ \A S : Sum(Credit(f, t0, n), S) = IF t0 \in S THEN Sum(f, S) + n ELSE Sum(f, S)
<1> DEFINE g == Credit(f, t0, n)
<1>1. /\ g \in [Times -> Nat] /\ g[t0] = f[t0] + n /\ f[t0] \in Nat
      /\ \A t \in Times : t # t0 => g[t] = f[t]
  BY DEF Credit
<1> HIDE DEF g
<1>2. ASSUME NEW S PROVE Sum(g, S) = IF t0 \in S THEN Sum(f, S) + n ELSE Sum(f, S)
  <2> DEFINE D == S \cap Times
  <2>1. /\ IsFiniteSet(D) /\ PartOf(f, D) \in [D -> Nat] /\ PartOf(g, D) \in [D -> Nat]
        /\ Total(PartOf(f, D)) \in Nat
    BY <1>1, FiniteTimes, PartType
  <2>2. Sum(g, S) = Total(PartOf(g, D)) /\ Sum(f, S) = Total(PartOf(f, D))
    BY DEF Sum
  <2>3. CASE t0 \in S
    <3>1. t0 \in D /\ \A t \in D : t # t0 => PartOf(g, D)[t] = PartOf(f, D)[t]
      BY <1>1, <2>3 DEF PartOf
    <3>2. PartOf(g, D)[t0] = PartOf(f, D)[t0] + n /\ PartOf(f, D)[t0] \in Nat
      BY <1>1, <3>1 DEF PartOf
    <3> HIDE DEF D
    <3>3. Total(PartOf(g, D)) = Total(PartOf(f, D)) - PartOf(f, D)[t0] + PartOf(g, D)[t0]
      BY <2>1, <3>1, TotalChange
    <3>4. QED BY <2>1, <2>2, <2>3, <3>2, <3>3
  <2>4. CASE t0 \notin S
    <3>1. PartOf(g, D) = PartOf(f, D)
      BY <1>1, <2>4 DEF PartOf
    <3>2. QED BY <2>2, <2>4, <3>1
  <2>5. QED BY <2>3, <2>4
<1>3. QED BY <1>1, <1>2 DEF g

-----------------------------------------------------------------------------
\* The mint window of one bridge: f is its ledger of mints, t0 the present,
\* start and minted its window, cap the largest cap it had, d the length of a
\* day.  The counter is exact only because no window mints once its day is
\* over, and a day sees at most two caps only because the window before the
\* present one kept within one cap as well.
WindowOf(f, t0, start, minted, cap, d) ==
    /\ start <= t0
    /\ minted = Sum(f, start .. t0)
    /\ minted <= cap
    /\ \A t \in Times : t > t0 \/ t >= start + d => f[t] = 0
    /\ Sum(f, (start - d + 1) .. (start - 1)) <= cap
    /\ \A t \in Nat : Sum(f, t .. t + d - 1) <= 2 * cap

LEMMA MintInWindow ==
  ASSUME NEW f \in [Times -> Nat], NEW t0 \in Times, NEW n \in Nat,
         NEW start \in Nat, NEW minted \in Nat, NEW cap \in Nat, NEW d \in Nat \ {0},
         WindowOf(f, t0, start, minted, cap, d), t0 < start + d, minted + n <= cap
  PROVE  WindowOf(Credit(f, t0, n), t0, start, minted + n, cap, d)
<1> DEFINE g == Credit(f, t0, n)
           W == (start - d + 1) .. (start - 1)
           V == start .. t0
<1>1. /\ t0 \in Nat /\ \A t \in Times : t \in Nat
      /\ start <= t0
  BY FiniteTimes DEF WindowOf
<1>2. /\ g \in [Times -> Nat]
      /\ \A S : Sum(g, S) = IF t0 \in S THEN Sum(f, S) + n ELSE Sum(f, S)
  BY SumMore
<1>3. \A t \in Times : t # t0 => g[t] = f[t]
  BY DEF Credit
<1>4. \A t \in Times : t > t0 \/ t >= start + d => f[t] = 0
  BY DEF WindowOf
<1>5. Sum(f, V) = minted /\ Sum(f, W) <= cap
  BY DEF WindowOf
<1>6. t0 \in V /\ t0 \notin W
  BY <1>1
<1> HIDE DEF g
<1>7. Sum(g, V) = minted + n /\ Sum(g, W) <= cap
  BY <1>2, <1>5, <1>6
<1>8. ASSUME NEW t \in Times, t > t0 \/ t >= start + d PROVE g[t] = 0
  <2>1. t # t0
    BY <1>1, <1>8
  <2>2. QED BY <1>3, <1>4, <1>8, <2>1
<1>9. ASSUME NEW t \in Nat PROVE Sum(g, t .. t + d - 1) <= 2 * cap
  <2> DEFINE S == t .. t + d - 1
  <2>1. Sum(f, S) <= 2 * cap
    BY DEF WindowOf
  <2>2. CASE t0 \notin S
    <3> HIDE DEF S
    <3>1. Sum(g, S) = Sum(f, S)
      BY <1>2, <2>2
    <3>2. QED BY <2>1, <3>1 DEF S
  <2>3. CASE t0 \in S
    <3>1. ASSUME NEW u \in S \cap Times, u \notin W \cup V PROVE g[u] = 0
      <4>1. u \in Nat /\ t <= u /\ t0 <= t + d - 1
        BY <1>1, <2>3
      <4>2. u > t0
        BY <1>1, <3>1, <4>1
      <4>3. QED BY <1>8, <4>2
    <3> HIDE DEF S, W, V
    <3>2. Sum(g, S) <= Sum(g, W \cup V)
      BY <1>2, <3>1, SumGrows
    <3>3. Sum(g, W \cup V) <= Sum(g, W) + Sum(g, V)
      BY <1>2, SumTogether
    <3>4. /\ Sum(g, S) \in Nat /\ Sum(g, W \cup V) \in Nat
          /\ Sum(g, W) \in Nat /\ Sum(g, V) \in Nat
      BY <1>2, SumType
    <3>5. Sum(g, S) <= cap + cap
      BY <1>7, <3>2, <3>3, <3>4
    <3>6. cap + cap = 2 * cap
      OBVIOUS
    <3>7. QED BY <3>5, <3>6 DEF S
  <2>4. QED BY <2>2, <2>3
<1>10. QED BY <1>1, <1>7, <1>8, <1>9 DEF WindowOf, g

\* A window whose day is over is as good as a new, empty one.
LEMMA OpenWindow ==
  ASSUME NEW f \in [Times -> Nat], NEW t0 \in Times,
         NEW start \in Nat, NEW minted \in Nat, NEW cap \in Nat, NEW d \in Nat \ {0},
         WindowOf(f, t0, start, minted, cap, d), t0 >= start + d
  PROVE  WindowOf(f, t0, t0, 0, cap, d)
<1> DEFINE W == (t0 - d + 1) .. (t0 - 1)
           V == start .. t0
<1>1. t0 \in Nat /\ \A t \in Times : t \in Nat
  BY FiniteTimes
<1>2. \A t \in Times : t > t0 \/ t >= start + d => f[t] = 0
  BY DEF WindowOf
<1>3. Sum(f, V) = minted /\ minted <= cap
  BY DEF WindowOf
<1>4. Sum(f, t0 .. t0) = 0
  <2>1. \A t \in (t0 .. t0) \cap Times : t = t0
    BY <1>1
  <2>2. f[t0] = 0
    BY <1>2
  <2>3. QED BY <2>1, <2>2, SumEmpty
<1>5. \A t \in W \cap Times : t \in V
  BY <1>1
<1>6. \A t \in Times : t > t0 \/ t >= t0 + d => f[t] = 0
  BY <1>1, <1>2
<1>7. \A t \in Nat : Sum(f, t .. t + d - 1) <= 2 * cap
  BY DEF WindowOf
<1> HIDE DEF W, V
<1>8. Sum(f, W) <= Sum(f, V)
  BY <1>5, SumGrows
<1>9. Sum(f, W) \in Nat /\ Sum(f, V) \in Nat
  BY SumType
<1>10. Sum(f, W) <= cap
  BY <1>3, <1>8, <1>9
<1>11. QED BY <1>1, <1>4, <1>6, <1>7, <1>10 DEF WindowOf, W

\* Time alone mints nothing.
LEMMA LaterWindow ==
  ASSUME NEW f \in [Times -> Nat], NEW t0 \in Times, t0 + 1 \in Times,
         NEW start \in Nat, NEW minted \in Nat, NEW cap \in Nat, NEW d \in Nat \ {0},
         WindowOf(f, t0, start, minted, cap, d)
  PROVE  WindowOf(f, t0 + 1, start, minted, cap, d)
<1> DEFINE V == start .. t0
           U == start .. (t0 + 1)
<1>1. t0 \in Nat /\ \A t \in Times : t \in Nat
  BY FiniteTimes
<1>2. \A t \in Times : t > t0 \/ t >= start + d => f[t] = 0
  BY DEF WindowOf
<1>3. Sum(f, V) = minted /\ start <= t0
  BY DEF WindowOf
<1>4. ASSUME NEW t \in U \cap Times PROVE t \in V \/ f[t] = 0
  BY <1>1, <1>2
<1>5. \A t \in V \cap Times : t \in U
  BY <1>1
<1>6. \A t \in Times : t > t0 + 1 \/ t >= start + d => f[t] = 0
  BY <1>1, <1>2
<1> HIDE DEF U, V
<1>7. Sum(f, U) <= Sum(f, V) /\ Sum(f, V) <= Sum(f, U)
  BY <1>4, <1>5, SumGrows
<1>8. Sum(f, U) \in Nat /\ Sum(f, V) \in Nat
  BY SumType
<1>9. Sum(f, U) = minted
  BY <1>3, <1>7, <1>8
<1>10. QED BY <1>1, <1>3, <1>6, <1>9 DEF WindowOf, U

\* A larger cap allows what a smaller one did.
LEMMA WiderWindow ==
  ASSUME NEW f \in [Times -> Nat], NEW t0 \in Times,
         NEW start \in Nat, NEW minted \in Nat, NEW cap \in Nat, NEW d \in Nat \ {0},
         WindowOf(f, t0, start, minted, cap, d), NEW wider \in Nat, cap <= wider
  PROVE  WindowOf(f, t0, start, minted, wider, d)
<1> DEFINE W == (start - d + 1) .. (start - 1)
<1>1. Sum(f, W) <= cap /\ minted <= cap
  BY DEF WindowOf
<1>2. Sum(f, W) <= wider /\ minted <= wider
  <2> HIDE DEF W
  <2>1. Sum(f, W) \in Nat
    BY SumType
  <2>2. QED BY <1>1, <2>1
<1>3. ASSUME NEW t \in Nat PROVE Sum(f, t .. t + d - 1) <= 2 * wider
  <2>1. Sum(f, t .. t + d - 1) \in Nat
    BY SumType
  <2>2. Sum(f, t .. t + d - 1) <= 2 * cap
    BY DEF WindowOf
  <2>3. 2 * cap <= 2 * wider
    OBVIOUS
  <2>4. QED BY <2>1, <2>2, <2>3
<1>4. QED BY <1>2, <1>3 DEF WindowOf

\* A bridge that never minted.
LEMMA NewWindow ==
  ASSUME NEW f \in [Times -> Nat], NEW t0 \in Times, \A t \in Times : f[t] = 0,
         NEW d \in Nat \ {0}
  PROVE  WindowOf(f, t0, 0, 0, 0, d)
<1>1. \A S : Sum(f, S) = 0
  BY SumEmpty
<1>2. t0 \in Nat
  BY FiniteTimes
<1>3. /\ Sum(f, 0 .. t0) = 0 /\ Sum(f, (0 - d + 1) .. (0 - 1)) = 0
      /\ \A t \in Nat : Sum(f, t .. t + d - 1) = 0
  BY <1>1
<1>4. QED
  <2>1. 0 <= t0 /\ 0 <= 2 * 0
    BY <1>2
  <2>2. 0 = Sum(f, 0 .. t0) /\ \A t \in Nat : Sum(f, t .. t + d - 1) <= 2 * 0
    BY <1>3, <2>1
  <2>3. QED BY <1>3, <2>1, <2>2 DEF WindowOf

\* What every step keeps about bridge b: its window, and that its present cap
\* is among those capEver looks back on.
WindowOK(b) ==
    /\ WindowOf(mintedAt[b], now, bridges[b].windowStart, bridges[b].mintedInWindow,
                capEver[b], Day)
    /\ bridges[b].dailyMintCap <= capEver[b]

WindowsInv == HistoryInv /\ \A b \in Bridges : WindowOK(b)

LEMMA WindowTypes ==
  ASSUME HistoryInv, NEW b \in Bridges
  PROVE  /\ mintedAt[b] \in [Times -> Nat] /\ now \in Times /\ capEver[b] \in Nat
         /\ bridges[b] \in BridgeInfo
         /\ bridges[b].windowStart \in Nat /\ bridges[b].mintedInWindow \in Nat
         /\ bridges[b].dailyMintCap \in Nat /\ Day \in Nat \ {0} /\ now \in Nat
BY TokenConstants, FiniteTimes DEF HistoryInv, HistoryTypeOK, TokenTypeOK, BridgeInfo, Times

LEMMA WindowsInit == HistoryInit => WindowsInv
<1> SUFFICES ASSUME HistoryInit PROVE WindowsInv
  OBVIOUS
<1>1. HistoryInv
  BY HistoryTypeInit
<1>2. ASSUME NEW b \in Bridges PROVE WindowOK(b)
  <2>1. /\ mintedAt[b] \in [Times -> Nat] /\ \A t \in Times : mintedAt[b][t] = 0
        /\ now \in Times /\ Day \in Nat \ {0}
    BY <1>1, TokenConstants DEF HistoryInit, HistoryInv, Times
  <2>2. WindowOf(mintedAt[b], now, 0, 0, 0, Day)
    BY <2>1, NewWindow
  <2>3. /\ bridges[b].windowStart = 0 /\ bridges[b].mintedInWindow = 0
        /\ bridges[b].dailyMintCap = 0 /\ capEver[b] = 0
    BY DEF HistoryInit, TokenInit
  <2>4. QED BY <2>2, <2>3 DEF WindowOK
<1>3. QED BY <1>1, <1>2 DEF WindowsInv

\* A mint counts against the window MintWindow gives it.
LEMMA MintKeepsWindow ==
  ASSUME WindowsInv, HistoryInv', NEW b \in Bridges, NEW to \in Receivers, NEW n \in Amounts,
         RecordMint(b, to, n)
  PROVE  \A c \in Bridges : WindowOK(c)'
<1>1. HistoryInv /\ WindowOK(b) /\ n \in Nat /\ to \in Account
  BY TokenConstants DEF WindowsInv, RecordMint, BridgeMint
<1> DEFINE f == mintedAt[b]
           w == MintWindow(b)
<1>2. /\ f \in [Times -> Nat] /\ now \in Times /\ capEver[b] \in Nat
      /\ bridges[b].windowStart \in Nat /\ bridges[b].mintedInWindow \in Nat
      /\ bridges[b].dailyMintCap \in Nat /\ Day \in Nat \ {0} /\ now \in Nat
  BY <1>1, WindowTypes
<1>3. /\ w.start \in Nat /\ w.minted \in Nat /\ now < w.start + Day
      /\ WindowOf(f, now, w.start, w.minted, capEver[b], Day)
  <2>1. WindowOf(f, now, bridges[b].windowStart, bridges[b].mintedInWindow, capEver[b], Day)
    BY <1>1 DEF WindowOK
  <2>2. CASE now >= bridges[b].windowStart + Day
    <3>1. w.start = now /\ w.minted = 0
      BY <2>2 DEF MintWindow
    <3>2. WindowOf(f, now, now, 0, capEver[b], Day)
      BY <1>2, <2>1, <2>2, OpenWindow
    <3>3. now < now + Day
      BY <1>2
    <3>4. QED BY <1>2, <3>1, <3>2, <3>3
  <2>3. CASE ~(now >= bridges[b].windowStart + Day)
    <3>1. w.start = bridges[b].windowStart /\ w.minted = bridges[b].mintedInWindow
      BY <2>3 DEF MintWindow
    <3>2. now < bridges[b].windowStart + Day
      BY <1>2, <2>3
    <3>3. QED BY <1>2, <2>1, <3>1, <3>2
  <2>4. QED BY <2>2, <2>3
<1>4. w.minted + n <= bridges[b].dailyMintCap
  BY DEF RecordMint, BridgeMint
<1> HIDE DEF w
<1>5. w.minted + n <= capEver[b]
  BY <1>1, <1>2, <1>3, <1>4 DEF WindowOK
<1>6. WindowOf(Credit(f, now, n), now, w.start, w.minted + n, capEver[b], Day)
  BY <1>1, <1>2, <1>3, <1>5, MintInWindow
<1>7. /\ mintedAt' = [mintedAt EXCEPT ![b] = Credit(f, now, n)]
      /\ bridges' = [bridges EXCEPT ![b].windowStart = w.start,
                                    ![b].mintedInWindow = w.minted + n]
      /\ now' = now /\ capEver' = capEver
  BY DEF RecordMint, BridgeMint, Credit, w
<1>8. mintedAt \in [Bridges -> [Times -> Nat]] /\ bridges \in [Bridges -> BridgeInfo]
  BY <1>1 DEF HistoryInv, HistoryTypeOK, TokenTypeOK, Times
<1>9. ASSUME NEW c \in Bridges PROVE WindowOK(c)'
  <2>1. CASE c = b
    <3>1. /\ mintedAt'[c] = Credit(f, now, n)
          /\ bridges'[c].windowStart = w.start /\ bridges'[c].mintedInWindow = w.minted + n
          /\ bridges'[c].dailyMintCap = bridges[b].dailyMintCap
      BY <1>7, <1>8, <2>1 DEF BridgeInfo
    <3>2. bridges[b].dailyMintCap <= capEver[b]
      BY <1>1 DEF WindowOK
    <3>3. QED BY <1>6, <1>7, <2>1, <3>1, <3>2 DEF WindowOK
  <2>2. CASE c # b
    <3>1. mintedAt'[c] = mintedAt[c] /\ bridges'[c] = bridges[c]
      BY <1>7, <1>8, <2>2
    <3>2. QED BY <1>7, <3>1 DEF WindowsInv, WindowOK
  <2>3. QED BY <2>1, <2>2
<1>10. QED BY <1>9

LEMMA WindowsStep ==
  ASSUME WindowsInv, [HistoryNext]_historyVars
  PROVE  WindowsInv'
<1>1. HistoryInv /\ HistoryInv'
  BY HistoryTypeStep DEF WindowsInv
<1>2. ASSUME NEW b \in Bridges, NEW to \in Receivers, NEW n \in Amounts, RecordMint(b, to, n)
      PROVE  \A c \in Bridges : WindowOK(c)'
  BY <1>1, <1>2, MintKeepsWindow
<1>3. ASSUME NEW b \in Bridges, NEW n \in Amounts, RecordBurn(b, n)
      PROVE  \A c \in Bridges : WindowOK(c)'
  BY <1>3 DEF WindowsInv, WindowOK, RecordBurn, BridgeBurn
<1>4. ASSUME NEW b \in Bridges, NEW allowed \in BOOLEAN, NEW cap \in Caps,
             RecordCap(b, allowed, cap), NEW c \in Bridges
      PROVE  WindowOK(c)'
  <2>1. /\ bridges' = [bridges EXCEPT ![b].allowed = allowed, ![b].dailyMintCap = cap]
        /\ capEver' = [capEver EXCEPT ![b] = Larger(@, cap)]
        /\ mintedAt' = mintedAt /\ now' = now
    BY <1>4 DEF RecordCap, SetBridge
  <2>2. bridges \in [Bridges -> BridgeInfo] /\ capEver \in [Bridges -> Nat] /\ cap \in Nat
    BY <1>1, TokenConstants DEF HistoryInv, HistoryTypeOK, TokenTypeOK
  <2>3. WindowOK(c)
    BY DEF WindowsInv
  <2>4. CASE c = b
    <3>1. /\ bridges'[c].windowStart = bridges[c].windowStart
          /\ bridges'[c].mintedInWindow = bridges[c].mintedInWindow
          /\ bridges'[c].dailyMintCap = cap
      BY <2>1, <2>2, <2>4 DEF BridgeInfo
    <3>2. capEver'[c] \in Nat /\ capEver[c] <= capEver'[c] /\ cap <= capEver'[c]
      BY <2>1, <2>2, <2>4 DEF Larger
    <3>3. /\ mintedAt[c] \in [Times -> Nat] /\ now \in Times /\ capEver[c] \in Nat
          /\ bridges[c].windowStart \in Nat /\ bridges[c].mintedInWindow \in Nat
          /\ Day \in Nat \ {0}
      BY <1>1, WindowTypes
    <3>4. WindowOf(mintedAt[c], now, bridges[c].windowStart, bridges[c].mintedInWindow,
                   capEver'[c], Day)
      BY <2>3, <3>2, <3>3, WiderWindow DEF WindowOK
    <3>5. QED BY <2>1, <3>1, <3>2, <3>4 DEF WindowOK
  <2>5. CASE c # b
    <3>1. bridges'[c] = bridges[c] /\ capEver'[c] = capEver[c]
      BY <2>1, <2>2, <2>5
    <3>2. QED BY <2>1, <2>3, <3>1 DEF WindowOK
  <2>6. QED BY <2>4, <2>5
<1>5. ASSUME UserStep, UNCHANGED history PROVE \A c \in Bridges : WindowOK(c)'
  <2>1. now' = now /\ bridges' = bridges
    BY <1>5 DEF UserStep, TokenTransfer, Approve, SubmitPermit
  <2>2. QED BY <1>5, <2>1 DEF WindowsInv, WindowOK, history
<1>6. ASSUME Tick, UNCHANGED history, NEW c \in Bridges PROVE WindowOK(c)'
  <2>1. now' = now + 1 /\ bridges' = bridges /\ mintedAt' = mintedAt /\ capEver' = capEver
    BY <1>6 DEF Tick, tokenVars, history
  <2>2. now + 1 \in Times
    BY <1>1, <2>1 DEF HistoryInv
  <2>3. /\ mintedAt[c] \in [Times -> Nat] /\ now \in Times /\ capEver[c] \in Nat
        /\ bridges[c].windowStart \in Nat /\ bridges[c].mintedInWindow \in Nat
        /\ Day \in Nat \ {0}
    BY <1>1, WindowTypes
  <2>4. WindowOK(c)
    BY DEF WindowsInv
  <2>5. WindowOf(mintedAt[c], now + 1, bridges[c].windowStart, bridges[c].mintedInWindow,
                 capEver[c], Day)
    BY <2>2, <2>3, <2>4, LaterWindow DEF WindowOK
  <2>6. QED BY <2>1, <2>4, <2>5 DEF WindowOK
<1>7. ASSUME UNCHANGED historyVars PROVE \A c \in Bridges : WindowOK(c)'
  <2>1. now' = now /\ bridges' = bridges /\ mintedAt' = mintedAt /\ capEver' = capEver
    BY <1>7 DEF historyVars, history, tokenVars
  <2>2. QED BY <2>1 DEF WindowsInv, WindowOK
<1>8. QED BY <1>1, <1>2, <1>3, <1>4, <1>5, <1>6, <1>7 DEF HistoryNext, WindowsInv

\* However the owner moves the cap, no stretch of a day sees more than twice the
\* largest cap minted, and the counter the cap is checked against is exact.
THEOREM TwiceTheCap == HistorySpec => []TwiceCapPerDay
<1>1. WindowsInv => TwiceCapPerDay
  <2> SUFFICES ASSUME WindowsInv, NEW b \in Bridges
               PROVE  /\ bridges[b].mintedInWindow = MintedIn(b, bridges[b].windowStart .. now)
                      /\ \A t \in 0 .. now : MintedIn(b, t .. t + Day - 1) <= 2 * capEver[b]
    BY DEF TwiceCapPerDay
  <2>1. WindowOK(b)
    BY DEF WindowsInv
  <2>2. bridges[b].mintedInWindow = Sum(mintedAt[b], bridges[b].windowStart .. now)
    BY <2>1 DEF WindowOK, WindowOf
  <2>3. \A t \in Nat : Sum(mintedAt[b], t .. t + Day - 1) <= 2 * capEver[b]
    BY <2>1 DEF WindowOK, WindowOf
  <2>4. \A S : MintedIn(b, S) = Sum(mintedAt[b], S)
    BY MintedIsSum
  <2>5. ASSUME NEW t \in 0 .. now PROVE MintedIn(b, t .. t + Day - 1) <= 2 * capEver[b]
    <3>1. t \in Nat
      OBVIOUS
    <3>2. QED BY <2>3, <2>4, <3>1
  <2>6. QED BY <2>2, <2>4, <2>5
<1>2. QED BY <1>1, WindowsInit, WindowsStep, PTL DEF HistorySpec

-----------------------------------------------------------------------------
\* The supply.

\* What each bridge minted in all, of a ledger m of mints.
MintedBy(m) == [b \in Bridges |-> Sum(m[b], Times)]

SupplyInv ==
    /\ HistoryInv
    /\ Total(balance) + Total(burned) = Total(InitBalance) + Total(MintedBy(mintedAt))

LEMMA MintedByIs == MintedBy(mintedAt) = [b \in Bridges |-> MintedIn(b, 0 .. MaxTime)]
<1>1. \A b \in Bridges : MintedIn(b, 0 .. MaxTime) = Sum(mintedAt[b], Times)
  BY MintedIsSum DEF Times
<1>2. QED BY <1>1 DEF MintedBy

LEMMA SupplyTypes ==
  ASSUME HistoryInv
  PROVE  /\ balance \in [Account -> Nat] /\ burned \in [Bridges -> Nat]
         /\ mintedAt \in [Bridges -> [Times -> Nat]]
         /\ MintedBy(mintedAt) \in [Bridges -> Nat]
         /\ Total(balance) \in Nat /\ Total(burned) \in Nat
         /\ Total(MintedBy(mintedAt)) \in Nat /\ Total(InitBalance) \in Nat
         /\ Bridges \subseteq Account /\ Users \subseteq Account
<1>1. /\ balance \in [Account -> Nat] /\ burned \in [Bridges -> Nat]
      /\ mintedAt \in [Bridges -> [Times -> Nat]]
  BY DEF HistoryInv, HistoryTypeOK, TokenTypeOK, Times
<1>2. ASSUME NEW b \in Bridges PROVE Sum(mintedAt[b], Times) \in Nat
  BY <1>1, SumType
<1>3. MintedBy(mintedAt) \in [Bridges -> Nat]
  BY <1>2 DEF MintedBy
<1>4. /\ Total(balance) \in Nat /\ Total(burned) \in Nat
      /\ Total(MintedBy(mintedAt)) \in Nat
  BY <1>1, <1>3, FiniteAccounts, FiniteBridges, TotalType
<1>5. Total(InitBalance) \in Nat
  BY TokenConstants, TotalType
<1>6. Bridges \subseteq Account /\ Users \subseteq Account
  BY TokenConstants DEF Account
<1>7. QED BY <1>1, <1>3, <1>4, <1>5, <1>6

LEMMA SupplyInit == HistoryInit => SupplyInv
<1> SUFFICES ASSUME HistoryInit PROVE SupplyInv
  OBVIOUS
<1>1. HistoryInv
  BY HistoryTypeInit
<1>2. Total(burned) = 0
  BY TotalEmpty DEF HistoryInit
<1>3. Total(MintedBy(mintedAt)) = 0
  <2>1. ASSUME NEW b \in Bridges PROVE Sum(mintedAt[b], Times) = 0
    <3>1. mintedAt[b] \in [Times -> Nat] /\ \A t \in Times : mintedAt[b][t] = 0
      BY <1>1, SupplyTypes DEF HistoryInit, Times
    <3>2. QED BY <3>1, SumEmpty
  <2>2. MintedBy(mintedAt) = [b \in Bridges |-> 0]
    BY <2>1 DEF MintedBy
  <2>3. QED BY <2>2, TotalEmpty
<1>4. Total(balance) = Total(InitBalance)
  <2>1. /\ balance = PartOf(balance, Account)
        /\ InitBalance = PartOf(balance, Users)
        /\ \A a \in Account \ Users : balance[a] = 0
    BY TokenConstants DEF HistoryInit, TokenInit, PartOf, Account
  <2>2. Users \in SUBSET Account
    BY DEF Account
  <2>3. Total(PartOf(balance, Account)) = Total(PartOf(balance, Users))
    BY <2>1, <2>2, PartSame
  <2>4. QED BY <2>1, <2>3
<1>5. Total(InitBalance) \in Nat
  BY <1>1, SupplyTypes
<1>6. QED BY <1>1, <1>2, <1>3, <1>4, <1>5 DEF SupplyInv

LEMMA SupplyStep ==
  ASSUME SupplyInv, [HistoryNext]_historyVars
  PROVE  SupplyInv'
<1>1. HistoryInv /\ HistoryInv'
  BY HistoryTypeStep DEF SupplyInv
<1>2. /\ balance \in [Account -> Nat] /\ IsFiniteSet(Account)
      /\ Bridges \subseteq Account /\ Users \subseteq Account
  BY <1>1, SupplyTypes, FiniteAccounts
<1>3. burned \in [Bridges -> Nat] /\ IsFiniteSet(Bridges)
  BY <1>1, SupplyTypes, FiniteBridges
<1>4. mintedAt \in [Bridges -> [Times -> Nat]] /\ now \in Times
  BY <1>1, SupplyTypes DEF HistoryInv
<1>5. MintedBy(mintedAt) \in [Bridges -> Nat]
  BY <1>1, SupplyTypes
<1>6. /\ Total(balance) \in Nat /\ Total(burned) \in Nat
      /\ Total(MintedBy(mintedAt)) \in Nat /\ Total(InitBalance) \in Nat
  BY <1>1, SupplyTypes
<1>7. Total(balance) + Total(burned) = Total(InitBalance) + Total(MintedBy(mintedAt))
  BY DEF SupplyInv
<1> DEFINE Goal == Total(balance') + Total(burned')
                     = Total(InitBalance) + Total(MintedBy(mintedAt'))
<1>8. ASSUME NEW b \in Bridges, NEW to \in Receivers, NEW n \in Amounts, RecordMint(b, to, n)
      PROVE  Goal
  <2> DEFINE f == mintedAt[b]
             M == MintedBy(mintedAt)
             N == MintedBy(mintedAt')
  <2>1. to \in Account /\ n \in Nat /\ f \in [Times -> Nat]
    BY <1>4, <1>8, TokenConstants DEF RecordMint, BridgeMint
  <2>2. /\ burned' = burned /\ balance' = Credit(balance, to, n)
        /\ mintedAt' = [mintedAt EXCEPT ![b] = Credit(f, now, n)]
    BY <1>8 DEF RecordMint, BridgeMint, Credit
  <2>3. Total(balance') = Total(balance) + n
    BY <1>2, <2>1, <2>2, TotalCredit
  <2>4. Sum(Credit(f, now, n), Times) = Sum(f, Times) + n
    BY <1>4, <2>1, SumMore
  <2>5. N[b] = M[b] + n /\ \A c \in Bridges : c # b => N[c] = M[c]
    BY <1>4, <2>2, <2>4 DEF MintedBy
  <2>6. N \in [Bridges -> Nat]
    <3>1. mintedAt' \in [Bridges -> [Times -> Nat]]
      BY <1>1 DEF HistoryInv, HistoryTypeOK, Times
    <3>2. ASSUME NEW c \in Bridges PROVE Sum(mintedAt'[c], Times) \in Nat
      BY <3>1, SumType
    <3>3. QED BY <3>2 DEF MintedBy
  <2>7. M \in [Bridges -> Nat] /\ Total(M) \in Nat
    BY <1>5, <1>6
  <2> HIDE DEF M, N
  <2>8. Total(N) = Total(M) - M[b] + N[b]
    BY <1>3, <2>5, <2>6, <2>7, TotalChange
  <2>9. M[b] \in Nat
    BY <2>7
  <2>10. Total(N) = Total(M) + n
    BY <2>1, <2>5, <2>7, <2>8, <2>9
  <2>11. Total(balance) + Total(burned) = Total(InitBalance) + Total(M)
    BY <1>7 DEF M
  <2>12. Total(balance') + Total(burned') = Total(InitBalance) + Total(N)
    BY <1>6, <2>1, <2>2, <2>3, <2>7, <2>10, <2>11
  <2>13. QED BY <2>12 DEF N
<1>9. ASSUME NEW b \in Bridges, NEW n \in Amounts, RecordBurn(b, n) PROVE Goal
  <2>1. n \in Nat /\ b \in Account /\ n <= balance[b]
    BY <1>2, <1>9, TokenConstants DEF RecordBurn, BridgeBurn
  <2>2. mintedAt' = mintedAt /\ balance' = Debit(balance, b, n) /\ burned' = Credit(burned, b, n)
    BY <1>9 DEF RecordBurn, BridgeBurn
  <2>3. Total(balance') = Total(balance) - n
    BY <1>2, <2>1, <2>2, TotalDebit
  <2>4. Total(burned') = Total(burned) + n
    BY <1>3, <2>1, <2>2, TotalCredit
  <2>5. QED BY <1>6, <1>7, <2>1, <2>2, <2>3, <2>4
<1>10. ASSUME UserStep, UNCHANGED history PROVE Goal
  <2>1. burned' = burned /\ mintedAt' = mintedAt
    BY <1>10 DEF history
  <2>2. ASSUME NEW from \in Users, NEW to \in Receivers, NEW n \in Amounts,
               TokenTransfer(from, to, n)
        PROVE  Total(balance') = Total(balance)
    <3>1. /\ from \in Account /\ to \in Account /\ n \in Nat /\ n <= balance[from]
          /\ balance' = Moved(balance, from, to, n)
      BY <1>2, <2>2, TokenConstants DEF TokenTransfer, CanMove
    <3>2. QED BY <1>2, <3>1, MovedFacts
  <2>3. Total(balance') = Total(balance)
    BY <1>10, <2>2 DEF UserStep, Approve, SubmitPermit
  <2>4. QED BY <1>7, <2>1, <2>3
<1>11. ASSUME \/ \E b \in Bridges, allowed \in BOOLEAN, cap \in Caps : RecordCap(b, allowed, cap)
              \/ (Tick /\ UNCHANGED history)
              \/ UNCHANGED historyVars
       PROVE  Goal
  <2>1. balance' = balance /\ burned' = burned /\ mintedAt' = mintedAt
    BY <1>11 DEF RecordCap, SetBridge, Tick, tokenVars, history, historyVars
  <2>2. QED BY <1>7, <2>1
<1> HIDE DEF Goal
<1>12. Goal
  BY <1>8, <1>9, <1>10, <1>11 DEF HistoryNext
<1>13. MintedBy(mintedAt') = MintedBy(mintedAt)'
  BY DEF MintedBy
<1>14. QED BY <1>1, <1>12, <1>13 DEF SupplyInv, Goal

\* No transfer, to oneself or to a contract, makes or loses a unit: the supply
\* is what was there, plus all mints, minus all burns.
THEOREM SupplyIsAccounted == HistorySpec => []SupplyAccounted
<1>1. SupplyInv => SupplyAccounted
  BY MintedByIs DEF SupplyInv, SupplyAccounted
<1>2. QED BY <1>1, SupplyInit, SupplyStep, PTL DEF HistorySpec

-----------------------------------------------------------------------------
\* The clock of the contract and the announcement agree: this is what makes
\* the delay of AnnouncedInTime inductive.
ClockIsAnnounced ==
    pendingBeneficiary # NoOne => beneficiaryActivation = queuedAt + Delay

TimelockInv == TimelockTypeOK /\ ClockIsAnnounced

LEMMA TimelockInit0 == TimelockInit => TimelockInv
<1>1. TimelockInit => slept \in BOOLEAN
  BY Zenon DEF TimelockInit
<1>2. QED
  BY <1>1, TreasuryTypeInit
     DEF TimelockInit, TimelockInv, TimelockTypeOK, ClockIsAnnounced, TreasuryInit

LEMMA TimelockTypeStep ==
  ASSUME TimelockTypeOK, [TimelockNext]_timelockVars
  PROVE  TimelockTypeOK'
<1> USE DEF TimelockTypeOK
<1>0. slept' \in BOOLEAN
  BY DEF TimelockNext, PassTime, timelockVars
<1>1. ASSUME NEW heir \in Heirs, RecordQueue(heir) PROVE TimelockTypeOK'
  <2>1. TreasuryStep /\ queuedAt' = now
    BY <1>1 DEF RecordQueue, TreasuryStep
  <2>2. now \in Nat
    BY DEF TreasuryTypeOK, TokenTypeOK
  <2>3. QED BY <1>0, <2>1, <2>2, TreasuryTypeStep
<1>2. ASSUME OtherTreasuryStep, UNCHANGED queuedAt PROVE TimelockTypeOK'
  <2>1. TreasuryStep
    BY <1>2 DEF OtherTreasuryStep, TreasuryStep
  <2>2. QED BY <1>0, <1>2, <2>1, TreasuryTypeStep
<1>3. ASSUME TokenStep, UNCHANGED <<treasuryVars, queuedAt>> PROVE TimelockTypeOK'
  BY <1>0, <1>3, TokenTypeStep DEF TreasuryTypeOK, treasuryVars
<1>4. CASE PassTime
  BY <1>0, <1>4, TickType DEF PassTime, TreasuryTypeOK, treasuryVars
<1>5. CASE UNCHANGED timelockVars
  BY <1>5 DEF timelockVars, tokenVars, treasuryVars, TreasuryTypeOK, TokenTypeOK
<1>6. QED BY <1>1, <1>2, <1>3, <1>4, <1>5 DEF TimelockNext, TimelockStep

LEMMA TimelockInvStep ==
  ASSUME TimelockInv, [TimelockNext]_timelockVars
  PROVE  TimelockInv'
<1>1. TimelockTypeOK'
  BY TimelockTypeStep DEF TimelockInv
<1>2. ClockIsAnnounced'
  <2> USE DEF TimelockInv, ClockIsAnnounced
  <2>1. ASSUME NEW heir \in Heirs, RecordQueue(heir) PROVE ClockIsAnnounced'
    BY <2>1 DEF RecordQueue, QueueBeneficiary
  <2>2. ASSUME OtherTreasuryStep, UNCHANGED queuedAt PROVE ClockIsAnnounced'
    BY <2>2 DEF OtherTreasuryStep, SetFeeBps, Claim, ActivateBeneficiary,
                CancelBeneficiaryChange, treasuryVars, seat
  <2>3. CASE UNCHANGED <<treasuryVars, queuedAt>>
    BY <2>3 DEF treasuryVars
  <2>4. QED BY <2>1, <2>2, <2>3 DEF TimelockNext, TimelockStep, PassTime, timelockVars
<1>3. QED BY <1>1, <1>2 DEF TimelockInv

\* The treasury's variables and the announcement always have their types; the
\* fee in particular never exceeds MAX_FEE_BPS, whatever the owner asks for.
THEOREM TimelockTypeCorrect == TimelockSpec => []TimelockTypeOK
<1>1. TimelockInv => TimelockTypeOK
  BY DEF TimelockInv
<1>2. QED BY <1>1, TimelockInit0, TimelockInvStep, PTL DEF TimelockSpec

\* Nobody becomes beneficiary who was not announced a full delay before.
THEOREM NoSurpriseBeneficiary == TimelockSpec => AnnouncedInTime
<1> DEFINE Announced == beneficiary' # beneficiary =>
                          /\ beneficiary' = pendingBeneficiary
                          /\ now >= queuedAt + Delay
<1>1. ASSUME TimelockInv, [TimelockNext]_timelockVars PROVE [Announced]_timelockVars
  <2>1. CASE ActivateBeneficiary
    BY <1>1, <2>1 DEF ActivateBeneficiary, TimelockInv, ClockIsAnnounced
  <2>2. CASE ~ActivateBeneficiary
    <3>1. beneficiary' = beneficiary
      BY <1>1, <2>2
         DEF TimelockNext, TimelockStep, RecordQueue, QueueBeneficiary, OtherTreasuryStep,
             SetFeeBps, Claim, CancelBeneficiaryChange, PassTime, treasuryVars, seat,
             timelockVars
    <3>2. QED BY <3>1
  <2>3. QED BY <2>1, <2>2
<1>2. QED
  BY <1>1, TimelockInit0, TimelockInvStep, PTL DEF TimelockSpec, AnnouncedInTime

-----------------------------------------------------------------------------
\* The founder who vetoes in time.  FounderKeepsSeat needs the clock with it:
\* a pending change can never be old enough to be activated.
VetoInv == /\ now \in Nat /\ queuedAt \in Nat /\ slept \in BOOLEAN
           /\ ~slept =>
                /\ beneficiary = Founder
                /\ pendingBeneficiary # NoOne =>
                     beneficiaryActivation = queuedAt + Delay /\ now < beneficiaryActivation

\* Whatever the owner, a thief of the owner's key included, queues and
\* requeues, a founder who vetoes within the delay is beneficiary for ever.
THEOREM FounderCannotBeOusted == TimelockSpec => []FounderKeepsSeat
<1>0. TimelockInit => slept \in BOOLEAN
  BY Zenon DEF TimelockInit
<1>1. TimelockInit => VetoInv
  BY <1>0, TokenConstants DEF TimelockInit, TreasuryInit, TokenInit, VetoInv
<1>2. ASSUME VetoInv, [TimelockNext]_timelockVars PROVE VetoInv'
  <2> USE TreasuryConstants DEF VetoInv
  <2>1. ASSUME NEW heir \in Heirs, RecordQueue(heir), UNCHANGED slept PROVE VetoInv'
    BY <1>2, <2>1 DEF RecordQueue, QueueBeneficiary
  <2>2. ASSUME ActivateBeneficiary, UNCHANGED <<queuedAt, slept>> PROVE VetoInv'
    BY <1>2, <2>2 DEF ActivateBeneficiary
  <2>3. ASSUME OtherTreasuryStep, ~ActivateBeneficiary, UNCHANGED <<queuedAt, slept>>
        PROVE  VetoInv'
    BY <1>2, <2>3 DEF OtherTreasuryStep, SetFeeBps, Claim, CancelBeneficiaryChange,
                      treasuryVars, seat
  <2>4. ASSUME TokenStep, UNCHANGED <<treasuryVars, queuedAt, slept>> PROVE VetoInv'
    <3>1. now' = now
      BY <2>4 DEF TokenStep, UserStep, OwnerStep, MintStep, BurnStep, TokenTransfer, Approve,
                  SubmitPermit, SetBridge, BridgeMint, BridgeBurn
    <3>2. QED BY <1>2, <2>4, <3>1 DEF treasuryVars
  <2>5. CASE PassTime
    <3>1. slept' \in BOOLEAN
      BY <2>5 DEF PassTime
    <3>2. CASE slept'
      BY <1>2, <2>5, <3>1, <3>2 DEF PassTime, Tick
    <3>3. CASE ~slept'
      <4>1. ~slept /\ VetoInTime
        BY <2>5, <3>3 DEF PassTime
      <4>2. QED BY <1>2, <2>5, <3>1, <4>1 DEF VetoInTime, PassTime, Tick, treasuryVars
    <3>4. QED BY <3>2, <3>3
  <2>6. CASE UNCHANGED timelockVars
    BY <1>2, <2>6 DEF timelockVars, treasuryVars
  <2>7. QED BY <1>2, <2>1, <2>2, <2>3, <2>4, <2>5, <2>6 DEF TimelockNext, TimelockStep
<1>3. VetoInv => FounderKeepsSeat
  BY DEF VetoInv, FounderKeepsSeat
<1>4. QED BY <1>1, <1>2, <1>3, PTL DEF TimelockSpec

-----------------------------------------------------------------------------
\* Tokens leave the treasury only by Claim, all at once, to the beneficiary.

\* Users move their own tokens, bridges burn their own: the treasury's stay.
LEMMA TokenStepSparesTreasury ==
  ASSUME TreasuryTypeOK, TokenStep
  PROVE  balance'[TreasuryAddr] >= balance[TreasuryAddr]
<1> USE TokenConstants
<1>0. /\ balance \in [Account -> Nat] /\ TreasuryAddr \in Account
      /\ balance[TreasuryAddr] \in Nat
  BY DEF TreasuryTypeOK, TokenTypeOK, Account
<1>1. ASSUME NEW from \in Users, NEW to \in Receivers, NEW n \in Amounts,
             TokenTransfer(from, to, n)
      PROVE  balance'[TreasuryAddr] >= balance[TreasuryAddr]
  <2>1. /\ from \in Account /\ to \in Account /\ n \in Nat /\ n <= balance[from]
        /\ from # TreasuryAddr
    BY <1>1 DEF TokenTransfer, CanMove, Account
  <2>2. balance' = Moved(balance, from, to, n)
    BY <1>1 DEF TokenTransfer
  <2>3. /\ to = TreasuryAddr => balance'[TreasuryAddr] = balance[TreasuryAddr] + n
        /\ to # TreasuryAddr => balance'[TreasuryAddr] = balance[TreasuryAddr]
    BY <1>0, <2>1, <2>2, FiniteAccounts, MovedFacts
  <2>4. QED BY <1>0, <2>1, <2>3
<1>2. ASSUME NEW b \in Bridges, NEW to \in Receivers, NEW n \in Amounts,
             BridgeMint(b, to, n)
      PROVE  balance'[TreasuryAddr] >= balance[TreasuryAddr]
  <2>1. to \in Account /\ n \in Nat /\ balance' = Credit(balance, to, n)
    BY <1>2 DEF BridgeMint
  <2>2. /\ to = TreasuryAddr => balance'[TreasuryAddr] = balance[TreasuryAddr] + n
        /\ to # TreasuryAddr => balance'[TreasuryAddr] = balance[TreasuryAddr]
    BY <1>0, <2>1 DEF Credit
  <2>3. QED BY <1>0, <2>1, <2>2
<1>3. ASSUME NEW b \in Bridges, NEW n \in Amounts, BridgeBurn(b, n)
      PROVE  balance'[TreasuryAddr] >= balance[TreasuryAddr]
  <2>1. b # TreasuryAddr /\ balance' = Debit(balance, b, n)
    BY <1>3 DEF BridgeBurn
  <2>2. QED BY <1>0, <2>1 DEF Debit
<1>4. CASE \/ \E owner \in Users, n \in Amounts : Approve(owner, n)
           \/ \E p \in Permits : SubmitPermit(p)
           \/ OwnerStep
  <2>1. balance' = balance
    BY <1>4 DEF Approve, SubmitPermit, OwnerStep, SetBridge
  <2>2. QED BY <1>0, <2>1
<1>5. QED
  BY <1>1, <1>2, <1>3, <1>4 DEF TokenStep, UserStep, MintStep, BurnStep

\* Whoever calls Claim, and whatever happened before, every token that leaves
\* the treasury reaches the beneficiary of that moment.
THEOREM OnlyBeneficiaryIsPaid == TimelockSpec => FeesReachOnlyBeneficiary
<1> DEFINE Swept == balance' = [balance EXCEPT ![beneficiary] = @ + balance[TreasuryAddr],
                                               ![TreasuryAddr] = 0]
<1>1. ASSUME TimelockInv, [TimelockNext]_timelockVars
      PROVE  [balance'[TreasuryAddr] < balance[TreasuryAddr] => Swept]_timelockVars
  <2>0. /\ balance \in [Account -> Nat] /\ TreasuryAddr \in Account
        /\ balance[TreasuryAddr] \in Nat /\ beneficiary \in Account
        /\ TreasuryTypeOK
    BY <1>1 DEF TimelockInv, TimelockTypeOK, TreasuryTypeOK, TokenTypeOK, Account
  <2>1. CASE Claim
    <3>1. balance' = Moved(balance, TreasuryAddr, beneficiary, balance[TreasuryAddr])
      BY <2>1 DEF Claim
    <3>2. CASE beneficiary = TreasuryAddr
      <4>1. balance'[TreasuryAddr] = balance[TreasuryAddr]
        BY <2>0, <3>1, <3>2, FiniteAccounts, MovedFacts
      <4>2. QED BY <2>0, <4>1
    <3>3. CASE beneficiary # TreasuryAddr
      <4>1. Debit(balance, TreasuryAddr, balance[TreasuryAddr]) =
              [balance EXCEPT ![TreasuryAddr] = 0]
        <5>1. balance[TreasuryAddr] - balance[TreasuryAddr] = 0
          BY <2>0
        <5>2. QED BY <5>1, Zenon DEF Debit
      <4>2. balance' = Credit([balance EXCEPT ![TreasuryAddr] = 0], beneficiary,
                              balance[TreasuryAddr])
        BY <3>1, <4>1 DEF Moved
      <4>3. Swept
        BY <2>0, <3>3, <4>2 DEF Credit
      <4>4. QED BY <4>3
    <3>4. QED BY <3>2, <3>3
  <2>2. CASE TokenStep
    <3>1. balance'[TreasuryAddr] >= balance[TreasuryAddr]
      BY <2>0, <2>2, TokenStepSparesTreasury
    <3>2. balance'[TreasuryAddr] \in Nat
      BY <2>0, <2>2, TokenTypeStep DEF TreasuryTypeOK, TokenTypeOK
    <3>3. QED BY <2>0, <3>1, <3>2
  <2>3. CASE ~Claim /\ ~TokenStep
    <3>1. balance' = balance
      BY <1>1, <2>3
         DEF TimelockNext, TimelockStep, RecordQueue, QueueBeneficiary, OtherTreasuryStep,
             SetFeeBps, ActivateBeneficiary, CancelBeneficiaryChange, PassTime, Tick,
             tokenVars, timelockVars
    <3>2. QED BY <2>0, <3>1
  <2>4. QED BY <2>1, <2>2, <2>3
<1>2. QED
  BY <1>1, TimelockInit0, TimelockInvStep, PTL DEF TimelockSpec, FeesReachOnlyBeneficiary
=============================================================================
