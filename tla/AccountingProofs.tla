-------------------------- MODULE AccountingProofs --------------------------
(***************************************************************************)
(* What crediting and debiting an account does to the total of a ledger.   *)
(* The total is a cardinality, so these facts need no induction: changing  *)
(* one account replaces that account's units and leaves the others'.       *)
(***************************************************************************)
EXTENDS Accounting, Integers, FunctionTheorems, FiniteSetTheorems, TLAPS

\* The units of one account, and those of all others.
UnitsAt(f, a) == {a} \X (1 .. f[a])
UnitsBeside(f, a) == {u \in UnitsOf(f) : u[1] # a}

\* The ledgers over a finite set of accounts have finitely many units.
LEMMA UnitsOfFinite ==
  ASSUME NEW S, IsFiniteSet(S), NEW f \in [S -> Nat]
  PROVE  IsFiniteSet(UnitsOf(f))
<1> DEFINE T == {{a} \X (1 .. f[a]) : a \in DOMAIN f}
<1> DEFINE g == [a \in S |-> {a} \X (1 .. f[a])]
<1>1. g \in Surjection(S, T)
  BY DEF Surjection
<1>2. IsFiniteSet(T)
  BY <1>1, FS_Surjection
<1>3. ASSUME NEW U \in T PROVE IsFiniteSet(U)
  <2>1. PICK a \in S : U = {a} \X (1 .. f[a])
    OBVIOUS
  <2>2. IsFiniteSet({a})
    BY FS_Singleton
  <2>3. f[a] \in Int /\ 1 \in Int
    OBVIOUS
  <2>4. IsFiniteSet(1 .. f[a])
    BY <2>3, FS_Interval
  <2>5. QED BY <2>1, <2>2, <2>4, FS_Product
<1>4. QED BY <1>2, <1>3, FS_UNION DEF UnitsOf

\* The total of such a ledger is a natural number.
LEMMA TotalType ==
  ASSUME NEW S, IsFiniteSet(S), NEW f \in [S -> Nat]
  PROVE  Total(f) \in Nat
BY UnitsOfFinite, FS_CardinalityType DEF Total

\* An account's amount and the units of all other accounts make up the total.
LEMMA TotalSplit ==
  ASSUME NEW S, IsFiniteSet(S), NEW f \in [S -> Nat], NEW a \in S
  PROVE  /\ IsFiniteSet(UnitsBeside(f, a))
         /\ Cardinality(UnitsBeside(f, a)) \in Nat
         /\ Total(f) = Cardinality(UnitsBeside(f, a)) + f[a]
<1>1. IsFiniteSet(UnitsOf(f))
  BY UnitsOfFinite
<1>2. IsFiniteSet(UnitsBeside(f, a))
  BY <1>1, FS_Subset DEF UnitsBeside
<1>3. IsFiniteSet(UnitsAt(f, a)) /\ Cardinality(UnitsAt(f, a)) = f[a]
  <2>1. IsFiniteSet({a}) /\ Cardinality({a}) = 1
    BY FS_Singleton
  <2>2. f[a] \in Nat /\ 1 \in Int /\ f[a] \in Int
    OBVIOUS
  <2>3. IsFiniteSet(1 .. f[a]) /\ Cardinality(1 .. f[a]) = IF 1 > f[a] THEN 0 ELSE f[a] - 1 + 1
    BY <2>2, FS_Interval
  <2>4. Cardinality(1 .. f[a]) = f[a]
    BY <2>2, <2>3
  <2> DEFINE T == 1 .. f[a]
  <2>5. T = 1 .. f[a] /\ UnitsAt(f, a) = {a} \X T
    BY DEF UnitsAt
  <2> HIDE DEF T
  <2>6. /\ IsFiniteSet({a} \X T)
        /\ Cardinality({a} \X T) = Cardinality({a}) * Cardinality(T)
    BY <2>1, <2>3, <2>5, FS_Product
  <2>7. QED BY <2>1, <2>2, <2>4, <2>5, <2>6
<1>4. UnitsOf(f) = UnitsBeside(f, a) \cup UnitsAt(f, a)
  <2>1. UnitsAt(f, a) \subseteq UnitsOf(f)
    BY DEF UnitsAt, UnitsOf
  <2>2. ASSUME NEW u \in UnitsOf(f), u[1] = a PROVE u \in UnitsAt(f, a)
    BY <2>2 DEF UnitsAt, UnitsOf
  <2>3. QED BY <2>1, <2>2 DEF UnitsBeside
<1>5. UnitsBeside(f, a) \cap UnitsAt(f, a) = {}
  BY DEF UnitsBeside, UnitsAt
<1>6. Cardinality(UnitsOf(f)) = Cardinality(UnitsBeside(f, a)) + Cardinality(UnitsAt(f, a)) - 0
  <2>1. Cardinality(UnitsBeside(f, a) \cap UnitsAt(f, a)) = 0
    BY <1>5, FS_EmptySet
  <2>2. Cardinality(UnitsBeside(f, a) \cup UnitsAt(f, a)) =
          Cardinality(UnitsBeside(f, a)) + Cardinality(UnitsAt(f, a))
            - Cardinality(UnitsBeside(f, a) \cap UnitsAt(f, a))
    BY <1>2, <1>3, FS_Union
  <2>3. QED BY <1>4, <2>1, <2>2
<1>7. Cardinality(UnitsBeside(f, a)) \in Nat
  BY <1>2, FS_CardinalityType
<1>8. QED BY <1>2, <1>3, <1>6, <1>7 DEF Total

\* Two ledgers that differ in one account differ by as much in their totals.
LEMMA TotalChange ==
  ASSUME NEW S, IsFiniteSet(S), NEW f \in [S -> Nat], NEW g \in [S -> Nat],
         NEW a \in S, \A b \in S : b # a => g[b] = f[b]
  PROVE  Total(g) = Total(f) - f[a] + g[a]
<1>1. UnitsBeside(g, a) = UnitsBeside(f, a)
  <2>1. ASSUME NEW u PROVE u \in UnitsBeside(g, a) <=> u \in UnitsBeside(f, a)
    BY DEF UnitsBeside, UnitsOf
  <2>2. QED BY <2>1
<1>2. /\ Total(g) = Cardinality(UnitsBeside(g, a)) + g[a]
      /\ Total(f) = Cardinality(UnitsBeside(f, a)) + f[a]
      /\ Cardinality(UnitsBeside(f, a)) \in Nat
  BY TotalSplit
<1>3. f[a] \in Nat /\ g[a] \in Nat
  OBVIOUS
<1>4. QED BY <1>1, <1>2, <1>3

\* What a credit adds to the total; what it does to the accounts is apart,
\* for a fact that gives a new ledger for every ledger is hard to search with.
LEMMA CreditTotal ==
  ASSUME NEW S, IsFiniteSet(S), NEW f \in [S -> Nat], NEW a \in S, NEW n \in Nat
  PROVE  Total(Credit(f, a, n)) = Total(f) + n
<1>1. /\ Credit(f, a, n) \in [S -> Nat]
      /\ Credit(f, a, n)[a] = f[a] + n
      /\ \A b \in S : b # a => Credit(f, a, n)[b] = f[b]
  BY DEF Credit
<1>2. Total(Credit(f, a, n)) = Total(f) - f[a] + Credit(f, a, n)[a]
  BY <1>1, TotalChange
<1>3. Total(f) \in Nat /\ f[a] \in Nat
  BY TotalType
<1>4. QED BY <1>1, <1>2, <1>3

\* A credit adds to the total what it adds to the account.
LEMMA TotalCredit ==
  ASSUME NEW S, IsFiniteSet(S), NEW f \in [S -> Nat], NEW a \in S, NEW n \in Nat
  PROVE  /\ Credit(f, a, n) \in [S -> Nat]
         /\ Credit(f, a, n)[a] = f[a] + n
         /\ \A b \in S : b # a => Credit(f, a, n)[b] = f[b]
         /\ Total(Credit(f, a, n)) = Total(f) + n
<1>1. /\ Credit(f, a, n) \in [S -> Nat]
      /\ Credit(f, a, n)[a] = f[a] + n
      /\ \A b \in S : b # a => Credit(f, a, n)[b] = f[b]
  BY DEF Credit
<1>2. QED BY <1>1, CreditTotal

\* A debit the account can bear takes it from the total.
LEMMA TotalDebit ==
  ASSUME NEW S, IsFiniteSet(S), NEW f \in [S -> Nat], NEW a \in S, NEW n \in Nat, n <= f[a]
  PROVE  /\ Debit(f, a, n) \in [S -> Nat]
         /\ Debit(f, a, n)[a] = f[a] - n
         /\ \A b \in S : b # a => Debit(f, a, n)[b] = f[b]
         /\ Total(Debit(f, a, n)) = Total(f) - n
<1>1. /\ Debit(f, a, n) \in [S -> Nat]
      /\ Debit(f, a, n)[a] = f[a] - n
      /\ \A b \in S : b # a => Debit(f, a, n)[b] = f[b]
  BY DEF Debit
<1>2. Total(Debit(f, a, n)) = Total(f) - f[a] + Debit(f, a, n)[a]
  BY <1>1, TotalChange
<1>3. Total(f) \in Nat /\ f[a] \in Nat
  BY TotalType
<1>4. QED BY <1>1, <1>2, <1>3

\* The ledger in which every account is empty has total 0.
LEMMA TotalEmpty ==
  ASSUME NEW S
  PROVE  Total([a \in S |-> 0]) = 0
<1>1. UnitsOf([a \in S |-> 0]) = {}
  BY DEF UnitsOf
<1>2. QED BY <1>1, FS_EmptySet DEF Total

\* If every account of g has an account of its own in f with at least as much,
\* f has at least as much in total.
LEMMA TotalCovered ==
  ASSUME NEW S, IsFiniteSet(S), NEW f \in [S -> Nat], NEW T, NEW g \in [T -> Nat],
         NEW h \in [T -> S], \A x \in T : g[x] <= f[h[x]],
         \A x, y \in T : h[x] = h[y] => x = y
  PROVE  IsFiniteSet(UnitsOf(g)) /\ Total(g) \in Nat /\ Total(g) <= Total(f)
<1> DEFINE i == [u \in UnitsOf(g) |-> <<h[u[1]], u[2]>>]
<1>1. ASSUME NEW u \in UnitsOf(g)
      PROVE  u[1] \in T /\ u[2] \in 1 .. g[u[1]] /\ u = <<u[1], u[2]>>
  BY DEF UnitsOf
<1>2. i \in [UnitsOf(g) -> UnitsOf(f)]
  <2>1. SUFFICES ASSUME NEW u \in UnitsOf(g) PROVE <<h[u[1]], u[2]>> \in UnitsOf(f)
    OBVIOUS
  <2>2. h[u[1]] \in S /\ g[u[1]] \in Nat /\ f[h[u[1]]] \in Nat /\ g[u[1]] <= f[h[u[1]]]
    BY <1>1
  <2>3. u[2] \in 1 .. f[h[u[1]]]
    BY <1>1, <2>2
  <2>4. QED BY <2>2, <2>3 DEF UnitsOf
<1>3. \A u, v \in UnitsOf(g) : i[u] = i[v] => u = v
  <2>1. SUFFICES ASSUME NEW u \in UnitsOf(g), NEW v \in UnitsOf(g), i[u] = i[v]
                 PROVE  u = v
    OBVIOUS
  <2>2. h[u[1]] = h[v[1]] /\ u[2] = v[2]
    BY <2>1
  <2>3. u[1] = v[1]
    BY <1>1, <2>2
  <2>4. QED BY <1>1, <2>2, <2>3
<1> HIDE DEF i
<1>4. i \in Injection(UnitsOf(g), UnitsOf(f))
  BY <1>2, <1>3, Fun_IsInj
<1>5. IsFiniteSet(UnitsOf(f))
  BY UnitsOfFinite
<1>6. QED BY <1>4, <1>5, FS_Injection, FS_CardinalityType DEF Total

\* Parts of a ledger: the accounts of S alone.
PartOf(f, S) == [a \in S |-> f[a]]

LEMMA PartType ==
  ASSUME NEW D, IsFiniteSet(D), NEW f \in [D -> Nat], NEW S \in SUBSET D
  PROVE  /\ IsFiniteSet(S) /\ PartOf(f, S) \in [S -> Nat]
         /\ Total(PartOf(f, S)) \in Nat
<1>1. IsFiniteSet(S)
  BY FS_Subset
<1>2. PartOf(f, S) \in [S -> Nat]
  BY DEF PartOf
<1>3. QED BY <1>1, <1>2, TotalType

\* A larger part holds no less.
LEMMA PartGrows ==
  ASSUME NEW D, IsFiniteSet(D), NEW f \in [D -> Nat], NEW T \in SUBSET D, NEW S \in SUBSET T
  PROVE  Total(PartOf(f, S)) <= Total(PartOf(f, T))
<1> DEFINE h == [a \in S |-> a]
<1>1. h \in [S -> T] /\ \A x, y \in S : h[x] = h[y] => x = y
  OBVIOUS
<1>2. \A x \in S : PartOf(f, S)[x] <= PartOf(f, T)[h[x]]
  BY DEF PartOf
<1>3. /\ IsFiniteSet(T)
      /\ PartOf(f, S) \in [S -> Nat] /\ PartOf(f, T) \in [T -> Nat]
  BY PartType
<1> HIDE DEF h
<1>4. QED BY <1>1, <1>2, <1>3, TotalCovered

\* Empty accounts do not count.
LEMMA PartSame ==
  ASSUME NEW f, NEW T, NEW S \in SUBSET T, \A a \in T \ S : f[a] = 0
  PROVE  Total(PartOf(f, T)) = Total(PartOf(f, S))
<1>1. ASSUME NEW u PROVE u \in UnitsOf(PartOf(f, T)) <=> u \in UnitsOf(PartOf(f, S))
  BY DEF UnitsOf, PartOf
<1>2. UnitsOf(PartOf(f, T)) = UnitsOf(PartOf(f, S))
  BY <1>1
<1>3. QED BY <1>2 DEF Total

\* Two parts together hold at most what each of them holds.
LEMMA PartsTogether ==
  ASSUME NEW D, IsFiniteSet(D), NEW f \in [D -> Nat], NEW S \in SUBSET D, NEW T \in SUBSET D
  PROVE  Total(PartOf(f, S \cup T)) <= Total(PartOf(f, S)) + Total(PartOf(f, T))
<1> DEFINE U == UnitsOf(PartOf(f, S))
           V == UnitsOf(PartOf(f, T))
<1>1. ASSUME NEW u PROVE u \in UnitsOf(PartOf(f, S \cup T)) <=> u \in U \cup V
  BY DEF UnitsOf, PartOf
<1>2. UnitsOf(PartOf(f, S \cup T)) = U \cup V
  BY <1>1
<1>3. IsFiniteSet(U) /\ IsFiniteSet(V)
  BY PartType, UnitsOfFinite
<1> HIDE DEF U, V
<1>4. /\ Cardinality(U) \in Nat /\ Cardinality(V) \in Nat
      /\ Cardinality(U \cup V) = Cardinality(U) + Cardinality(V) - Cardinality(U \cap V)
  BY <1>3, FS_Union, FS_CardinalityType
<1>5. Cardinality(U \cap V) \in Nat
  <2>1. IsFiniteSet(U \cap V)
    BY <1>3, FS_Subset
  <2>2. QED BY <2>1, FS_CardinalityType
<1>6. Total(PartOf(f, S)) = Cardinality(U) /\ Total(PartOf(f, T)) = Cardinality(V)
  BY DEF Total, U, V
<1>7. Total(PartOf(f, S \cup T)) = Cardinality(U \cup V)
  BY <1>2 DEF Total
<1>8. QED BY <1>4, <1>5, <1>6, <1>7

\* Two parts with no account in common hold together what each of them holds.
LEMMA PartsApart ==
  ASSUME NEW D, IsFiniteSet(D), NEW f \in [D -> Nat], NEW S \in SUBSET D, NEW T \in SUBSET D,
         S \cap T = {}
  PROVE  Total(PartOf(f, S \cup T)) = Total(PartOf(f, S)) + Total(PartOf(f, T))
<1> DEFINE U == UnitsOf(PartOf(f, S))
           V == UnitsOf(PartOf(f, T))
<1>1. ASSUME NEW u PROVE u \in UnitsOf(PartOf(f, S \cup T)) <=> u \in U \cup V
  BY DEF UnitsOf, PartOf
<1>2. UnitsOf(PartOf(f, S \cup T)) = U \cup V
  BY <1>1
<1>3. IsFiniteSet(U) /\ IsFiniteSet(V)
  BY PartType, UnitsOfFinite
<1>4. U \cap V = {}
  BY DEF UnitsOf, PartOf
<1> HIDE DEF U, V
<1>5. /\ Cardinality(U) \in Nat /\ Cardinality(V) \in Nat
      /\ Cardinality(U \cup V) = Cardinality(U) + Cardinality(V) - Cardinality(U \cap V)
  BY <1>3, FS_Union, FS_CardinalityType
<1>6. Cardinality(U \cap V) = 0
  BY <1>4, FS_EmptySet
<1>7. Total(PartOf(f, S)) = Cardinality(U) /\ Total(PartOf(f, T)) = Cardinality(V)
  BY DEF Total, U, V
<1>8. Total(PartOf(f, S \cup T)) = Cardinality(U \cup V)
  BY <1>2 DEF Total
<1>9. QED BY <1>5, <1>6, <1>7, <1>8

-----------------------------------------------------------------------------
\* An amount L cut into n pieces of size M, of which the last may be smaller.
Piece(L, M, i) == IF i * M <= L THEN M ELSE L - (i - 1) * M
AllPieces(L, M, n) == IF n * M <= L THEN n * M ELSE L

\* Later multiples are larger by one M at least.
LEMMA Multiples ==
  ASSUME NEW M \in Nat \ {0}, NEW i \in Int, NEW j \in Int, i < j
  PROVE  i * M \in Int /\ j * M \in Int /\ i * M + M <= j * M /\ (j - 1) * M = j * M - M
<1>1. i * M \in Int /\ j * M \in Int /\ (j - i - 1) * M \in Int
  OBVIOUS
<1>2. j - i - 1 \in Nat
  OBVIOUS
<1>3. (j - i - 1) * M \in Nat
  BY <1>2
<1>4. (j - i - 1) * M = j * M - i * M - M
  OBVIOUS
<1>5. (j - 1) * M = j * M - M
  OBVIOUS
<1>6. QED BY <1>1, <1>3, <1>4, <1>5

LEMMA Division ==
  ASSUME NEW y \in Nat, NEW M \in Nat \ {0}
  PROVE  /\ y \div M \in Nat /\ (y \div M) * M \in Nat
         /\ (y \div M) * M <= y /\ y < (y \div M) * M + M
<1>1. y \div M \in Nat
  OBVIOUS
<1>2. (y \div M) * M <= y
  OBVIOUS
<1>3. y < (y \div M) * M + M
  OBVIOUS
<1>4. (y \div M) * M \in Nat
  BY <1>1
<1>5. QED BY <1>1, <1>2, <1>3, <1>4

\* Every piece holds something, and a unit of piece i is one of the amount.
LEMMA PieceFacts ==
  ASSUME NEW L \in Nat, NEW M \in Nat \ {0}, NEW n \in Nat, n = 0 \/ (n - 1) * M < L,
         NEW i \in 1 .. n
  PROVE  /\ Piece(L, M, i) \in Nat \ {0} /\ Piece(L, M, i) <= M
         /\ AllPieces(L, M, n) \in Nat
         /\ (i - 1) * M \in Nat /\ (i - 1) * M + Piece(L, M, i) <= AllPieces(L, M, n)
<1>1. /\ i - 1 \in Nat /\ n \in Nat \ {0} /\ (n - 1) * M < L
      /\ (i - 1) * M \in Nat /\ n * M \in Nat /\ i * M \in Nat /\ (n - 1) * M \in Nat
  OBVIOUS
<1>2. i * M = (i - 1) * M + M /\ n * M = (n - 1) * M + M
  OBVIOUS
<1>3. i * M <= n * M
  <2>1. CASE i = n
    BY <2>1, <1>1
  <2>2. CASE i < n
    BY <2>2, <1>1, Multiples
  <2>3. QED BY <2>1, <2>2
<1>4. (i - 1) * M < L
  BY <1>1, <1>2, <1>3
<1>5. QED BY <1>1, <1>2, <1>3, <1>4 DEF Piece, AllPieces

LEMMA Stretch ==
  ASSUME NEW base \in Nat, NEW n \in Nat
  PROVE  IsFiniteSet(base + 1 .. base + n) /\ Cardinality(base + 1 .. base + n) = n
<1> DEFINE lo == base + 1
           hi == base + n
<1>1. lo \in Int /\ hi \in Int /\ lo = base + 1 /\ hi = base + n
  OBVIOUS
<1> HIDE DEF lo, hi
<1>2. /\ IsFiniteSet(lo .. hi)
      /\ Cardinality(lo .. hi) = IF lo > hi THEN 0 ELSE hi - lo + 1
  BY <1>1, FS_Interval
<1>3. Cardinality(lo .. hi) = n
  BY <1>1, <1>2
<1>4. QED BY <1>1, <1>2, <1>3

\* Ledger f holds the n pieces of L, in the accounts S that follow base.
CutUp(f, S, base, L, M, n) ==
    /\ n = 0 \/ (n - 1) * M < L
    /\ S = base + 1 .. base + n /\ f \in [S -> Nat]
    /\ \A i \in 1 .. n : f[base + i] = Piece(L, M, i)

\* The pieces make up the amount, or all of it they are to be cut from: unit k
\* of piece i is unit (i - 1) * M + k of the amount.
LEMMA PiecesTotal ==
  ASSUME NEW L \in Nat, NEW M \in Nat \ {0}, NEW n \in Nat, NEW base \in Nat,
         NEW S, NEW f, CutUp(f, S, base, L, M, n)
  PROVE  AllPieces(L, M, n) \in Nat /\ Total(f) = AllPieces(L, M, n)
<1>0. /\ n = 0 \/ (n - 1) * M < L
      /\ S = base + 1 .. base + n /\ f \in [S -> Nat]
      /\ \A i \in 1 .. n : f[base + i] = Piece(L, M, i)
  BY DEF CutUp
<1> DEFINE N == AllPieces(L, M, n)
           g == [u \in UnitsOf(f) |-> (u[1] - base - 1) * M + u[2]]
<1>1. N \in Nat
  <2>1. n * M \in Nat
    OBVIOUS
  <2>2. QED BY <2>1 DEF AllPieces
<1>2. ASSUME NEW u \in UnitsOf(f)
      PROVE  /\ u = <<u[1], u[2]>> /\ u[1] - base \in 1 .. n /\ u[1] \in Int
             /\ u[2] \in 1 .. Piece(L, M, u[1] - base)
  <2>1. u = <<u[1], u[2]>> /\ u[1] \in base + 1 .. base + n /\ u[2] \in 1 .. f[u[1]]
    BY <1>0 DEF UnitsOf
  <2>2. u[1] - base \in 1 .. n /\ base + (u[1] - base) = u[1]
    BY <2>1
  <2>3. f[u[1]] = Piece(L, M, u[1] - base)
    BY <1>0, <2>2
  <2>4. QED BY <2>1, <2>2, <2>3
<1>3. ASSUME NEW u \in UnitsOf(f)
      PROVE  g[u] \in 1 .. N /\ g[u] = (u[1] - base - 1) * M + u[2]
  <2> DEFINE i == u[1] - base
  <2>1. i \in 1 .. n /\ u[2] \in 1 .. Piece(L, M, i)
    BY <1>2
  <2>2. g[u] = (i - 1) * M + u[2]
    OBVIOUS
  <2> HIDE DEF i
  <2>3. /\ Piece(L, M, i) \in Nat /\ (i - 1) * M \in Nat
        /\ (i - 1) * M + Piece(L, M, i) <= N
    BY <1>0, <2>1, PieceFacts
  <2>4. u[2] \in Nat /\ 1 <= u[2] /\ u[2] <= Piece(L, M, i)
    BY <2>1, <2>3
  <2>5. QED
    <3> DEFINE a == (i - 1) * M
               p == Piece(L, M, i)
    <3>1. a \in Nat /\ p \in Nat /\ a + p <= N /\ u[2] <= p
      BY <2>3, <2>4
    <3> HIDE DEF a, p, N
    <3>2. a + u[2] \in 1 .. N
      BY <1>1, <2>4, <3>1
    <3>3. QED BY <2>2, <3>2 DEF i, a
<1>4. ASSUME NEW u \in UnitsOf(f), NEW v \in UnitsOf(f), g[u] = g[v]
      PROVE  u = v
  <2> DEFINE i == u[1] - base
             j == v[1] - base
  <2>1. /\ i \in 1 .. n /\ u[2] \in 1 .. Piece(L, M, i)
        /\ j \in 1 .. n /\ v[2] \in 1 .. Piece(L, M, j)
    BY <1>2
  <2>2. (i - 1) * M + u[2] = (j - 1) * M + v[2]
    BY <1>3, <1>4
  <2> HIDE DEF i, j
  <2>3. /\ Piece(L, M, i) \in Nat /\ Piece(L, M, i) <= M
        /\ Piece(L, M, j) \in Nat /\ Piece(L, M, j) <= M
        /\ (i - 1) * M \in Nat /\ (j - 1) * M \in Nat
    BY <1>0, <2>1, PieceFacts
  <2>4. u[2] \in 1 .. M /\ v[2] \in 1 .. M
    BY <2>1, <2>3
  <2>5. ~(i < j)
    <3>1. i < j => (i - 1) * M + M <= (j - 1) * M
      BY <2>1, Multiples
    <3>2. QED BY <2>2, <2>3, <2>4, <3>1
  <2>6. ~(j < i)
    <3>1. j < i => (j - 1) * M + M <= (i - 1) * M
      BY <2>1, Multiples
    <3>2. QED BY <2>2, <2>3, <2>4, <3>1
  <2>7. i = j
    BY <2>1, <2>5, <2>6
  <2>8. u[2] = v[2]
    BY <2>2, <2>3, <2>4, <2>7
  <2>9. u[1] \in Int /\ v[1] \in Int /\ base \in Int
    BY <1>2
  <2>10. u[1] = v[1]
    BY <2>7, <2>9 DEF i, j
  <2>11. u = <<u[1], u[2]>> /\ v = <<v[1], v[2]>>
    BY <1>2
  <2>12. QED BY <2>8, <2>10, <2>11
<1>5. ASSUME NEW x \in 1 .. N PROVE \E u \in UnitsOf(f) : g[u] = x
  <2> DEFINE i == (x - 1) \div M + 1
             k == x - (i - 1) * M
  <2>1. /\ i \in Nat \ {0} /\ k \in 1 .. M /\ x = (i - 1) * M + k /\ (i - 1) * M \in Nat
    <3> DEFINE d == (x - 1) \div M
    <3>1. x - 1 \in Nat /\ x \in Int
      BY <1>1
    <3>2. d \in Nat /\ d * M \in Nat /\ d * M <= x - 1 /\ x - 1 < d * M + M
      BY <3>1, Division
    <3> HIDE DEF d
    <3>3. d + 1 - 1 = d
      BY <3>2
    <3>4. i - 1 = d /\ i \in Nat \ {0}
      BY <3>2, <3>3 DEF d
    <3> HIDE DEF i
    <3>5. x - d * M \in 1 .. M /\ x = d * M + (x - d * M)
      BY <3>1, <3>2
    <3>6. QED BY <3>2, <3>4, <3>5
  <2> HIDE DEF i, k
  <2>2. /\ n * M \in Nat /\ x <= n * M /\ x <= L
    <3>1. n * M \in Nat
      OBVIOUS
    <3>2. QED BY <3>1, <1>1 DEF AllPieces
  <2>3. i \in 1 .. n
    <3>1. ASSUME n < i PROVE n * M <= (i - 1) * M
      <4>1. n * M + M <= i * M /\ (i - 1) * M = i * M - M /\ i * M \in Int
        BY <2>1, <3>1, Multiples
      <4>2. QED BY <2>1, <2>2, <4>1
    <3> DEFINE a == (i - 1) * M
               c == n * M
    <3>2. a \in Nat /\ c \in Nat /\ a < x /\ x <= c /\ (n < i => c <= a)
      BY <2>1, <2>2, <3>1
    <3> HIDE DEF a, c
    <3>3. QED BY <2>1, <3>2
  <2>4. k \in 1 .. Piece(L, M, i)
    BY <2>1, <2>2 DEF Piece
  <2>5. /\ base + i \in base + 1 .. base + n /\ f[base + i] = Piece(L, M, i)
        /\ (base + i) - base - 1 = i - 1
    BY <1>0, <2>3
  <2>6. <<base + i, k>> \in UnitsOf(f)
    <3> DEFINE b == base + i
    <3>1. b \in S /\ k \in 1 .. f[b] /\ DOMAIN f = S
      BY <1>0, <2>4, <2>5
    <3> HIDE DEF b
    <3>2. <<b, k>> \in UnitsOf(f)
      BY <3>1 DEF UnitsOf
    <3>3. QED BY <3>2 DEF b
  <2>7. g[<<base + i, k>>] = x
    BY <2>1, <2>5, <2>6
  <2>8. QED BY <2>6, <2>7
<1>6. g \in [UnitsOf(f) -> 1 .. N]
  BY <1>3
<1> HIDE DEF g, N
<1>7. IsFiniteSet(1 .. N) /\ Cardinality(1 .. N) = N
  BY <1>1, FS_Interval
<1>8. IsFiniteSet(UnitsOf(f))
  <2>1. IsFiniteSet(S) /\ f \in [S -> Nat]
    BY <1>0, Stretch
  <2>2. QED BY <2>1, UnitsOfFinite
<1>9. g \in Bijection(UnitsOf(f), 1 .. N)
  BY <1>4, <1>5, <1>6, Fun_IsBij
<1>10. Cardinality(UnitsOf(f)) = N
  BY <1>7, <1>8, <1>9, FS_Bijection DEF ExistsBijection
<1>11. QED BY <1>1, <1>10 DEF Total, N

\* The total of a ledger of marks, each 0 or 1, is the number of the marked.
LEMMA TotalMarks ==
  ASSUME NEW S, IsFiniteSet(S), NEW f, DOMAIN f = S, \A a \in S : f[a] \in {0, 1}
  PROVE  Total(f) = Cardinality({a \in S : f[a] = 1})
<1> DEFINE B == {a \in S : f[a] = 1}
           g == [a \in B |-> <<a, 1>>]
<1>1. IsFiniteSet(B)
  BY FS_Subset
<1>2. ASSUME NEW u PROVE u \in UnitsOf(f) <=> \E a \in B : u = <<a, 1>>
  <2>1. u \in UnitsOf(f) <=> \E a \in S : \E n \in 1 .. f[a] : u = <<a, n>>
    BY DEF UnitsOf
  <2>2. \A a \in S : \A n : n \in 1 .. f[a] <=> f[a] = 1 /\ n = 1
    <3>1. ASSUME NEW a \in S, NEW n PROVE n \in 1 .. f[a] <=> f[a] = 1 /\ n = 1
      <4>1. CASE f[a] = 0
        BY <4>1
      <4>2. CASE f[a] = 1
        BY <4>2
      <4>3. QED BY <4>1, <4>2
    <3>2. QED BY <3>1
  <2>3. QED BY <2>1, <2>2
<1>3. g \in Surjection(B, UnitsOf(f))
  BY <1>2 DEF Surjection
<1>4. g \in Injection(B, UnitsOf(f))
  BY <1>3 DEF Injection, Surjection, IsInjective
<1>5. Cardinality(UnitsOf(f)) = Cardinality(B)
  BY <1>1, <1>3, <1>4, FS_Surjection
<1>6. QED BY <1>5 DEF Total
=============================================================================
