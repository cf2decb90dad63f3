----------------------------- MODULE SiteProofs ------------------------------
(***************************************************************************)
(* What the playground promises for any prices, caps, wealth, forms and    *)
(* console calls, however long it is clicked at: its books balance, the    *)
(* page shows money that is current, a node keeps to the credit it granted *)
(* and to its receipts.                                                    *)
(***************************************************************************)
EXTENDS Site, SequenceTheorems, WellFoundedInduction, TLAPS

\* Induction up to n, for a set: the library's theorems take an operator, which
\* the provers here cannot instantiate; a least counterexample does as well.
LEMMA SetInduction ==
  ASSUME NEW n \in Nat, NEW P, 0 \in P,
         \A i \in 0 .. n : i < n /\ i \in P => i + 1 \in P
  PROVE  \A i \in 0 .. n : i \in P
<1> SUFFICES ASSUME NEW j \in 0 .. n, j \notin P PROVE FALSE
  OBVIOUS
<1> DEFINE T == {i \in 0 .. n : i \notin P}
<1>1. PICK i \in T : \A k \in T : i <= k
  <2>1. T \subseteq Nat /\ T # {}
    OBVIOUS
  <2> HIDE DEF T
  <2>2. PICK i \in T : \A k \in T : ~ (<<k, i>> \in OpToRel(<, Nat))
    BY <2>1, NatLessThanWellFounded, WFMin
  <2>3. \A k \in T : ~ (k < i)
    BY <2>1, <2>2 DEF OpToRel
  <2>4. QED BY <2>1, <2>3
<1>2. i # 0 /\ i - 1 \in 0 .. n /\ i - 1 < n /\ i - 1 \in P
  BY <1>1
<1>3. QED BY <1>1, <1>2

-----------------------------------------------------------------------------
\* The type of a world, field by field.

Bridge == [allowed : BOOLEAN, cap : Int, minted : Int, windowStart : Int]
Channel == [seq : Nat, units : Nat]
Ticket == [client : Clients, seq : Nat, units : Nat, expiry : Nat, signedBy : ACTORS]
Voucher == [amount : Nat, expires : Int]
Session ==
    [open : {TRUE}, client : Clients, target : Nat, bytes : Nat, base : Nat,
     unsettledAtStart : Nat, limit : Nat, lastReceipt : Nat, done : BOOLEAN,
     throttled : {None, "credit", "phone"}, servedPrice : Nat]

\* Balances: nobody is overdrawn but the thief of a drill.
Purses == {b \in [HOLDERS -> Int] : \A h \in HOLDERS \ {"mallory"} : b[h] >= 0}

Types == [
    t |-> Nat, deployed |-> BOOLEAN, params |-> Params,
    supply |-> Int, bal |-> Purses, allow |-> [ACTORS -> [SPENDERS -> Nat]],
    nonces |-> [ACTORS -> Nat], bridges |-> [ACTORS -> Bridge],
    owner |-> [CONTRACTS -> ACTORS \cup {None}], pendingOwner |-> [CONTRACTS -> ACTORS \cup {None}],
    deposits |-> [ACTORS -> Nat], earnings |-> [ACTORS -> Nat],
    channels |-> [Clients -> Channel], authNonces |-> [ACTORS -> Nat],
    price |-> Nat, lastPriceChange |-> Nat,
    fee |-> Fee, beneficiary |-> ACTORS \cup {None}, pending |-> ACTORS \cup {None},
    activation |-> Nat, mpesa |-> [ACTORS -> Nat], float |-> Nat,
    eth |-> [Clients -> Int], devices |-> [ACTORS -> BOOLEAN],
    tickets |-> [Clients -> Seq(Ticket)], vouchers |-> [ACTORS -> Voucher],
    session |-> Session \cup {NoSession}]

Fields == DOMAIN Types

\* w has the fields of a world, and x is w but for the fields F.
Shape(w) == w = [f \in Fields |-> w[f]]
Only(w, x, F) == Shape(x) /\ \A f \in Fields \ F : x[f] = w[f]

IsWorld(w) == Shape(w) /\ \A f \in Fields : w[f] \in Types[f]

LEMMA FieldNames ==
    /\ "t" \in Fields /\ "deployed" \in Fields /\ "params" \in Fields /\ "supply" \in Fields
    /\ "bal" \in Fields /\ "allow" \in Fields /\ "nonces" \in Fields /\ "bridges" \in Fields
    /\ "owner" \in Fields /\ "pendingOwner" \in Fields /\ "deposits" \in Fields
    /\ "earnings" \in Fields /\ "channels" \in Fields /\ "authNonces" \in Fields
    /\ "price" \in Fields /\ "lastPriceChange" \in Fields /\ "fee" \in Fields
    /\ "beneficiary" \in Fields /\ "pending" \in Fields /\ "activation" \in Fields
    /\ "mpesa" \in Fields /\ "float" \in Fields /\ "eth" \in Fields /\ "devices" \in Fields
    /\ "tickets" \in Fields /\ "vouchers" \in Fields /\ "session" \in Fields
BY DEF Fields, Types

LEMMA TypesOf ==
    /\ Types.t = Nat /\ Types.deployed = BOOLEAN /\ Types.params = Params
    /\ Types.supply = Int /\ Types.bal = Purses /\ Types.allow = [ACTORS -> [SPENDERS -> Nat]]
    /\ Types.nonces = [ACTORS -> Nat] /\ Types.bridges = [ACTORS -> Bridge]
    /\ Types.owner = [CONTRACTS -> ACTORS \cup {None}]
    /\ Types.pendingOwner = [CONTRACTS -> ACTORS \cup {None}]
    /\ Types.deposits = [ACTORS -> Nat] /\ Types.earnings = [ACTORS -> Nat]
    /\ Types.channels = [Clients -> Channel] /\ Types.authNonces = [ACTORS -> Nat]
    /\ Types.price = Nat /\ Types.lastPriceChange = Nat /\ Types.fee = Fee
    /\ Types.beneficiary = ACTORS \cup {None} /\ Types.pending = ACTORS \cup {None}
    /\ Types.activation = Nat /\ Types.mpesa = [ACTORS -> Nat] /\ Types.float = Nat
    /\ Types.eth = [Clients -> Int] /\ Types.devices = [ACTORS -> BOOLEAN]
    /\ Types.tickets = [Clients -> Seq(Ticket)] /\ Types.vouchers = [ACTORS -> Voucher]
    /\ Types.session = Session \cup {NoSession}
BY DEF Types

\* What IsWorld says, field by field.
LEMMA WorldTypes ==
  ASSUME NEW w, IsWorld(w)
  PROVE  /\ w.t \in Nat /\ w.deployed \in BOOLEAN /\ w.params \in Params
         /\ w.supply \in Int /\ w.bal \in Purses /\ w.allow \in [ACTORS -> [SPENDERS -> Nat]]
         /\ w.nonces \in [ACTORS -> Nat] /\ w.bridges \in [ACTORS -> Bridge]
         /\ w.owner \in [CONTRACTS -> ACTORS \cup {None}]
         /\ w.pendingOwner \in [CONTRACTS -> ACTORS \cup {None}]
         /\ w.deposits \in [ACTORS -> Nat] /\ w.earnings \in [ACTORS -> Nat]
         /\ w.channels \in [Clients -> Channel] /\ w.authNonces \in [ACTORS -> Nat]
         /\ w.price \in Nat /\ w.lastPriceChange \in Nat /\ w.fee \in Fee
         /\ w.beneficiary \in ACTORS \cup {None} /\ w.pending \in ACTORS \cup {None}
         /\ w.activation \in Nat /\ w.mpesa \in [ACTORS -> Nat] /\ w.float \in Nat
         /\ w.eth \in [Clients -> Int] /\ w.devices \in [ACTORS -> BOOLEAN]
         /\ w.tickets \in [Clients -> Seq(Ticket)] /\ w.vouchers \in [ACTORS -> Voucher]
         /\ w.session \in Session \cup {NoSession}
BY FieldNames, TypesOf DEF IsWorld

\* A world of which some fields are changed, each to a value of its type.
LEMMA ChangedWorld ==
  ASSUME NEW w, IsWorld(w), NEW x, NEW F, Only(w, x, F), F \subseteq Fields,
         \A f \in F : x[f] \in Types[f]
  PROVE  IsWorld(x)
BY DEF IsWorld, Only

LEMMA OnlyTwice ==
  ASSUME NEW w, NEW x, NEW y, NEW F, NEW G, Only(w, x, F), Only(x, y, G)
  PROVE  Only(w, y, F \cup G)
BY DEF Only

LEMMA OnlyMore ==
  ASSUME NEW w, NEW x, NEW F, NEW G, Only(w, x, F), F \subseteq G
  PROVE  Only(w, x, G)
BY DEF Only

-----------------------------------------------------------------------------
(* Sums. *)

Plus(f, a, n) == [f EXCEPT ![a] = @ + n]

\* All that the wallets and the two contracts hold.
HeldBy(b) == TotalOf(b) + b["escrow"] + b["treasury"]

LEMMA PlusFacts ==
  ASSUME NEW S, NEW f \in [S -> Int], NEW a \in S, NEW n \in Int
  PROVE  /\ Plus(f, a, n) \in [S -> Int]
         /\ Plus(f, a, n)[a] = f[a] + n
         /\ \A b \in S : b # a => Plus(f, a, n)[b] = f[b]
BY DEF Plus

LEMMA TotalType ==
  ASSUME NEW S, ACTORS \subseteq S, NEW f \in [S -> Int]
  PROVE  TotalOf(f) \in Int
BY DEF TotalOf, ACTORS, Clients

LEMMA PlusTotal ==
  ASSUME NEW S, ACTORS \subseteq S, NEW f \in [S -> Int], NEW a \in S, NEW n \in Int
  PROVE  TotalOf(Plus(f, a, n)) = TotalOf(f) + (IF a \in ACTORS THEN n ELSE 0)
<1> DEFINE g == Plus(f, a, n)
<1>1. g \in [S -> Int] /\ g[a] = f[a] + n /\ \A b \in S : b # a => g[b] = f[b]
  BY PlusFacts
<1> HIDE DEF g
<1>2. {"owner", "kiosk", "relayer", "node", "founder", "mallory", "amina", "baraka"} \subseteq S
  BY DEF ACTORS, Clients
<1>3. \A b \in S : f[b] \in Int
  OBVIOUS
<1>4. CASE a \notin ACTORS
  <2>1. TotalOf(g) = TotalOf(f)
    BY <1>1, <1>2, <1>3, <1>4 DEF TotalOf, ACTORS, Clients
  <2>2. TotalOf(f) \in Int
    BY TotalType
  <2>3. QED BY <1>4, <2>1, <2>2 DEF g
<1>5. CASE a \in ACTORS
  <2>1. TotalOf(g) = TotalOf(f) + n
    BY <1>1, <1>2, <1>3, <1>5 DEF TotalOf, ACTORS, Clients
  <2>2. QED BY <1>5, <2>1 DEF g
<1>6. QED BY <1>4, <1>5

LEMMA PlusHeld ==
  ASSUME NEW b \in [HOLDERS -> Int], NEW a \in HOLDERS, NEW n \in Int
  PROVE  HeldBy(Plus(b, a, n)) = HeldBy(b) + n
<1> DEFINE g == Plus(b, a, n)
<1>1. g \in [HOLDERS -> Int] /\ g[a] = b[a] + n /\ \A c \in HOLDERS : c # a => g[c] = b[c]
  BY PlusFacts
<1>2. TotalOf(g) = TotalOf(b) + (IF a \in ACTORS THEN n ELSE 0)
  BY PlusTotal DEF HOLDERS
<1>3. TotalOf(b) \in Int /\ TotalOf(g) \in Int
  BY <1>1, TotalType DEF HOLDERS
<1> HIDE DEF g
<1>4. /\ "escrow" \in HOLDERS /\ "treasury" \in HOLDERS
      /\ b["escrow"] \in Int /\ b["treasury"] \in Int /\ b[a] \in Int
      /\ "escrow" \notin ACTORS /\ "treasury" \notin ACTORS
      /\ a \in ACTORS \/ a = "escrow" \/ a = "treasury"
  BY DEF HOLDERS, ACTORS, Clients
<1>5. CASE a \in ACTORS
  BY <1>1, <1>2, <1>3, <1>4, <1>5 DEF HeldBy, g
<1>6. CASE a = "escrow"
  BY <1>1, <1>2, <1>3, <1>4, <1>6 DEF HeldBy, g
<1>7. CASE a = "treasury"
  BY <1>1, <1>2, <1>3, <1>4, <1>7 DEF HeldBy, g
<1>8. QED BY <1>4, <1>5, <1>6, <1>7

\* A move that the sender can bear keeps the purses and what they hold together.
LEMMA MovedPurse ==
  ASSUME NEW b \in Purses, NEW from \in HOLDERS, NEW to \in HOLDERS,
         NEW n \in Nat, n <= b[from]
  PROVE  /\ Moved(b, from, to, n) \in Purses
         /\ HeldBy(Moved(b, from, to, n)) = HeldBy(b)
         /\ from # to => Moved(b, from, to, n)[from] = b[from] - n
         /\ from # to => Moved(b, from, to, n)[to] = b[to] + n
         /\ \A c \in HOLDERS : c # from /\ c # to => Moved(b, from, to, n)[c] = b[c]
         /\ \A c \in HOLDERS : c # from => Moved(b, from, to, n)[c] >= b[c]
         /\ from = to \/ n = 0 => Moved(b, from, to, n) = b
<1> DEFINE g == Plus(b, from, -n)
<1>1. b \in [HOLDERS -> Int] /\ -n \in Int /\ n \in Int
  BY DEF Purses
<1>2. /\ g \in [HOLDERS -> Int] /\ g[from] = b[from] - n
      /\ \A c \in HOLDERS : c # from => g[c] = b[c]
  BY <1>1 DEF Plus
<1>3. HeldBy(g) = HeldBy(b) + (-n)
  BY <1>1, PlusHeld
<1>4. Moved(b, from, to, n) = Plus(g, to, n)
  BY <1>1 DEF Moved, Plus
<1> HIDE DEF g
<1> DEFINE h == Plus(g, to, n)
<1>5. h \in [HOLDERS -> Int] /\ h[to] = g[to] + n /\ \A c \in HOLDERS : c # to => h[c] = g[c]
  BY <1>1, <1>2 DEF Plus
<1>6. HeldBy(h) = HeldBy(g) + n
  BY <1>1, <1>2, PlusHeld
<1> HIDE DEF h
<1>7. h \in Purses
  BY <1>1, <1>2, <1>5 DEF Purses
<1>8. HeldBy(b) \in Int
  <2>1. ACTORS \subseteq HOLDERS /\ "escrow" \in HOLDERS /\ "treasury" \in HOLDERS
    BY DEF HOLDERS
  <2>2. TotalOf(b) \in Int /\ b["escrow"] \in Int /\ b["treasury"] \in Int
    BY <1>1, <2>1, TotalType
  <2>3. QED BY <2>2 DEF HeldBy
<1>9. HeldBy(h) = HeldBy(b)
  BY <1>1, <1>3, <1>6, <1>8
<1>10. /\ from # to => h[from] = b[from] - n /\ h[to] = b[to] + n
       /\ \A c \in HOLDERS : c # from /\ c # to => h[c] = b[c]
  BY <1>2, <1>5
<1>11. \A c \in HOLDERS : c # from => h[c] >= b[c]
  <2>1. \A c \in HOLDERS : b[c] \in Int
    BY <1>1
  <2>2. QED BY <1>10, <2>1
<1>12. from = to \/ n = 0 => h = b
  <2>1. ASSUME from = to \/ n = 0, NEW c \in HOLDERS PROVE h[c] = b[c]
    <3>1. b[c] \in Int /\ b[from] \in Int /\ b[to] \in Int
      BY <1>1
    <3>2. CASE from = to
      BY <1>2, <1>5, <3>1, <3>2
    <3>3. CASE n = 0
      BY <1>2, <1>5, <3>1, <3>3
    <3>4. QED BY <2>1, <3>2, <3>3
  <2>2. QED BY <1>1, <1>5, <2>1
<1>13. QED BY <1>4, <1>7, <1>9, <1>10, <1>11, <1>12 DEF h

\* Sums of amounts.
LEMMA AddedAmount ==
  ASSUME NEW f \in [ACTORS -> Nat], NEW a \in ACTORS, NEW n \in Int, f[a] + n >= 0
  PROVE  /\ Plus(f, a, n) \in [ACTORS -> Nat]
         /\ TotalOf(Plus(f, a, n)) = TotalOf(f) + n
         /\ TotalOf(f) \in Nat
<1>1. f \in [ACTORS -> Int]
  OBVIOUS
<1>2. TotalOf(Plus(f, a, n)) = TotalOf(f) + n
  BY <1>1, PlusTotal
<1>3. Plus(f, a, n) \in [ACTORS -> Nat]
  BY DEF Plus
<1>4. TotalOf(f) \in Nat
  BY DEF TotalOf, ACTORS, Clients
<1>5. QED BY <1>2, <1>3, <1>4

-----------------------------------------------------------------------------
(* What holds in every world. *)

Phones == TotalOf(createWorld.mpesa)

\* The books balance.
Money(w) ==
    /\ w.bal["escrow"] = TotalOf(w.deposits) + TotalOf(w.earnings)
    /\ HeldBy(w.bal) = w.supply
    /\ TotalOf(w.mpesa) + w.float = Phones

\* Before the contracts are deployed nobody holds anything, owns a contract or
\* mints; from then on a unit has its price and the treasury its beneficiary.
Empty(w) ==
    /\ \A h \in HOLDERS : w.bal[h] = 0
    /\ \A a \in ACTORS : w.deposits[a] = 0 /\ w.earnings[a] = 0 /\ ~w.bridges[a].allowed
    /\ \A c \in CONTRACTS : w.owner[c] = None /\ w.pendingOwner[c] = None

Deployment(w) ==
    IF w.deployed THEN w.price > 0 /\ w.beneficiary \in ACTORS ELSE Empty(w)

\* A session is of a deployed world.  It kept to its credit at the price that it
\* last served at, whatever the price is now, and its receipts keep up.
SessionOK(w) ==
    LET s == w.session
    IN s.open =>
         /\ w.deployed
         /\ s.bytes = 0 \/ s.unsettledAtStart + s.bytes * s.servedPrice <= s.limit
         /\ s.done \/ s.bytes - s.lastReceipt < w.params.receipt
         /\ s.done /\ s.throttled # "phone" => s.bytes <= s.lastReceipt

WorldOK(w) == IsWorld(w) /\ Money(w) /\ Deployment(w) /\ SessionOK(w)

MoneyFields == {"bal", "deposits", "earnings", "supply", "mpesa", "float"}
DeploymentFields ==
    {"deployed", "price", "beneficiary", "bal", "deposits", "earnings", "bridges", "owner",
     "pendingOwner"}
SessionFields == {"session", "deployed", "params"}

LEMMA MoneySame ==
  ASSUME NEW w, NEW x, NEW F, Only(w, x, F), F \cap MoneyFields = {}, Money(w)
  PROVE  Money(x)
<1>1. /\ x.bal = w.bal /\ x.deposits = w.deposits /\ x.earnings = w.earnings
      /\ x.supply = w.supply /\ x.mpesa = w.mpesa /\ x.float = w.float
  BY FieldNames DEF Only, MoneyFields
<1>2. QED BY <1>1 DEF Money

LEMMA DeploymentSame ==
  ASSUME NEW w, NEW x, NEW F, Only(w, x, F), F \cap DeploymentFields = {}, Deployment(w)
  PROVE  Deployment(x)
<1>1. /\ x.deployed = w.deployed /\ x.price = w.price /\ x.beneficiary = w.beneficiary
      /\ x.bal = w.bal /\ x.deposits = w.deposits /\ x.earnings = w.earnings
      /\ x.bridges = w.bridges /\ x.owner = w.owner /\ x.pendingOwner = w.pendingOwner
  BY FieldNames DEF Only, DeploymentFields
<1>2. QED BY <1>1 DEF Deployment, Empty

LEMMA SessionSame ==
  ASSUME NEW w, NEW x, NEW F, Only(w, x, F), F \cap SessionFields = {}, SessionOK(w)
  PROVE  SessionOK(x)
<1>1. x.session = w.session /\ x.deployed = w.deployed /\ x.params = w.params
  BY FieldNames DEF Only, SessionFields
<1>2. QED BY <1>1 DEF SessionOK

\* A world stays right when only fields that these parts do not read change.
LEMMA Untouched ==
  ASSUME NEW w, NEW x, NEW F, WorldOK(w), Only(w, x, F), F \subseteq Fields,
         F \cap (MoneyFields \cup DeploymentFields \cup SessionFields) = {},
         \A f \in F : x[f] \in Types[f]
  PROVE  WorldOK(x)
<1>1. IsWorld(x)
  BY ChangedWorld DEF WorldOK
<1>2. /\ F \cap MoneyFields = {} /\ F \cap DeploymentFields = {} /\ F \cap SessionFields = {}
  OBVIOUS
<1>3. QED BY <1>1, <1>2, MoneySame, DeploymentSame, SessionSame DEF WorldOK

\* ... or when a deployed world's money moves and its books balance still.
LEMMA MoneyMoved ==
  ASSUME NEW w, NEW x, NEW F, WorldOK(w), w.deployed, Only(w, x, F), F \subseteq Fields,
         F \cap (SessionFields \cup {"price", "beneficiary"}) = {},
         \A f \in F : x[f] \in Types[f],
         Money(x)
  PROVE  WorldOK(x)
<1>1. IsWorld(x)
  BY ChangedWorld DEF WorldOK
<1>2. F \cap SessionFields = {}
  OBVIOUS
<1>3. x.deployed = w.deployed /\ x.price = w.price /\ x.beneficiary = w.beneficiary
  BY FieldNames DEF Only, SessionFields
<1>4. Deployment(x)
  BY <1>3 DEF WorldOK, Deployment
<1>5. QED BY <1>1, <1>2, <1>4, SessionSame DEF WorldOK

\* Gas is nobody's business here.
LEMMA GasBurnt ==
  ASSUME NEW w, WorldOK(w), NEW p
  PROVE  WorldOK(burnGas(w, p)) /\ Only(w, burnGas(w, p), {"eth"})
<1>1. Shape(w)
  BY DEF WorldOK, IsWorld
<1>2. Only(w, burnGas(w, p), {"eth"})
  BY <1>1, FieldNames DEF burnGas, Only, Shape
<1>3. burnGas(w, p).eth \in [Clients -> Int]
  <2>1. w.eth \in [Clients -> Int]
    BY WorldTypes DEF WorldOK
  <2>2. QED BY <1>1, <2>1, FieldNames DEF burnGas, Shape
<1>4. WorldOK(burnGas(w, p))
  BY <1>2, <1>3, Untouched, FieldNames, TypesOf
     DEF MoneyFields, DeploymentFields, SessionFields
<1>5. QED BY <1>2, <1>4

-----------------------------------------------------------------------------
(* What a call does to the peg and to a client whose phone is lost. *)

PegSame(w, x) == x.float = w.float /\ x.supply = w.supply

\* Of a client whose phone is lost, x has less gas than w, or a later channel,
\* or a lower allowance, or as much of what it holds.  This is transitive.
Charged(w, x, c) ==
    \/ x.eth[c] < w.eth[c]
    \/ x.eth[c] = w.eth[c] /\ x.channels[c].seq > w.channels[c].seq
    \/ /\ x.eth[c] = w.eth[c] /\ x.channels[c].seq = w.channels[c].seq
       /\ \A s \in SPENDERS : x.allow[c][s] <= w.allow[c][s]
       /\ x.allow[c] = w.allow[c] => Holdings(x, c) >= Holdings(w, c)

Spared(w, x, c) == ~w.devices[c] => ~x.devices[c] /\ Charged(w, x, c)
AllSpared(w, x) == \A c \in Clients : Spared(w, x, c)

\* What a call that succeeds may do before its gas is burnt.
After(w, x, payer) ==
    /\ WorldOK(x)
    /\ x.eth = w.eth /\ x.devices = w.devices
    /\ \A c \in Clients \ {payer} : Spared(w, x, c)

\* r is what a call returns that was made in w: it kept the world right and
\* spared who had lost a phone; and, if it is calm, the peg as well.
Right(w, r) == r.ok \in BOOLEAN /\ WorldOK(r.world) /\ AllSpared(w, r.world)
Calm(w, r) == Right(w, r) /\ PegSame(w, r.world)

\* The numbers that Charged compares.
LEMMA ChargedTypes ==
  ASSUME NEW w, IsWorld(w), NEW c \in Clients
  PROVE  /\ w.eth[c] \in Int /\ w.channels[c].seq \in Int
         /\ \A s \in SPENDERS : w.allow[c][s] \in Int
         /\ w.bal[c] \in Int /\ w.deposits[c] \in Int /\ Holdings(w, c) \in Int
         /\ w.devices[c] \in BOOLEAN /\ w.allow[c] \in [SPENDERS -> Nat]
<1>1. /\ w.eth \in [Clients -> Int] /\ w.channels \in [Clients -> Channel]
      /\ w.allow \in [ACTORS -> [SPENDERS -> Nat]] /\ w.bal \in Purses
      /\ w.deposits \in [ACTORS -> Nat] /\ w.devices \in [ACTORS -> BOOLEAN]
  BY WorldTypes
<1>2. c \in ACTORS /\ c \in HOLDERS
  BY DEF ACTORS, HOLDERS
<1>3. QED BY <1>1, <1>2 DEF Channel, Purses, Holdings

LEMMA SparedTwice ==
  ASSUME NEW w, NEW x, NEW y, IsWorld(w), IsWorld(x), IsWorld(y),
         AllSpared(w, x), AllSpared(x, y)
  PROVE  AllSpared(w, y)
<1> SUFFICES ASSUME NEW c \in Clients, ~w.devices[c]
             PROVE  ~y.devices[c] /\ Charged(w, y, c)
  BY DEF AllSpared, Spared
<1>1. ~x.devices[c] /\ Charged(w, x, c) /\ ~y.devices[c] /\ Charged(x, y, c)
  BY DEF AllSpared, Spared
<1> DEFINE ew == w.eth[c]  ex == x.eth[c]  ey == y.eth[c]
           sw == w.channels[c].seq  sx == x.channels[c].seq  sy == y.channels[c].seq
           aw == w.allow[c]  ax == x.allow[c]  ay == y.allow[c]
           hw == Holdings(w, c)  hx == Holdings(x, c)  hy == Holdings(y, c)
<1>2. /\ ew \in Int /\ ex \in Int /\ ey \in Int /\ sw \in Int /\ sx \in Int /\ sy \in Int
      /\ hw \in Int /\ hx \in Int /\ hy \in Int
      /\ aw \in [SPENDERS -> Nat] /\ ax \in [SPENDERS -> Nat] /\ ay \in [SPENDERS -> Nat]
  BY ChargedTypes
<1>3. \/ ex < ew
      \/ ex = ew /\ sx > sw
      \/ /\ ex = ew /\ sx = sw /\ (\A s \in SPENDERS : ax[s] <= aw[s]) /\ (ax = aw => hx >= hw)
  BY <1>1 DEF Charged
<1>4. \/ ey < ex
      \/ ey = ex /\ sy > sx
      \/ /\ ey = ex /\ sy = sx /\ (\A s \in SPENDERS : ay[s] <= ax[s]) /\ (ay = ax => hy >= hx)
  BY <1>1 DEF Charged
<1> HIDE DEF ew, ex, ey, sw, sx, sy, aw, ax, ay, hw, hx, hy
<1>5. \/ ey < ew
      \/ ey = ew /\ sy > sw
      \/ /\ ey = ew /\ sy = sw /\ (\A s \in SPENDERS : ay[s] <= aw[s]) /\ (ay = aw => hy >= hw)
  <2>1. CASE ex < ew
    BY <1>2, <1>4, <2>1
  <2>2. CASE ey < ex
    BY <1>2, <1>3, <2>2
  <2>3. CASE ex = ew /\ ey = ex /\ (sx > sw \/ sy > sx)
    BY <1>2, <1>3, <1>4, <2>3
  <2>4. CASE /\ ex = ew /\ sx = sw /\ (\A s \in SPENDERS : ax[s] <= aw[s]) /\ (ax = aw => hx >= hw)
             /\ ey = ex /\ sy = sx /\ (\A s \in SPENDERS : ay[s] <= ax[s]) /\ (ay = ax => hy >= hx)
    <3>1. ASSUME NEW s \in SPENDERS PROVE ay[s] <= aw[s]
      <4>1. ay[s] \in Int /\ ax[s] \in Int /\ aw[s] \in Int
        BY <1>2
      <4>2. QED BY <2>4, <4>1
    <3>2. ASSUME ay = aw PROVE ax = aw
      <4>1. ASSUME NEW s \in SPENDERS PROVE ax[s] = aw[s]
        <5>1. ay[s] \in Int /\ ax[s] \in Int /\ aw[s] \in Int
          BY <1>2
        <5>2. QED BY <2>4, <3>2, <5>1
      <4>2. QED BY <1>2, <4>1
    <3>3. ay = aw => hy >= hw
      BY <1>2, <2>4, <3>2
    <3>4. QED BY <2>4, <3>1, <3>3
  <2>5. QED BY <1>3, <1>4, <2>1, <2>2, <2>3, <2>4
<1>6. Charged(w, y, c)
  BY <1>5 DEF Charged, ew, ex, ey, sw, sx, sy, aw, ax, ay, hw, hx, hy
<1>7. QED BY <1>1, <1>6

HoldingFields == {"eth", "channels", "allow", "bal", "deposits", "devices"}

LEMMA SparedAside ==
  ASSUME NEW w, NEW x, NEW F, IsWorld(w), Only(w, x, F), F \cap HoldingFields = {}
  PROVE  AllSpared(w, x) /\ x.eth = w.eth /\ x.devices = w.devices
<1>1. /\ x.eth = w.eth /\ x.channels = w.channels /\ x.allow = w.allow /\ x.bal = w.bal
      /\ x.deposits = w.deposits /\ x.devices = w.devices
  BY FieldNames DEF Only, HoldingFields
<1>2. ASSUME NEW c \in Clients PROVE Charged(w, x, c)
  BY <1>1, ChargedTypes DEF Charged, Holdings
<1>3. QED BY <1>1, <1>2 DEF AllSpared, Spared

LEMMA PegAside ==
  ASSUME NEW w, NEW x, NEW F, Only(w, x, F), "supply" \notin F, "float" \notin F
  PROVE  PegSame(w, x)
BY FieldNames DEF Only, PegSame

\* Calls on chain.
LEMMA CallMade ==
  ASSUME NEW w, NEW x, NEW fn, NEW payer \in ACTORS, NEW needs \in BOOLEAN,
         WorldOK(w), needs => After(w, x, payer)
  PROVE  LET r == call(w, fn, payer, needs, x)
         IN /\ Right(w, r) /\ r.world.devices = w.devices
            /\ r.ok => needs /\ PegSame(x, r.world) /\ r.failed = None
            /\ ~r.ok => PegSame(w, r.world) /\ r.failed = fn
<1> DEFINE r == call(w, fn, payer, needs, x)
<1>1. AllSpared(w, w)
  <2>1. Only(w, w, {})
    BY DEF WorldOK, IsWorld, Only
  <2>2. QED BY <2>1, SparedAside DEF WorldOK
<1>2. PegSame(w, w)
  BY DEF PegSame
<1>3. CASE payer \in Clients /\ w.eth[payer] = 0
  BY <1>1, <1>2, <1>3 DEF call, Failed, Right
<1>4. ASSUME NEW y, WorldOK(y), y.eth = w.eth, y.devices = w.devices,
             \A c \in Clients \ {payer} : Spared(w, y, c)
      PROVE  /\ WorldOK(burnGas(y, payer)) /\ PegSame(y, burnGas(y, payer))
             /\ AllSpared(w, burnGas(y, payer)) /\ burnGas(y, payer).devices = w.devices
  <2> DEFINE z == burnGas(y, payer)
  <2>1. WorldOK(z) /\ Only(y, z, {"eth"})
    BY <1>4, GasBurnt
  <2>2. PegSame(y, z)
    BY <2>1, PegAside
  <2>3. /\ z.devices = w.devices /\ z.channels = y.channels /\ z.allow = y.allow
        /\ z.bal = y.bal /\ z.deposits = y.deposits
    BY <1>4, <2>1, FieldNames DEF Only
  <2>4. \A c \in Clients : z.eth[c] = IF c = payer THEN w.eth[c] - 1 ELSE w.eth[c]
    <3>1. y.eth \in [Clients -> Int] /\ Shape(y) /\ y.eth = w.eth
      BY <1>4, WorldTypes DEF WorldOK, IsWorld
    <3>2. QED BY <3>1, FieldNames DEF burnGas, Shape
  <2> HIDE DEF z
  <2>5. ASSUME NEW c \in Clients PROVE Spared(w, z, c)
    <3>1. CASE c = payer
      <4>1. w.eth[c] \in Int
        BY ChargedTypes DEF WorldOK
      <4>2. z.eth[c] < w.eth[c]
        BY <2>4, <3>1, <4>1
      <4>3. QED BY <2>3, <4>2 DEF Spared, Charged
    <3>2. CASE c # payer
      BY <1>4, <2>3, <2>4, <3>2 DEF Spared, Charged, Holdings
    <3>3. QED BY <3>1, <3>2
  <2>6. QED BY <2>1, <2>2, <2>3, <2>5 DEF AllSpared, z
<1>5. CASE ~(payer \in Clients /\ w.eth[payer] = 0) /\ needs
  <2>1. /\ WorldOK(burnGas(x, payer)) /\ PegSame(x, burnGas(x, payer))
        /\ AllSpared(w, burnGas(x, payer)) /\ burnGas(x, payer).devices = w.devices
    BY <1>4, <1>5 DEF After
  <2>2. r.ok = TRUE /\ r.world = burnGas(x, payer) /\ r.failed = None
    BY <1>5 DEF call, Done
  <2>3. QED BY <1>5, <2>1, <2>2 DEF Right
<1>6. CASE ~(payer \in Clients /\ w.eth[payer] = 0) /\ ~needs
  <2>1. /\ WorldOK(burnGas(w, payer)) /\ PegSame(w, burnGas(w, payer))
        /\ AllSpared(w, burnGas(w, payer)) /\ burnGas(w, payer).devices = w.devices
    BY <1>1, <1>4 DEF AllSpared
  <2>2. r.ok = FALSE /\ r.world = burnGas(w, payer) /\ r.failed = fn
    BY <1>6 DEF call, Failed
  <2>3. QED BY <1>6, <2>1, <2>2 DEF Right
<1>7. QED BY <1>3, <1>5, <1>6

LEMMA SparedSelf ==
  ASSUME NEW w, WorldOK(w)
  PROVE  AllSpared(w, w)
<1>1. Only(w, w, {})
  BY DEF WorldOK, IsWorld, Only
<1>2. QED BY <1>1, SparedAside DEF WorldOK

\* Calls off chain.
LEMMA CallOffMade ==
  ASSUME NEW w, NEW x, NEW fn, NEW needs \in BOOLEAN, NEW result,
         WorldOK(w), needs => WorldOK(x) /\ AllSpared(w, x)
  PROVE  LET r == callOff(w, fn, needs, x, result)
         IN /\ Right(w, r) /\ r.ok = needs
            /\ r.ok => needs /\ r.world = x /\ r.result = result /\ r.failed = None
            /\ ~r.ok => r.world = w /\ r.failed = fn
<1> DEFINE r == callOff(w, fn, needs, x, result)
<1>1. CASE needs
  <2>1. r.ok = TRUE /\ r.world = x /\ r.result = result /\ r.failed = None
    BY <1>1 DEF callOff, Done
  <2>2. QED BY <1>1, <2>1 DEF Right
<1>2. CASE ~needs
  <2>1. r.ok = FALSE /\ r.world = w /\ r.failed = fn
    BY <1>2 DEF callOff, Failed
  <2>2. QED BY <1>2, <2>1, SparedSelf DEF Right
<1>3. QED BY <1>1, <1>2

OtherFields == Fields \ (MoneyFields \cup DeploymentFields \cup SessionFields \cup HoldingFields)

\* What touches none of the fields that matter here.
LEMMA Aside ==
  ASSUME NEW w, NEW x, NEW F, WorldOK(w), Only(w, x, F), F \subseteq OtherFields,
         \A f \in F : x[f] \in Types[f]
  PROVE  /\ WorldOK(x) /\ AllSpared(w, x) /\ PegSame(w, x)
         /\ \A payer : After(w, x, payer)
<1>1. WorldOK(x)
  BY Untouched DEF OtherFields
<1>2. AllSpared(w, x) /\ x.eth = w.eth /\ x.devices = w.devices
  BY SparedAside DEF OtherFields, WorldOK
<1>3. PegSame(w, x)
  BY PegAside DEF OtherFields, MoneyFields
<1>4. QED BY <1>1, <1>2, <1>3 DEF After, AllSpared

\* What moves money in a deployed world: the allowances do not rise and nobody
\* but the payer holds less.
LEMMA MoneyAfter ==
  ASSUME NEW w, NEW x, NEW F, NEW payer, WorldOK(w), w.deployed, Only(w, x, F), F \subseteq Fields,
         F \cap (SessionFields \cup {"price", "beneficiary", "eth", "devices", "channels"}) = {},
         \A f \in F : x[f] \in Types[f],
         Money(x),
         \A c \in Clients \ {payer} :
             w.devices[c] \/ /\ \A s \in SPENDERS : x.allow[c][s] <= w.allow[c][s]
                             /\ x.allow[c] = w.allow[c] => Holdings(x, c) >= Holdings(w, c)
  PROVE  After(w, x, payer)
<1>1. WorldOK(x)
  BY MoneyMoved
<1>2. x.eth = w.eth /\ x.devices = w.devices /\ x.channels = w.channels
  BY FieldNames DEF Only
<1>3. \A c \in Clients \ {payer} : Spared(w, x, c)
  BY <1>2 DEF Spared, Charged
<1>4. QED BY <1>1, <1>2, <1>3 DEF After

LEMMA AtMostTotal ==
  ASSUME NEW f \in [ACTORS -> Nat], NEW a \in ACTORS
  PROVE  f[a] <= TotalOf(f) /\ TotalOf(f) \in Nat
BY DEF TotalOf, ACTORS, Clients

\* What the books say of a world's money.
LEMMA EscrowCovers ==
  ASSUME NEW w, WorldOK(w), NEW a \in ACTORS
  PROVE  /\ w.bal \in Purses /\ w.bal["escrow"] \in Nat /\ w.bal["treasury"] \in Nat
         /\ w.deposits[a] \in Nat /\ w.earnings[a] \in Nat
         /\ w.deposits[a] <= w.bal["escrow"] /\ w.earnings[a] <= w.bal["escrow"]
         /\ a \in HOLDERS /\ "escrow" \in HOLDERS /\ "treasury" \in HOLDERS
         /\ a # "escrow" /\ a # "treasury"
<1>1. w.bal \in Purses /\ w.deposits \in [ACTORS -> Nat] /\ w.earnings \in [ACTORS -> Nat]
  BY WorldTypes DEF WorldOK
<1>2. /\ w.deposits[a] <= TotalOf(w.deposits) /\ TotalOf(w.deposits) \in Nat
      /\ w.earnings[a] <= TotalOf(w.earnings) /\ TotalOf(w.earnings) \in Nat
  BY <1>1, AtMostTotal
<1>3. w.bal["escrow"] = TotalOf(w.deposits) + TotalOf(w.earnings)
  BY DEF WorldOK, Money
<1>4. /\ a \in HOLDERS /\ "escrow" \in HOLDERS /\ "treasury" \in HOLDERS
      /\ a # "escrow" /\ a # "treasury"
  BY DEF HOLDERS, ACTORS, Clients
<1>5. w.bal["treasury"] >= 0 /\ w.bal["treasury"] \in Int
  BY <1>1, <1>4 DEF Purses
<1>6. w.deposits[a] \in Nat /\ w.earnings[a] \in Nat
  BY <1>1
<1>7. QED BY <1>1, <1>2, <1>3, <1>4, <1>5, <1>6

\* Who holds something, owns a contract or mints does so in a deployed world.
LEMMA Deployed ==
  ASSUME NEW w, WorldOK(w),
         \/ \E h \in HOLDERS : w.bal[h] # 0
         \/ \E a \in ACTORS : w.deposits[a] # 0 \/ w.earnings[a] # 0 \/ w.bridges[a].allowed
         \/ \E c \in CONTRACTS : w.owner[c] \in ACTORS \/ w.pendingOwner[c] \in ACTORS
  PROVE  w.deployed
<1>1. None \notin ACTORS
  BY DEF None, ACTORS, Clients
<1>2. QED BY <1>1 DEF WorldOK, Deployment, Empty

-----------------------------------------------------------------------------
(* The primitives, first those that move no money. *)

\* The result of a call on chain that keeps the peg when it succeeds.
LEMMA CalmCall ==
  ASSUME NEW w, NEW x, NEW fn, NEW payer \in ACTORS, NEW needs \in BOOLEAN,
         WorldOK(w), needs => After(w, x, payer) /\ PegSame(w, x)
  PROVE  /\ Calm(w, call(w, fn, payer, needs, x))
         /\ ~call(w, fn, payer, needs, x).ok => call(w, fn, payer, needs, x).failed = fn
         /\ call(w, fn, payer, needs, x).ok => needs
         /\ call(w, fn, payer, needs, x).world.devices = w.devices
<1> DEFINE r == call(w, fn, payer, needs, x)
<1>1. /\ Right(w, r) /\ r.world.devices = w.devices
      /\ r.ok => needs /\ PegSame(x, r.world)
      /\ ~r.ok => PegSame(w, r.world) /\ r.failed = fn
  BY CallMade
<1> HIDE DEF r
<1>2. PegSame(w, r.world)
  BY <1>1 DEF PegSame, Right
<1>3. QED BY <1>1, <1>2 DEF Calm, r

LEMMA PlainFields ==
  /\ {"fee"} \subseteq OtherFields /\ {"tickets"} \subseteq OtherFields
  /\ {"vouchers"} \subseteq OtherFields /\ {"t"} \subseteq OtherFields
  /\ {"pending", "activation"} \subseteq OtherFields
  /\ {"tickets", "t", "vouchers"} \subseteq OtherFields
BY FieldNames DEF OtherFields, MoneyFields, DeploymentFields, SessionFields, HoldingFields

LEMMA setFeeBpsOK ==
  ASSUME NEW w, WorldOK(w), NEW from \in ACTORS, NEW new \in Nat
  PROVE  Calm(w, setFeeBps(w, from, new))
<1> DEFINE x == [w EXCEPT !.fee = new]
<1>1. Only(w, x, {"fee"}) /\ x.fee = new
  BY FieldNames DEF WorldOK, IsWorld, Only, Shape
<1>2. new <= 10 => new \in Types.fee
  BY TypesOf DEF Fee
<1> HIDE DEF x
<1>3. new <= 10 => After(w, x, from) /\ PegSame(w, x)
  BY <1>1, <1>2, Aside, PlainFields
<1>4. QED BY <1>3, CalmCall DEF setFeeBps, OnlyOwner, x

LEMMA queueBeneficiaryOK ==
  ASSUME NEW w, WorldOK(w), NEW from \in ACTORS, NEW next \in ACTORS
  PROVE  Calm(w, queueBeneficiary(w, from, next))
<1> DEFINE x == [w EXCEPT !.pending = next, !.activation = w.t + 7 * DAY]
<1>1. /\ Only(w, x, {"pending", "activation"})
      /\ x.pending = next /\ x.activation = w.t + 7 * DAY
  BY FieldNames DEF WorldOK, IsWorld, Only, Shape
<1>2. x.pending \in Types.pending /\ x.activation \in Types.activation
  BY <1>1, TypesOf, WorldTypes DEF DAY, WorldOK
<1> HIDE DEF x
<1>3. After(w, x, from) /\ PegSame(w, x)
  BY <1>1, <1>2, Aside, PlainFields
<1>4. QED BY <1>3, CalmCall DEF queueBeneficiary, OnlyOwner, x

LEMMA cancelBeneficiaryChangeOK ==
  ASSUME NEW w, WorldOK(w), NEW from \in ACTORS
  PROVE  Calm(w, cancelBeneficiaryChange(w, from))
<1> DEFINE x == [w EXCEPT !.pending = None, !.activation = 0]
<1>1. /\ Only(w, x, {"pending", "activation"})
      /\ x.pending = None /\ x.activation = 0
  BY FieldNames DEF WorldOK, IsWorld, Only, Shape
<1>2. x.pending \in Types.pending /\ x.activation \in Types.activation
  BY <1>1, TypesOf
<1> HIDE DEF x
<1>3. After(w, x, from) /\ PegSame(w, x)
  BY <1>1, <1>2, Aside, PlainFields
<1>4. QED BY <1>3, CalmCall DEF cancelBeneficiaryChange, x

LEMMA activateBeneficiaryOK ==
  ASSUME NEW w, WorldOK(w), NEW from \in ACTORS
  PROVE  Calm(w, activateBeneficiary(w, from))
<1> DEFINE x == [w EXCEPT !.beneficiary = w.pending, !.pending = None, !.activation = 0]
           F == {"beneficiary", "pending", "activation"}
<1>1. /\ Only(w, x, F)
      /\ x.beneficiary = w.pending /\ x.pending = None /\ x.activation = 0
  BY FieldNames DEF WorldOK, IsWorld, Only, Shape
<1> HIDE DEF x
<1>2. w.pending \in ACTORS \cup {None}
  BY WorldTypes DEF WorldOK
<1>3. \A f \in F : x[f] \in Types[f]
  <2>1. /\ Types.beneficiary = ACTORS \cup {None} /\ Types.pending = ACTORS \cup {None}
        /\ Types.activation = Nat
    BY TypesOf
  <2>2. QED BY <1>1, <1>2, <2>1
<1>4. F \subseteq Fields /\ F \cap (MoneyFields \cup SessionFields \cup HoldingFields) = {}
  BY FieldNames DEF MoneyFields, SessionFields, HoldingFields
<1>5. /\ x.deployed = w.deployed /\ x.price = w.price /\ x.bal = w.bal
      /\ x.deposits = w.deposits /\ x.earnings = w.earnings
      /\ x.bridges = w.bridges /\ x.owner = w.owner /\ x.pendingOwner = w.pendingOwner
  BY <1>1, FieldNames DEF Only
<1>6. w.pending # None => WorldOK(x)
  <2>1. IsWorld(x)
    BY <1>1, <1>3, <1>4, ChangedWorld DEF WorldOK
  <2>2. w.pending # None => Deployment(x)
    BY <1>1, <1>2, <1>5 DEF Deployment, Empty, WorldOK
  <2>3. QED BY <1>1, <1>4, <2>1, <2>2, MoneySame, SessionSame DEF WorldOK
<1>7. AllSpared(w, x) /\ x.eth = w.eth /\ x.devices = w.devices /\ PegSame(w, x)
  BY <1>1, <1>4, SparedAside, PegAside DEF WorldOK, MoneyFields
<1> HIDE DEF F
<1>8. w.pending # None => After(w, x, from) /\ PegSame(w, x)
  BY <1>6, <1>7 DEF After, AllSpared
<1>9. QED BY <1>8, CalmCall DEF activateBeneficiary, x

LEMMA setPricePerUnitOK ==
  ASSUME NEW w, WorldOK(w), NEW from \in ACTORS, NEW newPrice \in Nat
  PROVE  Calm(w, setPricePerUnit(w, from, newPrice))
<1> DEFINE x == [w EXCEPT !.price = newPrice, !.lastPriceChange = w.t]
           F == {"price", "lastPriceChange"}
           needs == OnlyOwner(w, "escrow", from) /\ newPrice \in w.params.band
                        /\ w.t >= w.lastPriceChange + DAY
<1>1. Only(w, x, F) /\ x.price = newPrice /\ x.lastPriceChange = w.t
  <2>1. Shape(w) /\ "price" \in Fields /\ "lastPriceChange" \in Fields
    BY FieldNames DEF WorldOK, IsWorld
  <2>2. QED BY <2>1, Zenon DEF Only, Shape
<1> HIDE DEF x
<1>2. w.t \in Nat /\ w.params \in Params
  BY WorldTypes DEF WorldOK
<1>3. \A f \in F : x[f] \in Types[f]
  BY <1>1, <1>2, TypesOf
<1>4. F \subseteq Fields /\ F \cap (MoneyFields \cup SessionFields \cup HoldingFields) = {}
  BY FieldNames DEF MoneyFields, SessionFields, HoldingFields
<1>5. /\ x.deployed = w.deployed /\ x.beneficiary = w.beneficiary /\ x.bal = w.bal
      /\ x.deposits = w.deposits /\ x.earnings = w.earnings
      /\ x.bridges = w.bridges /\ x.owner = w.owner /\ x.pendingOwner = w.pendingOwner
  BY <1>1, FieldNames DEF Only
<1>6. needs => newPrice > 0
  BY <1>2 DEF Params, Price
<1> HIDE DEF needs
<1>7. needs => WorldOK(x)
  <2>1. IsWorld(x)
    BY <1>1, <1>3, <1>4, ChangedWorld DEF WorldOK
  <2>2. needs => Deployment(x)
    BY <1>1, <1>5, <1>6 DEF Deployment, Empty, WorldOK
  <2>3. QED BY <1>1, <1>4, <2>1, <2>2, MoneySame, SessionSame DEF WorldOK
<1>8. AllSpared(w, x) /\ x.eth = w.eth /\ x.devices = w.devices /\ PegSame(w, x)
  BY <1>1, <1>4, SparedAside, PegAside DEF WorldOK, MoneyFields
<1> HIDE DEF F
<1>9. needs => After(w, x, from) /\ PegSame(w, x)
  BY <1>7, <1>8 DEF After, AllSpared
<1>10. needs \in BOOLEAN
  BY DEF needs
<1>11. QED BY <1>9, <1>10, CalmCall DEF setPricePerUnit, x, needs

-----------------------------------------------------------------------------
(* The wallet, vouchers, time and devices. *)

Permit == [owner : ACTORS, spender : SPENDERS, value : Nat, nonce : Nat, deadline : Nat,
           signedBy : ACTORS]
Auth == [kind : {"withdraw", "transfer"}, from : ACTORS, to : ACTORS, amount : Nat,
         nonce : Nat, deadline : Nat]

Appended(w, r, client) ==
    /\ r.result \in Ticket
    /\ r.world.tickets = [w.tickets EXCEPT ![client] = Append(@, r.result)]

\* It is said of any typed world, as receipts are signed in the middle of a serving.
LEMMA SignedTicket ==
  ASSUME NEW w, IsWorld(w), NEW client \in Clients, NEW signer \in ACTORS, NEW units \in Nat
  PROVE  LET r == signTicket(w, client, signer, units)
         IN /\ Only(w, r.world, {"tickets"}) /\ r.world.tickets \in [Clients -> Seq(Ticket)]
            /\ r.ok = w.devices[signer]
            /\ r.ok => Appended(w, r, client)
            /\ ~r.ok => r.world = w
            /\ r.failed # "b2cPayout" /\ r.failed # "bridgeBurn"
<1> DEFINE list == w.tickets[client]
           newest == IF list = << >> THEN 0 ELSE Newest(list).seq
           ticket == [client |-> client, seq |-> Max2(w.channels[client].seq, newest) + 1,
                      units |-> units, expiry |-> w.t + w.params.epoch, signedBy |-> signer]
           x == [w EXCEPT !.tickets[client] = Append(@, ticket)]
           r == signTicket(w, client, signer, units)
<1>1. /\ w.tickets \in [Clients -> Seq(Ticket)] /\ w.channels \in [Clients -> Channel]
      /\ w.t \in Nat /\ w.params \in Params /\ w.devices \in [ACTORS -> BOOLEAN]
  BY WorldTypes
<1>2. newest \in Nat
  <2>1. list \in Seq(Ticket)
    BY <1>1
  <2>2. list # << >> => list[Len(list)] \in Ticket
    BY <2>1
  <2>3. QED BY <2>2 DEF Newest, Ticket
<1>3. ticket \in Ticket
  <2>1. w.channels[client].seq \in Nat /\ w.params.epoch \in Nat
    BY <1>1 DEF Channel, Params
  <2>2. Max2(w.channels[client].seq, newest) + 1 \in Nat
    BY <1>2, <2>1 DEF Max2
  <2>3. w.t + w.params.epoch \in Nat
    BY <1>1, <2>1
  <2> HIDE DEF newest
  <2>4. QED BY <2>2, <2>3 DEF Ticket
<1> HIDE DEF ticket
<1>4. Only(w, x, {"tickets"}) /\ x.tickets = [w.tickets EXCEPT ![client] = Append(@, ticket)]
  BY FieldNames DEF IsWorld, Only, Shape
<1>5. x.tickets \in [Clients -> Seq(Ticket)]
  <2>1. Append(w.tickets[client], ticket) \in Seq(Ticket)
    BY <1>1, <1>3
  <2>2. [w.tickets EXCEPT ![client] = Append(@, ticket)] \in [Clients -> Seq(Ticket)]
    BY <1>1, <2>1
  <2>3. QED BY <1>4, <2>2
<1> HIDE DEF x
<1>6. r = IF w.devices[signer] THEN Done(x, ticket) ELSE Failed(w, "signTicket")
  BY DEF signTicket, callOff, x, ticket
<1>7. w.devices[signer] \in BOOLEAN
  BY <1>1
<1>8. CASE w.devices[signer]
  <2>1. r.ok = TRUE /\ r.world = x /\ r.result = ticket /\ r.failed = None
    BY <1>6, <1>8 DEF Done
  <2>2. w.devices[signer] = TRUE
    BY <1>7, <1>8
  <2> HIDE DEF r
  <2>3. QED BY <1>3, <1>4, <1>5, <2>1, <2>2 DEF r, None, Appended
<1>9. CASE ~w.devices[signer]
  <2>1. r.ok = FALSE /\ r.world = w /\ r.failed = "signTicket"
    BY <1>6, <1>9 DEF Failed
  <2>2. w.devices[signer] = FALSE
    BY <1>7, <1>9
  <2>3. Only(w, w, {"tickets"})
    BY DEF Only, IsWorld
  <2> HIDE DEF r
  <2>4. QED BY <1>1, <2>1, <2>2, <2>3 DEF r
<1>10. QED BY <1>8, <1>9

LEMMA signTicketOK ==
  ASSUME NEW w, WorldOK(w), NEW client \in Clients, NEW signer \in ACTORS, NEW units \in Nat
  PROVE  LET r == signTicket(w, client, signer, units)
         IN Calm(w, r) /\ r.failed # "b2cPayout" /\ r.failed # "bridgeBurn"
<1> DEFINE r == signTicket(w, client, signer, units)
<1>1. IsWorld(w) /\ w.devices[signer] \in BOOLEAN
  BY WorldTypes DEF WorldOK
<1>2. /\ Only(w, r.world, {"tickets"}) /\ r.world.tickets \in [Clients -> Seq(Ticket)]
      /\ r.failed # "b2cPayout" /\ r.failed # "bridgeBurn"
  BY <1>1, SignedTicket
<1>3. r.ok = w.devices[signer]
  BY <1>1, SignedTicket
<1> HIDE DEF r
<1>4. \A f \in {"tickets"} : r.world[f] \in Types[f]
  BY <1>2, TypesOf
<1>5. WorldOK(r.world) /\ AllSpared(w, r.world) /\ PegSame(w, r.world)
  BY <1>2, <1>4, Aside, PlainFields
<1>6. QED BY <1>1, <1>2, <1>3, <1>5 DEF Calm, Right, r

LEMMA signPermitOK ==
  ASSUME NEW w, WorldOK(w), NEW owner \in ACTORS, NEW spender \in SPENDERS, NEW value \in Nat
  PROVE  LET r == signPermit(w, owner, spender, value)
         IN /\ Calm(w, r) /\ r.world = w /\ r.ok = w.devices[owner]
            /\ r.ok => r.result \in Permit /\ r.result.owner = owner
            /\ ~r.ok => r.failed = "signPermit"
<1> DEFINE p == [owner |-> owner, spender |-> spender, value |-> value, nonce |-> w.nonces[owner],
                 deadline |-> w.t + 1, signedBy |-> owner]
           r == signPermit(w, owner, spender, value)
<1>1. w.devices[owner] \in BOOLEAN /\ w.nonces[owner] \in Nat /\ w.t + 1 \in Nat
  BY WorldTypes DEF WorldOK
<1>2. p \in Permit /\ p.owner = owner
  BY <1>1 DEF Permit
<1> HIDE DEF p
<1>3. r = callOff(w, "signPermit", w.devices[owner], w, p)
  BY DEF signPermit, p
<1>4. /\ Right(w, r) /\ (r.ok => r.world = w /\ r.result = p)
      /\ ~r.ok => r.world = w /\ r.failed = "signPermit"
  BY <1>1, <1>3, CallOffMade, SparedSelf
<1>5. r.ok = w.devices[owner]
  BY <1>1, <1>3, CallOffMade, SparedSelf
<1> HIDE DEF r
<1>6. r.world = w
  BY <1>4 DEF Right
<1>7. QED BY <1>1, <1>2, <1>4, <1>5, <1>6 DEF Calm, PegSame, r

LEMMA signAuthOK ==
  ASSUME NEW w, WorldOK(w), NEW kind \in {"withdraw", "transfer"}, NEW owner \in ACTORS,
         NEW to \in ACTORS, NEW amount \in Nat
  PROVE  LET r == signAuth(w, kind, owner, to, amount)
         IN /\ Calm(w, r) /\ r.world = w /\ r.ok = w.devices[owner]
            /\ r.ok => r.result \in Auth /\ r.result.from = owner /\ r.result.to = to
            /\ ~r.ok => r.failed = "signAuth"
<1> DEFINE p == [kind |-> kind, from |-> owner, to |-> to, amount |-> amount,
                 nonce |-> w.authNonces[owner], deadline |-> w.t + 1]
           r == signAuth(w, kind, owner, to, amount)
<1>1. w.devices[owner] \in BOOLEAN /\ w.authNonces[owner] \in Nat /\ w.t + 1 \in Nat
  BY WorldTypes DEF WorldOK
<1>2. p \in Auth /\ p.from = owner /\ p.to = to
  BY <1>1 DEF Auth
<1> HIDE DEF p
<1>3. r = callOff(w, "signAuth", w.devices[owner], w, p)
  BY DEF signAuth, p
<1>4. /\ Right(w, r) /\ (r.ok => r.world = w /\ r.result = p)
      /\ ~r.ok => r.world = w /\ r.failed = "signAuth"
  BY <1>1, <1>3, CallOffMade, SparedSelf
<1>5. r.ok = w.devices[owner]
  BY <1>1, <1>3, CallOffMade, SparedSelf
<1> HIDE DEF r
<1>6. r.world = w
  BY <1>4 DEF Right
<1>7. QED BY <1>1, <1>2, <1>4, <1>5, <1>6 DEF Calm, PegSame, r

LEMMA issueVoucherOK ==
  ASSUME NEW w, WorldOK(w), NEW to \in ACTORS, NEW amount \in Nat
  PROVE  LET r == issueVoucher(w, to, amount)
         IN Calm(w, r) /\ r.ok = TRUE /\ Only(w, r.world, {"vouchers"})
<1> DEFINE v == [amount |-> amount, expires |-> w.t + w.params.voucher]
           x == [w EXCEPT !.vouchers[to] = v]
           r == issueVoucher(w, to, amount)
<1>1. w.t \in Nat /\ w.params \in Params /\ w.vouchers \in [ACTORS -> Voucher]
  BY WorldTypes DEF WorldOK
<1>2. v \in Voucher
  <2>1. w.params.voucher \in Nat
    BY <1>1 DEF Params
  <2>2. w.t + w.params.voucher \in Int
    BY <1>1, <2>1
  <2>3. QED BY <2>2 DEF Voucher
<1>3. r = callOff(w, "issueVoucher", TRUE, x, None)
  BY DEF issueVoucher
<1> HIDE DEF v, r
<1>4. Only(w, x, {"vouchers"}) /\ x.vouchers = [w.vouchers EXCEPT ![to] = v]
  BY FieldNames DEF WorldOK, IsWorld, Only, Shape
<1> HIDE DEF x
<1>5. x.vouchers \in Types.vouchers
  <2>1. [w.vouchers EXCEPT ![to] = v] \in [ACTORS -> Voucher]
    BY <1>1, <1>2
  <2>2. QED BY <1>4, <2>1, TypesOf
<1>6. WorldOK(x) /\ AllSpared(w, x) /\ PegSame(w, x)
  BY <1>4, <1>5, Aside, PlainFields
<1>7. Right(w, r) /\ r.ok = TRUE /\ r.world = x
  BY <1>3, <1>6 DEF callOff, Done, Right
<1>8. QED BY <1>4, <1>6, <1>7 DEF Calm, r

LEMMA verifyVoucherOK ==
  ASSUME NEW w, WorldOK(w), NEW who \in ACTORS
  PROVE  LET r == verifyVoucher(w, who)
         IN /\ Calm(w, r) /\ r.world = w
            /\ r.ok => r.result \in Voucher
            /\ ~r.ok => r.failed = "verifyVoucher"
<1> DEFINE r == verifyVoucher(w, who)
           needs == w.vouchers[who] # NoVoucher /\ w.t <= w.vouchers[who].expires
<1>1. r = callOff(w, "verifyVoucher", needs, w, w.vouchers[who])
  BY DEF verifyVoucher
<1>2. needs \in BOOLEAN
  OBVIOUS
<1> HIDE DEF r, needs
<1>3. w.vouchers[who] \in Voucher
  BY WorldTypes DEF WorldOK
<1>4. /\ Right(w, r) /\ r.ok \in BOOLEAN
      /\ (r.ok => r.world = w /\ r.result = w.vouchers[who])
      /\ ~r.ok => r.world = w /\ r.failed = "verifyVoucher"
  BY <1>1, <1>2, CallOffMade, SparedSelf
<1>5. QED BY <1>3, <1>4 DEF Calm, PegSame, r

LEMMA warpOK ==
  ASSUME NEW w, WorldOK(w), NEW hours \in Nat
  PROVE  Calm(w, warp(w, hours)) /\ Only(w, warp(w, hours).world, {"t"})
<1> DEFINE x == [w EXCEPT !.t = w.t + hours]
           r == warp(w, hours)
<1>1. r = callOff(w, "warp", TRUE, x, None)
  BY DEF warp
<1> HIDE DEF r
<1>2. Only(w, x, {"t"}) /\ x.t = w.t + hours
  <2>1. ASSUME NEW n PROVE Only(w, [w EXCEPT !.t = n], {"t"}) /\ [w EXCEPT !.t = n].t = n
    BY FieldNames DEF WorldOK, IsWorld, Only, Shape
  <2>2. QED BY <2>1
<1> HIDE DEF x
<1>3. x.t \in Types.t
  BY <1>2, WorldTypes, TypesOf DEF WorldOK
<1>4. WorldOK(x) /\ AllSpared(w, x) /\ PegSame(w, x)
  BY <1>2, <1>3, Aside, PlainFields
<1>5. Right(w, r) /\ r.ok = TRUE /\ r.world = x
  BY <1>1, <1>4 DEF callOff, Done, Right
<1>6. QED BY <1>2, <1>4, <1>5 DEF Calm, r

\* A device lost or restored.
LEMMA DeviceSet ==
  ASSUME NEW w, WorldOK(w), NEW who \in ACTORS, NEW b \in BOOLEAN
  PROVE  LET x == [w EXCEPT !.devices[who] = b]
         IN WorldOK(x) /\ Only(w, x, {"devices"}) /\ PegSame(w, x) /\ (~b => AllSpared(w, x))
<1> DEFINE x == [w EXCEPT !.devices[who] = b]
<1>1. Only(w, x, {"devices"}) /\ x.devices = [w.devices EXCEPT ![who] = b]
  BY FieldNames DEF WorldOK, IsWorld, Only, Shape
<1> HIDE DEF x
<1>2. w.devices \in [ACTORS -> BOOLEAN] /\ x.devices \in [ACTORS -> BOOLEAN]
  BY <1>1, WorldTypes DEF WorldOK
<1>3. WorldOK(x)
  <2>1. x.devices \in Types.devices
    BY <1>2, TypesOf
  <2>2. {"devices"} \subseteq Fields
        /\ {"devices"} \cap (MoneyFields \cup DeploymentFields \cup SessionFields) = {}
    BY FieldNames DEF MoneyFields, DeploymentFields, SessionFields
  <2>3. QED BY <1>1, <2>1, <2>2, Untouched
<1>4. PegSame(w, x)
  BY <1>1, PegAside
<1>5. ASSUME ~b PROVE AllSpared(w, x)
  <2>1. /\ x.eth = w.eth /\ x.channels = w.channels /\ x.allow = w.allow /\ x.bal = w.bal
        /\ x.deposits = w.deposits
    BY <1>1, FieldNames DEF Only
  <2>2. ASSUME NEW c \in Clients, ~w.devices[c] PROVE ~x.devices[c]
    BY <1>1, <1>2, <1>5, <2>2 DEF ACTORS
  <2>3. ASSUME NEW c \in Clients PROVE Charged(w, x, c)
    BY <2>1, ChargedTypes DEF Charged, Holdings, WorldOK
  <2>4. QED BY <2>2, <2>3 DEF AllSpared, Spared
<1>6. QED BY <1>1, <1>3, <1>4, <1>5 DEF x

LEMMA loseDeviceOK ==
  ASSUME NEW w, WorldOK(w), NEW who \in ACTORS
  PROVE  Calm(w, loseDevice(w, who))
<1> DEFINE x == [w EXCEPT !.devices[who] = FALSE]
<1>1. WorldOK(x) /\ PegSame(w, x) /\ AllSpared(w, x)
  BY DeviceSet
<1>2. loseDevice(w, who) = callOff(w, "loseDevice", TRUE, x, None)
  BY DEF loseDevice
<1> HIDE DEF x
<1>3. QED BY <1>1, <1>2 DEF callOff, Done, Right, Calm

LEMMA restoreFromSeedOK ==
  ASSUME NEW w, WorldOK(w), NEW who \in ACTORS
  PROVE  LET r == restoreFromSeed(w, who)
         IN /\ r.ok = TRUE /\ WorldOK(r.world) /\ PegSame(w, r.world)
            /\ Only(w, r.world, {"devices"})
<1> DEFINE x == [w EXCEPT !.devices[who] = TRUE]
<1>1. WorldOK(x) /\ PegSame(w, x) /\ Only(w, x, {"devices"})
  BY DeviceSet
<1> HIDE DEF x
<1>2. QED BY <1>1 DEF restoreFromSeed, callOff, Done, x

-----------------------------------------------------------------------------
(* Allowances and ownership. *)

LEMMA SparedAll ==
  ASSUME NEW w, IsWorld(w), NEW x, NEW c \in Clients,
         x.eth[c] = w.eth[c], x.channels[c] = w.channels[c], x.devices[c] = w.devices[c],
         x.allow[c] = w.allow[c], Holdings(x, c) >= Holdings(w, c)
  PROVE  Spared(w, x, c)
BY ChargedTypes DEF Spared, Charged

LEMMA fundGasOK ==
  ASSUME NEW w, WorldOK(w), NEW to \in ACTORS, NEW calls \in Nat
  PROVE  LET r == fundGas(w, to, calls)
         IN /\ r.ok = TRUE /\ WorldOK(r.world) /\ PegSame(w, r.world)
            /\ Only(w, r.world, {"eth"})
<1> DEFINE x == IF to \in Clients THEN [w EXCEPT !.eth[to] = @ + calls] ELSE w
           r == fundGas(w, to, calls)
<1>1. w.eth \in [Clients -> Int]
  BY WorldTypes DEF WorldOK
<1>2. Only(w, x, {"eth"}) /\ x.eth \in [Clients -> Int]
  <2>1. CASE to \in Clients
    <3>1. x = [w EXCEPT !.eth = [w.eth EXCEPT ![to] = @ + calls]]
      BY <2>1
    <3>2. [w.eth EXCEPT ![to] = @ + calls] \in [Clients -> Int]
      BY <1>1, <2>1
    <3>3. QED BY <3>1, <3>2, FieldNames DEF WorldOK, IsWorld, Only, Shape
  <2>2. CASE to \notin Clients
    BY <1>1, <2>2 DEF WorldOK, IsWorld, Only
  <2>3. QED BY <2>1, <2>2
<1>3. r.ok = TRUE /\ r.world = x
  <2>1. "kiosk" \notin Clients
    BY DEF Clients
  <2> HIDE DEF x
  <2>2. fundGas(w, to, calls) = call(w, "ethTransfer", "kiosk", TRUE, x)
    BY DEF fundGas, x
  <2>3. QED BY <2>1, <2>2 DEF call, Done, burnGas
<1> HIDE DEF x, r
<1>4. WorldOK(x) /\ PegSame(w, x)
  <2>1. {"eth"} \subseteq Fields
        /\ {"eth"} \cap (MoneyFields \cup DeploymentFields \cup SessionFields) = {}
    BY FieldNames DEF MoneyFields, DeploymentFields, SessionFields
  <2>2. x.eth \in Types.eth
    BY <1>2, TypesOf
  <2>3. QED BY <1>2, <2>1, <2>2, Untouched, PegAside
<1>5. QED BY <1>2, <1>3, <1>4 DEF r

\* An allowance that is set, and perhaps a nonce that is counted with it.
LEMMA AllowanceSet ==
  ASSUME NEW w, WorldOK(w), NEW x, Only(w, x, {"nonces", "allow"}),
         x.nonces \in [ACTORS -> Nat], x.allow \in [ACTORS -> [SPENDERS -> Nat]], NEW owner \in ACTORS,
         \A a \in ACTORS : a # owner => x.allow[a] = w.allow[a]
  PROVE  /\ WorldOK(x) /\ PegSame(w, x) /\ x.eth = w.eth /\ x.devices = w.devices
         /\ \A c \in Clients : c # owner => Spared(w, x, c)
<1> DEFINE F == {"nonces", "allow"}
<1>1. F \subseteq Fields
      /\ F \cap (MoneyFields \cup DeploymentFields \cup SessionFields) = {}
  BY FieldNames DEF MoneyFields, DeploymentFields, SessionFields
<1>2. \A f \in F : x[f] \in Types[f]
  <2>1. Types.nonces = [ACTORS -> Nat] /\ Types.allow = [ACTORS -> [SPENDERS -> Nat]]
    BY TypesOf
  <2>2. QED BY <2>1
<1>3. WorldOK(x)
  BY <1>1, <1>2, Untouched
<1>4. PegSame(w, x)
  BY PegAside
<1>5. /\ x.eth = w.eth /\ x.devices = w.devices /\ x.channels = w.channels
      /\ x.bal = w.bal /\ x.deposits = w.deposits
  BY FieldNames DEF Only
<1>6. ASSUME NEW c \in Clients, c # owner PROVE Spared(w, x, c)
  <2>1. x.allow[c] = w.allow[c]
    BY <1>6 DEF ACTORS
  <2>2. Holdings(x, c) = Holdings(w, c) /\ Holdings(w, c) \in Int
    BY <1>5, ChargedTypes DEF Holdings, WorldOK
  <2>3. QED BY <1>5, <2>1, <2>2, SparedAll DEF WorldOK
<1>7. QED BY <1>3, <1>4, <1>5, <1>6

LEMMA approveOK ==
  ASSUME NEW w, WorldOK(w), NEW from \in ACTORS, NEW spender \in SPENDERS, NEW amount \in Nat
  PROVE  Calm(w, approve(w, from, spender, amount))
<1> DEFINE allow == [w.allow EXCEPT ![from] = [@ EXCEPT ![spender] = amount]]
           x == [w EXCEPT !.allow = allow]
<1>1. w.allow \in [ACTORS -> [SPENDERS -> Nat]] /\ w.nonces \in [ACTORS -> Nat]
  BY WorldTypes DEF WorldOK
<1>2. /\ allow \in [ACTORS -> [SPENDERS -> Nat]]
      /\ \A a \in ACTORS : a # from => allow[a] = w.allow[a]
  BY <1>1
<1>3. approve(w, from, spender, amount) = call(w, "approve", from, TRUE, x)
  BY DEF approve
<1> HIDE DEF allow
<1>4. Only(w, x, {"allow"}) /\ x.allow = allow
  BY FieldNames DEF WorldOK, IsWorld, Only, Shape
<1> HIDE DEF x
<1>5. Only(w, x, {"nonces", "allow"}) /\ x.nonces = w.nonces
  BY <1>4, FieldNames DEF Only
<1>6. After(w, x, from) /\ PegSame(w, x)
  <2>1. /\ x.nonces \in [ACTORS -> Nat] /\ x.allow \in [ACTORS -> [SPENDERS -> Nat]]
        /\ \A a \in ACTORS : a # from => x.allow[a] = w.allow[a]
    BY <1>1, <1>2, <1>4, <1>5
  <2>2. /\ WorldOK(x) /\ PegSame(w, x) /\ x.eth = w.eth /\ x.devices = w.devices
        /\ \A c \in Clients : c # from => Spared(w, x, c)
    BY <1>5, <2>1, AllowanceSet
  <2>3. QED BY <2>2 DEF After
<1>7. ASSUME NEW b \in BOOLEAN PROVE Calm(w, call(w, "approve", from, b, x))
  BY <1>6, CalmCall
<1>8. QED BY <1>3, <1>7

LEMMA applyPermitOK ==
  ASSUME NEW w, WorldOK(w), NEW p \in Permit
  PROVE  /\ WorldOK(applyPermit(w, p)) /\ PegSame(w, applyPermit(w, p))
         /\ Only(w, applyPermit(w, p), {"nonces", "allow"})
         /\ \A c \in Clients : c # p.owner => Spared(w, applyPermit(w, p), c)
<1> DEFINE allow == [w.allow EXCEPT ![p.owner] = [@ EXCEPT ![p.spender] = p.value]]
           nonces == [w.nonces EXCEPT ![p.owner] = @ + 1]
           x == [w EXCEPT !.nonces = nonces, !.allow = allow]
<1>1. w.allow \in [ACTORS -> [SPENDERS -> Nat]] /\ w.nonces \in [ACTORS -> Nat]
  BY WorldTypes DEF WorldOK
<1>2. p.owner \in ACTORS /\ p.spender \in SPENDERS /\ p.value \in Nat
  BY DEF Permit
<1>3. /\ allow \in [ACTORS -> [SPENDERS -> Nat]] /\ nonces \in [ACTORS -> Nat]
      /\ \A a \in ACTORS : a # p.owner => allow[a] = w.allow[a]
  BY <1>1, <1>2
<1>4. applyPermit(w, p) = x
  BY DEF applyPermit
<1> HIDE DEF allow, nonces
<1>5. Only(w, x, {"nonces", "allow"}) /\ x.nonces = nonces /\ x.allow = allow
  BY FieldNames DEF WorldOK, IsWorld, Only, Shape
<1> HIDE DEF x
<1>6. /\ x.nonces \in [ACTORS -> Nat] /\ x.allow \in [ACTORS -> [SPENDERS -> Nat]]
      /\ \A a \in ACTORS : a # p.owner => x.allow[a] = w.allow[a]
  BY <1>3, <1>5
<1>7. /\ WorldOK(x) /\ PegSame(w, x)
      /\ \A c \in Clients : c # p.owner => Spared(w, x, c)
  BY <1>2, <1>5, <1>6, AllowanceSet
<1>8. QED BY <1>4, <1>5, <1>7

LEMMA permitOK ==
  ASSUME NEW w, WorldOK(w), NEW from \in ACTORS, NEW p \in Permit, w.devices[p.owner]
  PROVE  /\ Calm(w, permit(w, from, p)) /\ permit(w, from, p).world.devices = w.devices
         /\ ~permit(w, from, p).ok => permit(w, from, p).failed = "permit"
<1> DEFINE x == applyPermit(w, p)
<1>1. /\ WorldOK(x) /\ PegSame(w, x) /\ Only(w, x, {"nonces", "allow"})
      /\ \A c \in Clients : c # p.owner => Spared(w, x, c)
  BY applyPermitOK
<1> HIDE DEF x
<1>2. x.eth = w.eth /\ x.devices = w.devices
  BY <1>1, FieldNames DEF Only
<1>3. \A c \in Clients : Spared(w, x, c)
  BY <1>1 DEF Spared
<1>4. After(w, x, from)
  BY <1>1, <1>2, <1>3 DEF After
<1>5. PermitHolds(w, p) \in BOOLEAN
  BY DEF PermitHolds
<1>6. permit(w, from, p) = call(w, "permit", from, PermitHolds(w, p), x)
  BY DEF permit, x
<1>7. QED BY <1>1, <1>4, <1>5, <1>6, CalmCall

OwnershipFields == {"bridges", "owner", "pendingOwner"}

LEMMA OwnershipAfter ==
  ASSUME NEW w, WorldOK(w), w.deployed, NEW x, Only(w, x, OwnershipFields),
         \A f \in OwnershipFields : x[f] \in Types[f], NEW payer
  PROVE  After(w, x, payer) /\ PegSame(w, x) /\ WorldOK(x)
<1> DEFINE F == OwnershipFields
<1>1. /\ F \subseteq Fields /\ F \cap (MoneyFields \cup HoldingFields) = {}
      /\ F \cap (SessionFields \cup {"price", "beneficiary"}) = {}
      /\ "supply" \notin F /\ "float" \notin F
  BY FieldNames DEF MoneyFields, HoldingFields, SessionFields, OwnershipFields
<1>2. Only(w, x, F) /\ \A f \in F : x[f] \in Types[f]
  OBVIOUS
<1> HIDE DEF F
<1>3. F \cap MoneyFields = {} /\ F \cap HoldingFields = {}
  BY <1>1
<1>4. Money(x)
  BY <1>2, <1>3, MoneySame DEF WorldOK
<1>5. WorldOK(x)
  BY <1>1, <1>2, <1>4, MoneyMoved
<1>6. AllSpared(w, x) /\ x.eth = w.eth /\ x.devices = w.devices
  BY <1>2, <1>3, SparedAside DEF WorldOK
<1>7. PegSame(w, x)
  BY <1>1, <1>2, PegAside
<1>8. QED BY <1>5, <1>6, <1>7 DEF After, AllSpared

\* The types of the fields that change hands.
LEMMA OwnershipTypes ==
  ASSUME NEW w, WorldOK(w)
  PROVE  /\ w.bridges \in [ACTORS -> Bridge] /\ w.owner \in [CONTRACTS -> ACTORS \cup {None}]
         /\ w.pendingOwner \in [CONTRACTS -> ACTORS \cup {None}]
         /\ Types.bridges = [ACTORS -> Bridge] /\ Types.owner = [CONTRACTS -> ACTORS \cup {None}]
         /\ Types.pendingOwner = [CONTRACTS -> ACTORS \cup {None}]
BY WorldTypes, TypesOf DEF WorldOK

LEMMA setBridgeOK ==
  ASSUME NEW w, WorldOK(w), NEW from \in ACTORS, NEW bridge \in ACTORS, NEW allowed \in BOOLEAN,
         NEW cap \in Int
  PROVE  /\ Calm(w, setBridge(w, from, bridge, allowed, cap))
         /\ ~setBridge(w, from, bridge, allowed, cap).ok =>
                setBridge(w, from, bridge, allowed, cap).failed = "setBridge"
<1> DEFINE info == [w.bridges[bridge] EXCEPT !.allowed = allowed, !.cap = cap]
           bridges == [w.bridges EXCEPT ![bridge] = info]
           x == [w EXCEPT !.bridges = bridges]
           r == setBridge(w, from, bridge, allowed, cap)
<1>1. bridges \in [ACTORS -> Bridge]
  <2>1. w.bridges \in [ACTORS -> Bridge] /\ w.bridges[bridge] \in Bridge
    BY OwnershipTypes
  <2>2. info \in Bridge
    BY <2>1 DEF Bridge
  <2> HIDE DEF info
  <2>3. QED BY <2>1, <2>2
<1>2. r = call(w, "setBridge", from, OnlyOwner(w, "token", from), x)
  BY DEF setBridge
<1> HIDE DEF bridges, r
<1>3. Only(w, x, {"bridges"}) /\ x.bridges = bridges
  BY FieldNames DEF WorldOK, IsWorld, Only, Shape
<1> HIDE DEF x
<1>4. Only(w, x, OwnershipFields) /\ x.owner = w.owner /\ x.pendingOwner = w.pendingOwner
  BY <1>3, FieldNames DEF Only, OwnershipFields
<1>5. \A f \in OwnershipFields : x[f] \in Types[f]
  BY <1>1, <1>3, <1>4, OwnershipTypes DEF OwnershipFields
<1>6. OnlyOwner(w, "token", from) => w.deployed
  BY Deployed DEF OnlyOwner, CONTRACTS
<1>7. OnlyOwner(w, "token", from) => After(w, x, from) /\ PegSame(w, x)
  BY <1>4, <1>5, <1>6, OwnershipAfter
<1>8. OnlyOwner(w, "token", from) \in BOOLEAN
  BY DEF OnlyOwner
<1>9. QED BY <1>2, <1>7, <1>8, CalmCall DEF r

LEMMA transferOwnershipOK ==
  ASSUME NEW w, WorldOK(w), NEW from \in ACTORS, NEW contract \in CONTRACTS, NEW next \in ACTORS
  PROVE  Calm(w, transferOwnership(w, from, contract, next))
<1> DEFINE pendings == [w.pendingOwner EXCEPT ![contract] = next]
           x == [w EXCEPT !.pendingOwner = pendings]
           r == transferOwnership(w, from, contract, next)
<1>1. pendings \in [CONTRACTS -> ACTORS \cup {None}]
  BY OwnershipTypes
<1>2. r = call(w, "transferOwnership", from, OnlyOwner(w, contract, from), x)
  BY DEF transferOwnership
<1> HIDE DEF pendings, r
<1>3. Only(w, x, {"pendingOwner"}) /\ x.pendingOwner = pendings
  BY FieldNames DEF WorldOK, IsWorld, Only, Shape
<1> HIDE DEF x
<1>4. Only(w, x, OwnershipFields) /\ x.owner = w.owner /\ x.bridges = w.bridges
  BY <1>3, FieldNames DEF Only, OwnershipFields
<1>5. \A f \in OwnershipFields : x[f] \in Types[f]
  BY <1>1, <1>3, <1>4, OwnershipTypes DEF OwnershipFields
<1>6. OnlyOwner(w, contract, from) => w.deployed
  BY Deployed DEF OnlyOwner
<1>7. OnlyOwner(w, contract, from) => After(w, x, from) /\ PegSame(w, x)
  BY <1>4, <1>5, <1>6, OwnershipAfter
<1>8. OnlyOwner(w, contract, from) \in BOOLEAN
  BY DEF OnlyOwner
<1>9. QED BY <1>2, <1>7, <1>8, CalmCall DEF r

LEMMA acceptOwnershipOK ==
  ASSUME NEW w, WorldOK(w), NEW from \in ACTORS, NEW contract \in CONTRACTS
  PROVE  Calm(w, acceptOwnership(w, from, contract))
<1> DEFINE pendings == [w.pendingOwner EXCEPT ![contract] = None]
           owners == [w.owner EXCEPT ![contract] = from]
           x == [w EXCEPT !.owner = owners, !.pendingOwner = pendings]
           r == acceptOwnership(w, from, contract)
           needs == w.pendingOwner[contract] = from
<1>1. pendings \in [CONTRACTS -> ACTORS \cup {None}] /\ owners \in [CONTRACTS -> ACTORS \cup {None}]
  BY OwnershipTypes
<1>2. r = call(w, "acceptOwnership", from, needs, x)
  BY DEF acceptOwnership
<1> HIDE DEF pendings, owners, r
<1>3. Only(w, x, {"owner", "pendingOwner"}) /\ x.pendingOwner = pendings /\ x.owner = owners
  BY FieldNames DEF WorldOK, IsWorld, Only, Shape
<1> HIDE DEF x
<1>4. Only(w, x, OwnershipFields) /\ x.bridges = w.bridges
  BY <1>3, FieldNames DEF Only, OwnershipFields
<1>5. \A f \in OwnershipFields : x[f] \in Types[f]
  BY <1>1, <1>3, <1>4, OwnershipTypes DEF OwnershipFields
<1>6. needs => w.deployed
  BY Deployed
<1>7. needs => After(w, x, from) /\ PegSame(w, x)
  BY <1>4, <1>5, <1>6, OwnershipAfter
<1>8. needs \in BOOLEAN
  OBVIOUS
<1> HIDE DEF needs
<1>9. QED BY <1>2, <1>7, <1>8, CalmCall DEF r

-----------------------------------------------------------------------------
(* Money that moves. *)

\* Fields that a transfer of any kind changes.
MoveFields == {"bal", "allow", "deposits", "earnings", "authNonces"}

LEMMA MoveAfter ==
  ASSUME NEW w, WorldOK(w), w.deployed, NEW x, Only(w, x, MoveFields),
         x.bal \in Purses, x.allow \in [ACTORS -> [SPENDERS -> Nat]],
         x.deposits \in [ACTORS -> Nat], x.earnings \in [ACTORS -> Nat],
         x.authNonces \in [ACTORS -> Nat],
         HeldBy(x.bal) = HeldBy(w.bal),
         x.bal["escrow"] = TotalOf(x.deposits) + TotalOf(x.earnings),
         NEW payer,
         \A c \in Clients \ {payer} :
             w.devices[c] \/ /\ \A s \in SPENDERS : x.allow[c][s] <= w.allow[c][s]
                             /\ x.allow[c] = w.allow[c] => Holdings(x, c) >= Holdings(w, c)
  PROVE  After(w, x, payer) /\ PegSame(w, x) /\ WorldOK(x)
<1> DEFINE F == MoveFields
<1>1. /\ F \subseteq Fields
      /\ F \cap (SessionFields \cup {"price", "beneficiary", "eth", "devices", "channels"}) = {}
      /\ "supply" \notin F /\ "float" \notin F
  BY FieldNames DEF SessionFields, MoveFields
<1>2. Only(w, x, F)
  OBVIOUS
<1>3. \A f \in F : x[f] \in Types[f]
  <2>1. /\ Types.bal = Purses /\ Types.allow = [ACTORS -> [SPENDERS -> Nat]]
        /\ Types.deposits = [ACTORS -> Nat] /\ Types.earnings = [ACTORS -> Nat]
        /\ Types.authNonces = [ACTORS -> Nat]
    BY TypesOf
  <2>2. QED BY <2>1 DEF MoveFields
<1> HIDE DEF F
<1>4. PegSame(w, x)
  BY <1>1, <1>2, PegAside
<1>5. Money(x)
  <2>1. x.mpesa = w.mpesa
    BY FieldNames DEF Only, MoveFields
  <2>2. QED BY <1>4, <2>1 DEF Money, PegSame, WorldOK
<1>6. After(w, x, payer)
  BY <1>1, <1>2, <1>3, <1>5, MoneyAfter
<1>7. QED BY <1>4, <1>6 DEF After

\* The types of the fields that move.
LEMMA MoveTypes ==
  ASSUME NEW w, WorldOK(w)
  PROVE  /\ Shape(w) /\ w.bal \in Purses /\ w.allow \in [ACTORS -> [SPENDERS -> Nat]]
         /\ w.deposits \in [ACTORS -> Nat] /\ w.earnings \in [ACTORS -> Nat]
         /\ w.authNonces \in [ACTORS -> Nat]
         /\ w.bal["escrow"] = TotalOf(w.deposits) + TotalOf(w.earnings)
         /\ TotalOf(w.deposits) \in Nat /\ TotalOf(w.earnings) \in Nat
<1>1. /\ w.bal \in Purses /\ w.allow \in [ACTORS -> [SPENDERS -> Nat]]
      /\ w.deposits \in [ACTORS -> Nat] /\ w.earnings \in [ACTORS -> Nat]
      /\ w.authNonces \in [ACTORS -> Nat]
  BY WorldTypes DEF WorldOK
<1>2. "owner" \in ACTORS
  BY DEF ACTORS
<1>3. QED BY <1>1, <1>2, AtMostTotal DEF WorldOK, IsWorld, Money

\* A transfer between two wallets.  What is paid with an allowance lowers it.
LEMMA WalletMove ==
  ASSUME NEW w, WorldOK(w), NEW owner \in ACTORS, NEW to \in ACTORS, NEW payer, NEW n \in Nat,
         n <= w.bal[owner], NEW x, Only(w, x, {"bal", "allow"}), x.bal = Moved(w.bal, owner, to, n),
         x.allow \in [ACTORS -> [SPENDERS -> Nat]],
         \A a \in ACTORS, s \in SPENDERS : x.allow[a][s] <= w.allow[a][s],
         owner = payer \/ n = 0 \/ x.allow[owner] # w.allow[owner]
  PROVE  After(w, x, payer) /\ PegSame(w, x)
<1>1. /\ w.bal \in Purses /\ w.deposits \in [ACTORS -> Nat] /\ w.earnings \in [ACTORS -> Nat]
      /\ w.authNonces \in [ACTORS -> Nat] /\ w.nonces \in [ACTORS -> Nat]
      /\ w.bal["escrow"] = TotalOf(w.deposits) + TotalOf(w.earnings)
  BY MoveTypes, WorldTypes DEF WorldOK
<1>2. owner \in HOLDERS /\ to \in HOLDERS /\ "escrow" \in HOLDERS /\ owner # "escrow" /\ to # "escrow"
  BY EscrowCovers
<1>3. x.deposits = w.deposits /\ x.earnings = w.earnings /\ x.authNonces = w.authNonces
      /\ x.eth = w.eth /\ x.devices = w.devices /\ x.channels = w.channels /\ x.nonces = w.nonces
  BY FieldNames DEF Only
<1> DEFINE b == w.bal
<1>4. b \in Purses /\ b = w.bal /\ n <= b[owner]
  BY <1>1
<1> HIDE DEF b
<1>5. /\ x.bal \in Purses /\ HeldBy(x.bal) = HeldBy(w.bal) /\ x.bal["escrow"] = w.bal["escrow"]
      /\ \A c \in HOLDERS : c # owner => x.bal[c] >= w.bal[c]
      /\ n = 0 => x.bal = w.bal
  BY <1>2, <1>4, MovedPurse
<1>6. ASSUME NEW c \in Clients \ {payer}
      PROVE  /\ \A s \in SPENDERS : x.allow[c][s] <= w.allow[c][s]
             /\ x.allow[c] = w.allow[c] => Holdings(x, c) >= Holdings(w, c)
  <2>1. c \in ACTORS /\ c \in HOLDERS /\ c # payer
    BY DEF ACTORS, HOLDERS
  <2>2. w.bal[c] \in Int /\ x.bal[c] \in Int /\ w.deposits[c] \in Int
    BY <1>1, <1>5, <2>1 DEF Purses
  <2>3. CASE c # owner \/ n = 0
    <3>1. x.bal[c] >= w.bal[c]
      BY <1>5, <2>1, <2>2, <2>3
    <3>2. QED BY <1>3, <2>1, <2>2, <3>1 DEF Holdings
  <2>4. CASE c = owner /\ n # 0
    BY <2>1, <2>4
  <2>5. QED BY <2>3, <2>4
<1>7. CASE w.deployed
  <2>1. Only(w, x, MoveFields)
    BY FieldNames DEF Only, MoveFields
  <2>2. QED BY <1>1, <1>3, <1>5, <1>6, <1>7, <2>1, MoveAfter
<1>8. CASE ~w.deployed
  <2>1. w.bal[owner] = 0
    BY <1>2, <1>8, Deployed
  <2>2. x.bal = w.bal
    BY <1>5, <2>1
  <2>3. Only(w, x, {"nonces", "allow"})
    BY <2>2 DEF Only
  <2>4. WorldOK(x) /\ PegSame(w, x)
    <3>1. {"allow", "nonces"} \subseteq Fields /\ {"allow", "nonces"} \cap
              (MoneyFields \cup DeploymentFields \cup SessionFields) = {}
      BY FieldNames DEF MoneyFields, DeploymentFields, SessionFields
    <3>2. x.allow \in Types.allow /\ x.nonces \in Types.nonces
      BY <1>1, <1>3, TypesOf
    <3>3. QED BY <2>3, <3>1, <3>2, Untouched, PegAside
  <2>5. \A c \in Clients \ {payer} : Spared(w, x, c)
    BY <1>3, <1>6 DEF Spared, Charged
  <2>6. QED BY <1>3, <2>4, <2>5 DEF After
<1>9. QED BY <1>7, <1>8

\* An allowance that is spent is lower.
LEMMA AllowanceSpent ==
  ASSUME NEW allow \in [ACTORS -> [SPENDERS -> Nat]], NEW o \in ACTORS, NEW s \in SPENDERS,
         NEW n \in Nat, n <= allow[o][s]
  PROVE  LET new == [allow EXCEPT ![o][s] = @ - n]
         IN /\ new \in [ACTORS -> [SPENDERS -> Nat]]
            /\ \A a \in ACTORS, z \in SPENDERS : new[a][z] <= allow[a][z]
            /\ n = 0 \/ new[o] # allow[o]
<1> DEFINE old == allow[o]
           row == [old EXCEPT ![s] = @ - n]
           new == [allow EXCEPT ![o] = row]
<1>1. old \in [SPENDERS -> Nat] /\ n <= old[s] /\ old = allow[o]
  OBVIOUS
<1> HIDE DEF old
<1>2. /\ row \in [SPENDERS -> Nat] /\ row[s] = old[s] - n
      /\ \A z \in SPENDERS : z # s => row[z] = old[z]
  BY <1>1
<1> HIDE DEF row
<1>3. \A z \in SPENDERS : row[z] <= old[z]
  BY <1>1, <1>2
<1>4. n # 0 => row[s] # old[s]
  BY <1>1, <1>2
<1>5. /\ new \in [ACTORS -> [SPENDERS -> Nat]] /\ new[o] = row
      /\ \A a \in ACTORS : a # o => new[a] = allow[a]
  BY <1>2
<1>6. [allow EXCEPT ![o][s] = @ - n] = new
  BY <1>1 DEF row
<1> HIDE DEF new
<1>7. ASSUME NEW a \in ACTORS, NEW z \in SPENDERS PROVE new[a][z] <= allow[a][z]
  <2>1. allow[a][z] \in Nat
    OBVIOUS
  <2>2. CASE a = o
    BY <1>1, <1>3, <1>5, <2>2
  <2>3. CASE a # o
    BY <1>5, <2>1, <2>3
  <2>4. QED BY <2>2, <2>3
<1>8. QED BY <1>1, <1>4, <1>5, <1>6, <1>7

LEMMA TransferredWorld ==
  ASSUME NEW y, Shape(y), NEW from, NEW to, NEW n
  PROVE  /\ Only(y, Transferred(y, from, to, n), {"bal"})
         /\ Transferred(y, from, to, n).bal = Moved(y.bal, from, to, n)
BY FieldNames DEF Transferred, Only, Shape

LEMMA transferOK ==
  ASSUME NEW w, WorldOK(w), NEW from \in ACTORS, NEW to \in ACTORS, NEW amount \in Nat
  PROVE  /\ Calm(w, transfer(w, from, to, amount))
         /\ ~transfer(w, from, to, amount).ok => transfer(w, from, to, amount).failed = "transfer"
<1> DEFINE purses == Moved(w.bal, from, to, amount)
           x == [w EXCEPT !.bal = purses]
           r == transfer(w, from, to, amount)
           needs == w.bal[from] >= amount
<1>1. r = call(w, "transfer", from, needs, x)
  BY DEF transfer, Transferred
<1> HIDE DEF purses, r
<1>2. Only(w, x, {"bal"}) /\ x.bal = purses
  BY FieldNames DEF WorldOK, IsWorld, Only, Shape
<1> HIDE DEF x
<1>3. Only(w, x, {"bal", "allow"}) /\ x.allow = w.allow
  BY <1>2, FieldNames DEF Only
<1>4. /\ w.allow \in [ACTORS -> [SPENDERS -> Nat]]
      /\ \A a \in ACTORS, s \in SPENDERS : x.allow[a][s] <= w.allow[a][s]
      /\ w.bal[from] \in Int
  BY <1>3, MoveTypes DEF Purses, HOLDERS
<1>5. needs => amount <= w.bal[from]
  BY <1>4
<1>6. needs \in BOOLEAN
  OBVIOUS
<1> HIDE DEF needs
<1>7. needs => After(w, x, from) /\ PegSame(w, x)
  BY <1>2, <1>3, <1>4, <1>5, WalletMove DEF purses
<1>8. QED BY <1>1, <1>6, <1>7, CalmCall DEF r

LEMMA transferFromOK ==
  ASSUME NEW w, WorldOK(w), NEW from \in ACTORS, NEW owner \in ACTORS, NEW to \in ACTORS,
         NEW amount \in Nat
  PROVE  /\ Calm(w, transferFrom(w, from, owner, to, amount))
         /\ ~transferFrom(w, from, owner, to, amount).ok =>
                transferFrom(w, from, owner, to, amount).failed = "transferFrom"
<1> DEFINE allow == [w.allow EXCEPT ![owner][from] = @ - amount]
           y == [w EXCEPT !.allow = allow]
           x == Transferred(y, owner, to, amount)
           r == transferFrom(w, from, owner, to, amount)
           needs == w.allow[owner][from] >= amount /\ w.bal[owner] >= amount
<1>1. w.allow \in [ACTORS -> [SPENDERS -> Nat]] /\ w.bal[owner] \in Int /\ from \in SPENDERS
  BY MoveTypes DEF Purses, HOLDERS, SPENDERS
<1>2. r = call(w, "transferFrom", from, needs, x)
  BY DEF transferFrom
<1>3. ASSUME needs
      PROVE  /\ allow \in [ACTORS -> [SPENDERS -> Nat]]
             /\ \A a \in ACTORS, s \in SPENDERS : allow[a][s] <= w.allow[a][s]
             /\ amount = 0 \/ allow[owner] # w.allow[owner]
             /\ amount <= w.bal[owner]
  <2>1. amount <= w.allow[owner][from] /\ amount <= w.bal[owner]
    BY <1>1, <1>3
  <2>2. QED BY <1>1, <2>1, AllowanceSpent
<1> HIDE DEF allow, r
<1>4. Only(w, y, {"allow"}) /\ y.allow = allow
  BY FieldNames DEF WorldOK, IsWorld, Only, Shape
<1> HIDE DEF y
<1>5. Only(y, x, {"bal"}) /\ x.bal = Moved(y.bal, owner, to, amount)
  BY <1>4, TransferredWorld DEF Only
<1> HIDE DEF x
<1>6. Only(w, x, {"bal", "allow"}) /\ x.allow = allow /\ x.bal = Moved(w.bal, owner, to, amount)
  BY <1>4, <1>5, FieldNames DEF Only
<1>7. needs \in BOOLEAN
  OBVIOUS
<1> HIDE DEF needs
<1>8. needs => After(w, x, from) /\ PegSame(w, x)
  <2> SUFFICES ASSUME needs PROVE After(w, x, from) /\ PegSame(w, x)
    OBVIOUS
  <2>1. /\ x.allow \in [ACTORS -> [SPENDERS -> Nat]]
        /\ \A a \in ACTORS, s \in SPENDERS : x.allow[a][s] <= w.allow[a][s]
        /\ owner = from \/ amount = 0 \/ x.allow[owner] # w.allow[owner]
        /\ amount <= w.bal[owner]
    BY <1>3, <1>6
  <2>2. QED BY <1>6, <2>1, WalletMove
<1>9. QED BY <1>2, <1>7, <1>8, CalmCall DEF r

\* A deposit: the client holds as much as before, in another place.
LEMMA DepositedAfter ==
  ASSUME NEW w, WorldOK(w), NEW client \in ACTORS, NEW amount \in Nat,
         CanDeposit(w, client, amount), NEW payer
  PROVE  /\ After(w, Deposited(w, client, amount), payer)
         /\ PegSame(w, Deposited(w, client, amount))
<1> DEFINE b == w.bal
           purses == Moved(b, client, "escrow", amount)
           allow == [w.allow EXCEPT ![client]["escrow"] = @ - amount]
           deposits == Plus(w.deposits, client, amount)
           y == [w EXCEPT !.allow = allow, !.deposits = deposits]
           x == Transferred(y, client, "escrow", amount)
<1>1. /\ w.allow \in [ACTORS -> [SPENDERS -> Nat]] /\ "escrow" \in SPENDERS
      /\ w.bal \in Purses /\ w.bal[client] \in Int /\ w.deposits \in [ACTORS -> Nat]
      /\ w.earnings \in [ACTORS -> Nat] /\ w.authNonces \in [ACTORS -> Nat]
      /\ w.bal["escrow"] = TotalOf(w.deposits) + TotalOf(w.earnings)
      /\ TotalOf(w.deposits) \in Nat /\ TotalOf(w.earnings) \in Nat
      /\ client \in HOLDERS /\ "escrow" \in HOLDERS /\ client # "escrow"
  BY MoveTypes, EscrowCovers DEF Purses, SPENDERS
<1>2. amount > 0 /\ amount <= w.allow[client]["escrow"] /\ amount <= w.bal[client]
  BY <1>1 DEF CanDeposit
<1>3. Deposited(w, client, amount) = x
  BY DEF Deposited, Plus
<1>4. /\ allow \in [ACTORS -> [SPENDERS -> Nat]]
      /\ \A a \in ACTORS, s \in SPENDERS : allow[a][s] <= w.allow[a][s]
  BY <1>1, <1>2, AllowanceSpent
<1>5. /\ deposits \in [ACTORS -> Nat] /\ TotalOf(deposits) = TotalOf(w.deposits) + amount
      /\ \A a \in ACTORS : deposits[a] = IF a = client THEN w.deposits[a] + amount ELSE w.deposits[a]
  <2>1. w.deposits[client] + amount >= 0 /\ amount \in Int
    BY <1>1
  <2>2. /\ Plus(w.deposits, client, amount) \in [ACTORS -> Nat]
        /\ TotalOf(Plus(w.deposits, client, amount)) = TotalOf(w.deposits) + amount
    BY <1>1, <2>1, AddedAmount
  <2>3. QED BY <1>1, <2>2 DEF Plus
<1>6. b \in Purses /\ b = w.bal /\ amount <= b[client]
  BY <1>1, <1>2
<1> HIDE DEF b
<1>7. /\ purses \in Purses /\ HeldBy(purses) = HeldBy(w.bal)
      /\ purses["escrow"] = w.bal["escrow"] + amount /\ purses[client] = w.bal[client] - amount
      /\ \A c \in HOLDERS : c # client /\ c # "escrow" => purses[c] = w.bal[c]
  BY <1>1, <1>6, MovedPurse
<1> HIDE DEF purses, allow, deposits
<1>8. Only(w, y, {"allow", "deposits"}) /\ y.allow = allow /\ y.deposits = deposits
  BY FieldNames DEF WorldOK, IsWorld, Only, Shape
<1> HIDE DEF y
<1>9. Only(y, x, {"bal"}) /\ x.bal = purses
  <2>1. y.bal = b
    BY <1>6, <1>8, FieldNames DEF Only
  <2>2. QED BY <1>8, <2>1, TransferredWorld DEF Only, purses
<1> HIDE DEF x
<1>10. /\ Only(w, x, MoveFields) /\ x.bal = purses /\ x.allow = allow /\ x.deposits = deposits
       /\ x.earnings = w.earnings /\ x.authNonces = w.authNonces
  BY <1>8, <1>9, FieldNames DEF Only, MoveFields
<1>11. x.bal["escrow"] = TotalOf(x.deposits) + TotalOf(x.earnings)
  BY <1>1, <1>5, <1>7, <1>10
<1>12. w.deployed
  <2>1. w.bal[client] # 0
    BY <1>1, <1>2
  <2>2. QED BY <1>1, <2>1, Deployed
<1>13. ASSUME NEW c \in Clients
       PROVE  /\ \A s \in SPENDERS : x.allow[c][s] <= w.allow[c][s]
              /\ Holdings(x, c) >= Holdings(w, c)
  <2>1. c \in ACTORS /\ c \in HOLDERS /\ c # "escrow"
    BY DEF ACTORS, HOLDERS, Clients
  <2>2. w.bal[c] \in Int /\ w.deposits[c] \in Int
    BY <1>1, <2>1 DEF Purses
  <2>3. purses[c] + deposits[c] = w.bal[c] + w.deposits[c]
    BY <1>5, <1>7, <2>1, <2>2
  <2>4. QED BY <1>4, <1>10, <2>1, <2>2, <2>3 DEF Holdings
<1>14. After(w, x, payer) /\ PegSame(w, x)
  BY <1>1, <1>4, <1>5, <1>7, <1>10, <1>11, <1>12, <1>13, MoveAfter
<1>15. QED BY <1>3, <1>14

LEMMA depositOK ==
  ASSUME NEW w, WorldOK(w), NEW from \in ACTORS, NEW amount \in Nat
  PROVE  Calm(w, deposit(w, from, amount))
<1>1. CanDeposit(w, from, amount) \in BOOLEAN
  BY DEF CanDeposit
<1>2. CanDeposit(w, from, amount) =>
          After(w, Deposited(w, from, amount), from) /\ PegSame(w, Deposited(w, from, amount))
  BY DepositedAfter
<1>3. QED BY <1>1, <1>2, CalmCall DEF deposit

LEMMA PegTwice ==
  ASSUME NEW w, NEW x, NEW y, PegSame(w, x), PegSame(x, y)
  PROVE  PegSame(w, y)
BY DEF PegSame

LEMMA depositWithPermitOK ==
  ASSUME NEW w, WorldOK(w), NEW from \in ACTORS, NEW client \in ACTORS, NEW amount \in Nat,
         NEW p \in Permit, w.devices[p.owner]
  PROVE  /\ Calm(w, depositWithPermit(w, from, client, amount, p))
         /\ ~depositWithPermit(w, from, client, amount, p).ok =>
                depositWithPermit(w, from, client, amount, p).failed = "depositWithPermit"
<1> DEFINE x == IF PermitHolds(w, p) THEN applyPermit(w, p) ELSE w
           y == Deposited(x, client, amount)
           r == depositWithPermit(w, from, client, amount, p)
<1>1. r = call(w, "depositWithPermit", from, CanDeposit(x, client, amount), y)
  BY DEF depositWithPermit
<1>2. WorldOK(x) /\ PegSame(w, x) /\ AllSpared(w, x) /\ x.eth = w.eth /\ x.devices = w.devices
  <2>1. CASE PermitHolds(w, p)
    <3>1. /\ WorldOK(x) /\ PegSame(w, x) /\ Only(w, x, {"nonces", "allow"})
          /\ \A c \in Clients : c # p.owner => Spared(w, x, c)
      BY <2>1, applyPermitOK
    <3>2. x.eth = w.eth /\ x.devices = w.devices
      BY <3>1, FieldNames DEF Only
    <3>3. AllSpared(w, x)
      BY <3>1 DEF AllSpared, Spared
    <3>4. QED BY <3>1, <3>2, <3>3
  <2>2. CASE ~PermitHolds(w, p)
    BY <2>2, SparedSelf DEF PegSame
  <2>3. QED BY <2>1, <2>2
<1> HIDE DEF x, r
<1>3. ASSUME CanDeposit(x, client, amount) PROVE After(w, y, from) /\ PegSame(w, y)
  <2>1. After(x, y, "escrow") /\ PegSame(x, y)
    BY <1>2, <1>3, DepositedAfter
  <2>2. AllSpared(x, y)
    BY <2>1 DEF After, AllSpared, Clients
  <2>3. WorldOK(y) /\ y.eth = w.eth /\ y.devices = w.devices
    BY <1>2, <2>1 DEF After
  <2>4. AllSpared(w, y)
    BY <1>2, <2>2, <2>3, SparedTwice DEF WorldOK
  <2>5. PegSame(w, y)
    BY <1>2, <2>1, PegTwice
  <2>6. QED BY <2>3, <2>4, <2>5 DEF After, AllSpared
<1>4. CanDeposit(x, client, amount) \in BOOLEAN
  BY DEF CanDeposit
<1> HIDE DEF y
<1>5. QED BY <1>1, <1>3, <1>4, CalmCall DEF r

\* A withdrawal, with or without a signature.
LEMMA WithdrawnAfter ==
  ASSUME NEW w, WorldOK(w), NEW client \in ACTORS, NEW to \in ACTORS, NEW amount \in Nat,
         amount > 0, amount <= w.deposits[client],
         NEW y, Only(w, y, {"authNonces"}), y.authNonces \in [ACTORS -> Nat],
         NEW payer, client = payer \/ w.devices[client]
  PROVE  /\ After(w, Withdrawn(y, client, to, amount), payer)
         /\ PegSame(w, Withdrawn(y, client, to, amount))
<1> DEFINE b == w.bal
           purses == Moved(b, "escrow", to, amount)
           deposits == Plus(w.deposits, client, -amount)
           z == [y EXCEPT !.deposits = deposits]
           x == Transferred(z, "escrow", to, amount)
<1>1. /\ w.bal \in Purses /\ w.deposits \in [ACTORS -> Nat]
      /\ w.allow \in [ACTORS -> [SPENDERS -> Nat]]
      /\ w.earnings \in [ACTORS -> Nat]
      /\ w.bal["escrow"] = TotalOf(w.deposits) + TotalOf(w.earnings)
      /\ TotalOf(w.deposits) \in Nat /\ TotalOf(w.earnings) \in Nat
      /\ to \in HOLDERS /\ "escrow" \in HOLDERS /\ to # "escrow"
      /\ w.deposits[client] \in Nat /\ w.deposits[client] <= w.bal["escrow"]
      /\ w.bal["escrow"] \in Nat
  BY MoveTypes, EscrowCovers
<1>2. y.deposits = w.deposits /\ y.bal = w.bal
  BY FieldNames DEF Only
<1>3. Withdrawn(y, client, to, amount) = x
  <2>1. w.deposits[client] - amount = w.deposits[client] + (-amount)
    BY <1>1
  <2>2. z = [y EXCEPT !.deposits[client] = @ - amount]
    BY <1>2, <2>1 DEF Plus
  <2> HIDE DEF z
  <2>3. QED BY <2>2 DEF Withdrawn
<1>4. /\ deposits \in [ACTORS -> Nat] /\ TotalOf(deposits) = TotalOf(w.deposits) - amount
      /\ \A a \in ACTORS : deposits[a] = IF a = client THEN w.deposits[a] - amount ELSE w.deposits[a]
  <2>1. w.deposits[client] + (-amount) >= 0 /\ -amount \in Int
    BY <1>1
  <2>2. /\ Plus(w.deposits, client, -amount) \in [ACTORS -> Nat]
        /\ TotalOf(Plus(w.deposits, client, -amount)) = TotalOf(w.deposits) + (-amount)
    BY <1>1, <2>1, AddedAmount
  <2>3. \A a \in ACTORS : deposits[a] = IF a = client THEN w.deposits[a] - amount ELSE w.deposits[a]
    BY <1>1 DEF Plus
  <2> HIDE DEF deposits
  <2>4. QED BY <1>1, <2>2, <2>3 DEF deposits
<1>5. b \in Purses /\ b = w.bal /\ amount <= b["escrow"]
  BY <1>1
<1> HIDE DEF b
<1>6. /\ purses \in Purses /\ HeldBy(purses) = HeldBy(w.bal)
      /\ purses["escrow"] = w.bal["escrow"] - amount /\ purses[to] = w.bal[to] + amount
      /\ \A c \in HOLDERS : c # to /\ c # "escrow" => purses[c] = w.bal[c]
  BY <1>1, <1>5, MovedPurse
<1> HIDE DEF purses, deposits
<1>7. Only(y, z, {"deposits"}) /\ z.deposits = deposits
  BY FieldNames DEF Only, Shape
<1> HIDE DEF z
<1>8. Only(z, x, {"bal"}) /\ x.bal = purses
  <2>1. z.bal = b
    BY <1>2, <1>5, <1>7, FieldNames DEF Only
  <2>2. QED BY <1>7, <2>1, TransferredWorld DEF Only, purses
<1> HIDE DEF x
<1>9. /\ Only(w, x, MoveFields) /\ x.bal = purses /\ x.deposits = deposits /\ x.allow = w.allow
      /\ x.earnings = w.earnings /\ x.authNonces = y.authNonces
  BY <1>7, <1>8, FieldNames DEF Only, MoveFields
<1>10. x.bal["escrow"] = TotalOf(x.deposits) + TotalOf(x.earnings)
  BY <1>1, <1>4, <1>6, <1>9
<1>11. w.deployed
  <2>1. w.deposits[client] # 0
    BY <1>1
  <2>2. QED BY <1>1, <2>1, Deployed
<1>12. ASSUME NEW c \in Clients \ {payer}, ~w.devices[c]
       PROVE  /\ \A s \in SPENDERS : x.allow[c][s] <= w.allow[c][s]
              /\ Holdings(x, c) >= Holdings(w, c)
  <2>1. c \in ACTORS /\ c \in HOLDERS /\ c # "escrow" /\ c # client
    BY <1>12 DEF ACTORS, HOLDERS, Clients
  <2>2. w.bal[c] \in Int /\ w.deposits[c] \in Int /\ w.bal[to] \in Int
    BY <1>1, <2>1 DEF Purses
  <2>3. purses[c] + deposits[c] >= w.bal[c] + w.deposits[c]
    BY <1>4, <1>6, <2>1, <2>2
  <2>4. \A s \in SPENDERS : w.allow[c][s] \in Nat
    BY <1>1, <2>1
  <2>5. QED BY <1>9, <2>1, <2>2, <2>3, <2>4 DEF Holdings
<1>13. After(w, x, payer) /\ PegSame(w, x)
  BY <1>1, <1>4, <1>6, <1>9, <1>10, <1>11, <1>12, MoveAfter
<1>14. QED BY <1>3, <1>13

LEMMA withdrawDepositOK ==
  ASSUME NEW w, WorldOK(w), NEW from \in ACTORS, NEW amount \in Nat
  PROVE  /\ Calm(w, withdrawDeposit(w, from, amount))
         /\ ~withdrawDeposit(w, from, amount).ok =>
                withdrawDeposit(w, from, amount).failed = "withdrawDeposit"
<1> DEFINE x == Withdrawn(w, from, from, amount)
           needs == amount > 0 /\ w.deposits[from] >= amount
           r == withdrawDeposit(w, from, amount)
<1>1. r = call(w, "withdrawDeposit", from, needs, x)
  BY DEF withdrawDeposit
<1>2. Only(w, w, {"authNonces"}) /\ w.authNonces \in [ACTORS -> Nat]
  BY MoveTypes DEF Only
<1>3. needs => amount > 0 /\ amount <= w.deposits[from]
  BY MoveTypes
<1>4. needs \in BOOLEAN
  OBVIOUS
<1> HIDE DEF needs, r
<1>5. needs => After(w, x, from) /\ PegSame(w, x)
  BY <1>2, <1>3, WithdrawnAfter
<1> HIDE DEF x
<1>6. QED BY <1>1, <1>4, <1>5, CalmCall DEF r

LEMMA UsedFacts ==
  ASSUME NEW w, WorldOK(w), NEW auth \in Auth
  PROVE  /\ Only(w, Used(w, auth), {"authNonces"})
         /\ Used(w, auth).authNonces \in [ACTORS -> Nat]
<1> DEFINE new == [w.authNonces EXCEPT ![auth.from] = @ + 1]
<1>1. new \in [ACTORS -> Nat]
  BY MoveTypes DEF Auth
<1>2. Used(w, auth) = [w EXCEPT !.authNonces = new]
  BY DEF Used
<1> HIDE DEF new
<1>3. QED BY <1>1, <1>2, FieldNames DEF WorldOK, IsWorld, Only, Shape

LEMMA withdrawWithSigOK ==
  ASSUME NEW w, WorldOK(w), NEW from \in ACTORS, NEW auth \in Auth, NEW to \in ACTORS,
         w.devices[auth.from]
  PROVE  /\ Calm(w, withdrawWithSig(w, from, auth, to))
         /\ ~withdrawWithSig(w, from, auth, to).ok =>
                withdrawWithSig(w, from, auth, to).failed = "withdrawWithSig"
<1> DEFINE x == Withdrawn(Used(w, auth), auth.from, to, auth.amount)
           needs == AuthHolds(w, "withdraw", auth, to)
           r == withdrawWithSig(w, from, auth, to)
<1>1. r = call(w, "withdrawWithSig", from, needs, x)
  BY DEF withdrawWithSig
<1>2. auth.from \in ACTORS /\ auth.amount \in Nat
  BY DEF Auth
<1>3. needs => auth.amount > 0 /\ auth.amount <= w.deposits[auth.from]
  BY <1>2, MoveTypes DEF AuthHolds
<1>4. needs \in BOOLEAN
  BY DEF AuthHolds
<1> HIDE DEF needs, r
<1>5. needs => After(w, x, from) /\ PegSame(w, x)
  BY <1>2, <1>3, UsedFacts, WithdrawnAfter
<1> HIDE DEF x
<1>6. QED BY <1>1, <1>4, <1>5, CalmCall DEF r

LEMMA MovedAmount ==
  ASSUME NEW f \in [ACTORS -> Nat], NEW a \in ACTORS, NEW to \in ACTORS, NEW n \in Nat, n <= f[a]
  PROVE  /\ Moved(f, a, to, n) \in [ACTORS -> Nat]
         /\ TotalOf(Moved(f, a, to, n)) = TotalOf(f)
         /\ \A c \in ACTORS : c # a => Moved(f, a, to, n)[c] >= f[c]
<1> DEFINE g == Plus(f, a, -n)  h == Plus(g, to, n)
<1>1. f[a] \in Nat /\ -n \in Int /\ f[a] + (-n) >= 0
  OBVIOUS
<1>2. g \in [ACTORS -> Nat] /\ TotalOf(g) = TotalOf(f) + (-n) /\ TotalOf(f) \in Nat
  BY <1>1, AddedAmount
<1>3. \A c \in ACTORS : c # a => g[c] = f[c]
  BY DEF Plus
<1>4. Moved(f, a, to, n) = h
  BY <1>1 DEF Moved, Plus
<1> HIDE DEF g
<1>5. g[to] \in Nat /\ n \in Int /\ g[to] + n >= 0
  BY <1>2
<1>6. h \in [ACTORS -> Nat] /\ TotalOf(h) = TotalOf(g) + n
  BY <1>2, <1>5, AddedAmount
<1>7. \A c \in ACTORS : h[c] = IF c = to THEN g[c] + n ELSE g[c]
  BY <1>2 DEF Plus
<1> HIDE DEF h
<1>8. TotalOf(h) = TotalOf(f)
  BY <1>2, <1>6
<1>9. ASSUME NEW c \in ACTORS, c # a PROVE h[c] >= f[c]
  <2>1. f[c] \in Nat /\ g[c] = f[c]
    BY <1>3, <1>9
  <2>2. QED BY <1>7, <2>1
<1>10. QED BY <1>4, <1>6, <1>8, <1>9

LEMMA transferDepositOK ==
  ASSUME NEW w, WorldOK(w), NEW from \in ACTORS, NEW auth \in Auth, NEW to \in ACTORS,
         w.devices[auth.from]
  PROVE  /\ Calm(w, transferDeposit(w, from, auth, to))
         /\ ~transferDeposit(w, from, auth, to).ok =>
                transferDeposit(w, from, auth, to).failed = "transferDeposit"
<1> DEFINE y == Used(w, auth)
           deposits == Moved(w.deposits, auth.from, to, auth.amount)
           x == [y EXCEPT !.deposits = deposits]
           needs == AuthHolds(w, "transfer", auth, to)
           r == transferDeposit(w, from, auth, to)
<1>1. Only(w, y, {"authNonces"}) /\ y.authNonces \in [ACTORS -> Nat]
  BY UsedFacts
<1> HIDE DEF y
<1>2. y.deposits = w.deposits
  BY <1>1, FieldNames DEF Only
<1>3. r = call(w, "transferDeposit", from, needs, x)
  BY <1>2 DEF transferDeposit, y
<1>4. auth.from \in ACTORS /\ auth.amount \in Nat
  BY DEF Auth
<1>5. needs => auth.amount > 0 /\ auth.amount <= w.deposits[auth.from]
  BY <1>4, MoveTypes DEF AuthHolds
<1>6. needs \in BOOLEAN
  BY DEF AuthHolds
<1> HIDE DEF needs, r, deposits
<1>7. Only(y, x, {"deposits"}) /\ x.deposits = deposits
  BY <1>1, FieldNames DEF Only, Shape
<1> HIDE DEF x
<1>8. /\ Only(w, x, MoveFields) /\ x.bal = w.bal /\ x.deposits = deposits /\ x.allow = w.allow
      /\ x.earnings = w.earnings /\ x.authNonces = y.authNonces
  BY <1>1, <1>7, FieldNames DEF Only, MoveFields
<1>9. ASSUME needs PROVE After(w, x, from) /\ PegSame(w, x)
  <2>1. /\ deposits \in [ACTORS -> Nat] /\ TotalOf(deposits) = TotalOf(w.deposits)
        /\ \A c \in ACTORS : c # auth.from => deposits[c] >= w.deposits[c]
    BY <1>4, <1>5, <1>9, MoveTypes, MovedAmount DEF deposits
  <2>2. w.deployed
    <3>1. w.deposits[auth.from] # 0
      BY <1>4, <1>5, <1>9, MoveTypes
    <3>2. QED BY <1>4, <3>1, Deployed
  <2>3. ASSUME NEW c \in Clients, ~w.devices[c]
        PROVE  /\ \A s \in SPENDERS : x.allow[c][s] <= w.allow[c][s]
               /\ Holdings(x, c) >= Holdings(w, c)
    <3>1. c \in ACTORS /\ c \in HOLDERS /\ c # auth.from
      BY <2>3 DEF ACTORS, HOLDERS
    <3>2. /\ w.bal[c] \in Int /\ w.deposits[c] \in Int /\ deposits[c] \in Int
          /\ \A s \in SPENDERS : w.allow[c][s] \in Nat
      BY <2>1, <3>1, MoveTypes DEF Purses
    <3>3. QED BY <1>8, <2>1, <3>1, <3>2 DEF Holdings
  <2>4. x.bal["escrow"] = TotalOf(x.deposits) + TotalOf(x.earnings)
    BY <1>8, <2>1, MoveTypes
  <2>5. /\ x.bal \in Purses /\ x.allow \in [ACTORS -> [SPENDERS -> Nat]]
        /\ x.earnings \in [ACTORS -> Nat] /\ HeldBy(x.bal) = HeldBy(w.bal)
    BY <1>8, MoveTypes
  <2>6. QED BY <1>1, <1>8, <2>1, <2>2, <2>3, <2>4, <2>5, MoveAfter
<1>10. QED BY <1>3, <1>6, <1>9, CalmCall DEF r

LEMMA claimEarningsOK ==
  ASSUME NEW w, WorldOK(w), NEW from \in ACTORS, NEW to \in ACTORS, NEW amount \in Nat
  PROVE  /\ Calm(w, claimEarnings(w, from, to, amount))
         /\ ~claimEarnings(w, from, to, amount).ok =>
                claimEarnings(w, from, to, amount).failed = "claimEarnings"
<1> DEFINE b == w.bal
           purses == Moved(b, "escrow", to, amount)
           earnings == [w.earnings EXCEPT ![from] = @ - amount]
           z == [w EXCEPT !.earnings = earnings]
           x == Transferred(z, "escrow", to, amount)
           needs == amount > 0 /\ w.earnings[from] >= amount
           r == claimEarnings(w, from, to, amount)
<1>1. /\ w.bal \in Purses /\ w.deposits \in [ACTORS -> Nat]
      /\ w.allow \in [ACTORS -> [SPENDERS -> Nat]]
      /\ w.earnings \in [ACTORS -> Nat] /\ w.authNonces \in [ACTORS -> Nat]
      /\ w.bal["escrow"] = TotalOf(w.deposits) + TotalOf(w.earnings)
      /\ TotalOf(w.deposits) \in Nat /\ TotalOf(w.earnings) \in Nat
      /\ to \in HOLDERS /\ "escrow" \in HOLDERS /\ to # "escrow"
      /\ w.earnings[from] \in Nat /\ w.earnings[from] <= w.bal["escrow"]
      /\ w.bal["escrow"] \in Nat
  BY MoveTypes, EscrowCovers
<1>2. r = call(w, "claimEarnings", from, needs, x)
  BY DEF claimEarnings
<1>3. needs => amount > 0 /\ amount <= w.earnings[from]
  BY <1>1
<1>4. needs \in BOOLEAN
  OBVIOUS
<1>5. ASSUME needs
      PROVE  earnings \in [ACTORS -> Nat] /\ TotalOf(earnings) = TotalOf(w.earnings) - amount
  <2>1. w.earnings[from] + (-amount) >= 0 /\ -amount \in Int
    BY <1>1, <1>3, <1>5
  <2>2. /\ Plus(w.earnings, from, -amount) \in [ACTORS -> Nat]
        /\ TotalOf(Plus(w.earnings, from, -amount)) = TotalOf(w.earnings) + (-amount)
    BY <1>1, <2>1, AddedAmount
  <2>3. earnings = Plus(w.earnings, from, -amount)
    BY <1>1 DEF Plus
  <2> HIDE DEF earnings
  <2>4. QED BY <1>1, <2>2, <2>3
<1> HIDE DEF needs, r
<1>6. b \in Purses /\ b = w.bal
  BY <1>1
<1> HIDE DEF b
<1>7. ASSUME needs
      PROVE  /\ purses \in Purses /\ HeldBy(purses) = HeldBy(w.bal)
             /\ purses["escrow"] = w.bal["escrow"] - amount
             /\ \A c \in HOLDERS : c # "escrow" => purses[c] >= w.bal[c]
  <2>1. amount <= b["escrow"]
    BY <1>1, <1>3, <1>6, <1>7
  <2>2. QED BY <1>1, <1>6, <2>1, MovedPurse
<1> HIDE DEF purses, earnings
<1>8. Only(w, z, {"earnings"}) /\ z.earnings = earnings
  BY FieldNames DEF WorldOK, IsWorld, Only, Shape
<1> HIDE DEF z
<1>9. Only(z, x, {"bal"}) /\ x.bal = purses
  <2>1. z.bal = b
    BY <1>6, <1>8, FieldNames DEF Only
  <2>2. QED BY <1>8, <2>1, TransferredWorld DEF Only, purses
<1> HIDE DEF x
<1>10. /\ Only(w, x, MoveFields) /\ x.bal = purses /\ x.earnings = earnings /\ x.allow = w.allow
       /\ x.deposits = w.deposits /\ x.authNonces = w.authNonces
  BY <1>8, <1>9, FieldNames DEF Only, MoveFields
<1>11. ASSUME needs PROVE After(w, x, from) /\ PegSame(w, x)
  <2>1. x.bal["escrow"] = TotalOf(x.deposits) + TotalOf(x.earnings)
    BY <1>1, <1>5, <1>7, <1>10, <1>11
  <2>2. w.deployed
    <3>1. w.earnings[from] # 0
      BY <1>1, <1>3, <1>11
    <3>2. QED BY <3>1, Deployed
  <2>3. ASSUME NEW c \in Clients
        PROVE  /\ \A s \in SPENDERS : x.allow[c][s] <= w.allow[c][s]
               /\ Holdings(x, c) >= Holdings(w, c)
    <3>1. c \in ACTORS /\ c \in HOLDERS /\ c # "escrow"
      BY DEF ACTORS, HOLDERS, Clients
    <3>2. /\ w.bal[c] \in Int /\ w.deposits[c] \in Int /\ purses[c] \in Int
          /\ \A s \in SPENDERS : w.allow[c][s] \in Nat
      BY <1>1, <1>7, <1>11, <3>1 DEF Purses
    <3>3. purses[c] >= w.bal[c]
      BY <1>7, <1>11, <3>1
    <3>4. QED BY <1>10, <3>2, <3>3 DEF Holdings
  <2>4. x.bal \in Purses /\ HeldBy(x.bal) = HeldBy(w.bal) /\ x.earnings \in [ACTORS -> Nat]
    BY <1>5, <1>7, <1>10, <1>11
  <2>5. /\ x.allow \in [ACTORS -> [SPENDERS -> Nat]] /\ x.deposits \in [ACTORS -> Nat]
        /\ x.authNonces \in [ACTORS -> Nat] /\ Only(w, x, MoveFields)
    BY <1>1, <1>10
  <2>6. QED BY <2>1, <2>2, <2>3, <2>4, <2>5, MoveAfter
<1>12. QED BY <1>2, <1>4, <1>11, CalmCall DEF r

LEMMA claimOK ==
  ASSUME NEW w, WorldOK(w), NEW from \in ACTORS
  PROVE  Calm(w, claim(w, from)) /\ (~claim(w, from).ok => claim(w, from).failed = "claim")
<1> DEFINE b == w.bal
           n == w.bal["treasury"]
           to == w.beneficiary
           purses == Moved(b, "treasury", to, n)
           x == Transferred(w, "treasury", to, n)
           needs == n > 0
           r == claim(w, from)
<1>1. r = call(w, "claim", from, needs, x)
  BY DEF claim
<1>2. needs \in BOOLEAN
  OBVIOUS
<1>3. /\ w.bal \in Purses /\ w.deposits \in [ACTORS -> Nat]
      /\ w.allow \in [ACTORS -> [SPENDERS -> Nat]]
      /\ w.earnings \in [ACTORS -> Nat] /\ w.authNonces \in [ACTORS -> Nat]
      /\ w.bal["escrow"] = TotalOf(w.deposits) + TotalOf(w.earnings)
      /\ n \in Nat /\ "treasury" \in HOLDERS /\ "escrow" \in HOLDERS
  BY MoveTypes, EscrowCovers
<1>4. ASSUME needs PROVE w.deployed /\ to \in ACTORS
  <2>1. w.deployed
    BY <1>3, <1>4, Deployed
  <2>2. QED BY <2>1 DEF WorldOK, Deployment
<1>5. b \in Purses /\ b = w.bal /\ n <= b["treasury"]
  BY <1>3
<1>6. Only(w, x, {"bal"}) /\ x.bal = purses
  <2>1. Shape(w)
    BY DEF WorldOK, IsWorld
  <2> HIDE DEF to, n
  <2>2. QED BY <1>5, <2>1, TransferredWorld DEF purses
<1> HIDE DEF x, r, b, n
<1>7. ASSUME needs
      PROVE  /\ purses \in Purses /\ HeldBy(purses) = HeldBy(w.bal)
             /\ purses["escrow"] = w.bal["escrow"]
             /\ \A c \in HOLDERS : c # "treasury" => purses[c] >= w.bal[c]
  <2> HIDE DEF to
  <2>1. to \in ACTORS /\ to \in HOLDERS /\ to # "escrow"
    BY <1>4, <1>7, EscrowCovers
  <2>2. QED BY <1>3, <1>5, <2>1, MovedPurse
<1> HIDE DEF purses, needs, to
<1>8. /\ Only(w, x, MoveFields) /\ x.earnings = w.earnings /\ x.allow = w.allow
      /\ x.deposits = w.deposits /\ x.authNonces = w.authNonces
  BY <1>6, FieldNames DEF Only, MoveFields
<1>9. ASSUME needs PROVE After(w, x, from) /\ PegSame(w, x)
  <2>1. x.bal["escrow"] = TotalOf(x.deposits) + TotalOf(x.earnings)
    BY <1>3, <1>6, <1>7, <1>8, <1>9
  <2>2. ASSUME NEW c \in Clients
        PROVE  /\ \A s \in SPENDERS : x.allow[c][s] <= w.allow[c][s]
               /\ Holdings(x, c) >= Holdings(w, c)
    <3>1. c \in ACTORS /\ c \in HOLDERS /\ c # "treasury"
      BY DEF ACTORS, HOLDERS, Clients
    <3>2. /\ w.bal[c] \in Int /\ w.deposits[c] \in Int /\ purses[c] \in Int
          /\ \A s \in SPENDERS : w.allow[c][s] \in Nat
      BY <1>3, <1>7, <1>9, <3>1 DEF Purses
    <3>3. purses[c] >= w.bal[c]
      BY <1>7, <1>9, <3>1
    <3>4. QED BY <1>6, <1>8, <3>2, <3>3 DEF Holdings
  <2>3. x.bal \in Purses /\ HeldBy(x.bal) = HeldBy(w.bal)
    BY <1>6, <1>7, <1>9
  <2>4. /\ x.allow \in [ACTORS -> [SPENDERS -> Nat]] /\ x.deposits \in [ACTORS -> Nat]
        /\ x.authNonces \in [ACTORS -> Nat] /\ x.earnings \in [ACTORS -> Nat]
    BY <1>3, <1>8
  <2>5. QED BY <1>4, <1>8, <1>9, <2>1, <2>2, <2>3, <2>4, MoveAfter
<1>10. QED BY <1>1, <1>2, <1>9, CalmCall DEF r

-----------------------------------------------------------------------------
(* The bridge and M-Pesa: the two sides of the peg. *)

LEMMA WindowType ==
  ASSUME NEW w, WorldOK(w), NEW bridge \in ACTORS
  PROVE  /\ Window(w, bridge) \in Bridge
         /\ Window(w, bridge).allowed = w.bridges[bridge].allowed
<1> DEFINE info == w.bridges[bridge]
           now == w.t
<1>1. info \in Bridge /\ now \in Int
  BY WorldTypes DEF WorldOK
<1>2. Window(w, bridge) = IF now >= info.windowStart + DAY
                          THEN [info EXCEPT !.windowStart = now, !.minted = 0] ELSE info
  BY DEF Window
<1> HIDE DEF info, now
<1> DEFINE moved == [info EXCEPT !.windowStart = now]
           new == [moved EXCEPT !.minted = 0]
<1>3. moved \in Bridge /\ moved.allowed = info.allowed
  BY <1>1 DEF Bridge
<1> HIDE DEF moved
<1>4. new \in Bridge /\ new.allowed = info.allowed
  BY <1>3 DEF Bridge
<1> HIDE DEF new
<1>5. QED BY <1>1, <1>2, <1>4 DEF info, moved, new

LEMMA bridgeMintOK ==
  ASSUME NEW w, WorldOK(w), NEW from \in ACTORS, NEW to \in ACTORS, NEW amount \in Int,
         amount >= 0 \/ to = "mallory"
  PROVE  LET r == bridgeMint(w, from, to, amount)
         IN /\ Right(w, r)
            /\ r.ok => r.world.float = w.float /\ r.world.supply = w.supply + amount
            /\ ~r.ok => PegSame(w, r.world) /\ r.failed = "bridgeMint"
<1> DEFINE info == Window(w, from)
           bridges == [w.bridges EXCEPT ![from] = [info EXCEPT !.minted = @ + amount]]
           b == w.bal
           purses == Plus(b, to, amount)
           supply == w.supply + amount
           x == [w EXCEPT !.bridges = bridges, !.supply = supply, !.bal = purses]
           F == {"bridges", "supply", "bal"}
           needs == info.allowed /\ info.minted + amount <= info.cap
           r == bridgeMint(w, from, to, amount)
<1>1. info \in Bridge /\ info.allowed = w.bridges[from].allowed
  BY WindowType
<1>2. r = call(w, "bridgeMint", from, needs, x)
  BY DEF bridgeMint, Plus
<1> HIDE DEF info
<1>3. needs \in BOOLEAN
  BY <1>1 DEF Bridge
<1>4. needs => w.deployed
  BY <1>1, Deployed DEF Bridge
<1>5. bridges \in [ACTORS -> Bridge]
  <2>1. [info EXCEPT !.minted = @ + amount] \in Bridge
    BY <1>1 DEF Bridge
  <2>2. QED BY <2>1, OwnershipTypes
<1>6. /\ b \in Purses /\ b = w.bal /\ b \in [HOLDERS -> Int] /\ to \in HOLDERS /\ to # "escrow"
      /\ "escrow" \in HOLDERS
  BY MoveTypes, EscrowCovers DEF Purses
<1> HIDE DEF b, needs, r, bridges
<1>7. /\ purses \in [HOLDERS -> Int] /\ purses[to] = b[to] + amount
      /\ \A c \in HOLDERS : c # to => purses[c] = b[c]
      /\ HeldBy(purses) = HeldBy(b) + amount
  <2>1. HeldBy(purses) = HeldBy(b) + amount
    BY <1>6, PlusHeld
  <2>2. QED BY <1>6, <2>1, PlusFacts
<1> HIDE DEF purses
<1>8. purses \in Purses /\ \A c \in HOLDERS \ {"mallory"} : purses[c] >= b[c]
  BY <1>6, <1>7 DEF Purses
<1>9. supply \in Int /\ supply = w.supply + amount
  BY WorldTypes DEF WorldOK
<1> HIDE DEF supply
<1>10. Only(w, x, F) /\ x.bridges = bridges /\ x.supply = supply /\ x.bal = purses
  <2>1. "bridges" \in Fields /\ "supply" \in Fields /\ "bal" \in Fields /\ Shape(w)
    BY FieldNames DEF WorldOK, IsWorld
  <2>2. QED BY <2>1 DEF Only, Shape
<1> HIDE DEF x
<1>11. \A f \in F : x[f] \in Types[f]
  <2>1. Types.bridges = [ACTORS -> Bridge] /\ Types.supply = Int /\ Types.bal = Purses
    BY TypesOf
  <2>2. QED BY <1>5, <1>8, <1>9, <1>10, <2>1
<1>12. /\ x.deposits = w.deposits /\ x.earnings = w.earnings /\ x.mpesa = w.mpesa
       /\ x.float = w.float /\ x.allow = w.allow
  BY <1>10, FieldNames DEF Only
<1>13. Money(x)
  <2>1. /\ w.bal["escrow"] = TotalOf(w.deposits) + TotalOf(w.earnings) /\ HeldBy(w.bal) = w.supply
        /\ TotalOf(w.mpesa) + w.float = Phones
    BY DEF WorldOK, Money
  <2>2. purses["escrow"] = w.bal["escrow"] /\ HeldBy(purses) = supply
    BY <1>6, <1>7, <1>9, <2>1
  <2>3. QED BY <1>10, <1>12, <2>1, <2>2 DEF Money
<1>14. ASSUME NEW c \in Clients
       PROVE  /\ \A s \in SPENDERS : x.allow[c][s] <= w.allow[c][s]
              /\ Holdings(x, c) >= Holdings(w, c)
  <2>1. c \in ACTORS /\ c \in HOLDERS \ {"mallory"}
    BY DEF ACTORS, HOLDERS, Clients
  <2>2. /\ w.bal[c] \in Int /\ w.deposits[c] \in Int /\ purses[c] \in Int
        /\ \A s \in SPENDERS : w.allow[c][s] \in Nat
    BY <1>6, <1>7, <2>1, MoveTypes DEF Purses
  <2>3. purses[c] >= w.bal[c]
    BY <1>6, <1>8, <2>1
  <2>4. QED BY <1>10, <1>12, <2>2, <2>3 DEF Holdings
<1>15. needs => After(w, x, from)
  <2>1. /\ F \subseteq Fields
        /\ F \cap (SessionFields \cup {"price", "beneficiary", "eth", "devices", "channels"}) = {}
    BY FieldNames DEF SessionFields
  <2> HIDE DEF F
  <2>2. QED BY <1>4, <1>10, <1>11, <1>13, <1>14, <2>1, MoneyAfter
<1>16. QED BY <1>2, <1>3, <1>9, <1>10, <1>12, <1>15, CallMade DEF r, PegSame

LEMMA bridgeBurnOK ==
  ASSUME NEW w, WorldOK(w), NEW from \in ACTORS, NEW amount \in Nat
  PROVE  LET r == bridgeBurn(w, from, amount)
         IN /\ Right(w, r)
            /\ r.ok => r.world.float = w.float /\ r.world.supply = w.supply - amount
            /\ ~r.ok => PegSame(w, r.world) /\ r.failed = "bridgeBurn"
<1> DEFINE b == w.bal
           purses == Plus(b, from, -amount)
           supply == w.supply - amount
           x == [w EXCEPT !.bal = purses, !.supply = supply]
           F == {"supply", "bal"}
           needs == w.bridges[from].allowed /\ w.bal[from] >= amount
           r == bridgeBurn(w, from, amount)
<1>1. /\ b \in Purses /\ b = w.bal /\ b \in [HOLDERS -> Int] /\ from \in HOLDERS /\ from # "escrow"
      /\ "escrow" \in HOLDERS /\ b[from] \in Int /\ -amount \in Int /\ w.bridges \in [ACTORS -> Bridge]
  BY MoveTypes, EscrowCovers, OwnershipTypes DEF Purses
<1>2. r = call(w, "bridgeBurn", from, needs, x)
  <2>1. [w.bal EXCEPT ![from] = @ - amount] = purses
    <3>1. b[from] - amount = b[from] + (-amount)
      BY <1>1
    <3> HIDE DEF b
    <3>2. QED BY <1>1, <3>1 DEF Plus
  <2> HIDE DEF purses
  <2>2. [w EXCEPT !.bal[from] = @ - amount, !.supply = @ - amount] = x
    BY <2>1
  <2> HIDE DEF x
  <2>3. QED BY <2>2 DEF bridgeBurn
<1>3. needs \in BOOLEAN
  BY <1>1 DEF Bridge
<1>4. needs => w.deployed /\ b[from] - amount >= 0
  BY <1>1, Deployed DEF Bridge
<1> HIDE DEF b, needs, r
<1>5. /\ purses \in [HOLDERS -> Int] /\ purses[from] = b[from] + (-amount)
      /\ \A c \in HOLDERS : c # from => purses[c] = b[c]
      /\ HeldBy(purses) = HeldBy(b) + (-amount)
  <2>1. HeldBy(purses) = HeldBy(b) + (-amount)
    BY <1>1, PlusHeld
  <2>2. QED BY <1>1, <2>1, PlusFacts
<1> HIDE DEF purses
<1>6. needs => purses \in Purses
  BY <1>1, <1>4, <1>5 DEF Purses
<1>7. supply \in Int /\ supply = w.supply - amount /\ w.supply \in Int
  BY WorldTypes DEF WorldOK
<1> HIDE DEF supply
<1>8. Only(w, x, F) /\ x.supply = supply /\ x.bal = purses
  <2>1. "supply" \in Fields /\ "bal" \in Fields /\ Shape(w)
    BY FieldNames DEF WorldOK, IsWorld
  <2>2. QED BY <2>1 DEF Only, Shape
<1> HIDE DEF x
<1>9. needs => \A f \in F : x[f] \in Types[f]
  <2>1. Types.supply = Int /\ Types.bal = Purses
    BY TypesOf
  <2>2. QED BY <1>6, <1>7, <1>8, <2>1
<1>10. /\ x.deposits = w.deposits /\ x.earnings = w.earnings /\ x.mpesa = w.mpesa
       /\ x.float = w.float /\ x.allow = w.allow
  BY <1>8, FieldNames DEF Only
<1>11. Money(x)
  <2>1. /\ w.bal["escrow"] = TotalOf(w.deposits) + TotalOf(w.earnings) /\ HeldBy(w.bal) = w.supply
        /\ TotalOf(w.mpesa) + w.float = Phones
    BY DEF WorldOK, Money
  <2>2. purses["escrow"] = w.bal["escrow"] /\ HeldBy(purses) = supply
    BY <1>1, <1>5, <1>7, <2>1
  <2>3. QED BY <1>8, <1>10, <2>1, <2>2 DEF Money
<1>12. ASSUME NEW c \in Clients \ {from}
       PROVE  /\ \A s \in SPENDERS : x.allow[c][s] <= w.allow[c][s]
              /\ Holdings(x, c) >= Holdings(w, c)
  <2>1. c \in ACTORS /\ c \in HOLDERS
    BY DEF ACTORS, HOLDERS, Clients
  <2>2. /\ w.bal[c] \in Int /\ w.deposits[c] \in Int /\ purses[c] = w.bal[c]
        /\ \A s \in SPENDERS : w.allow[c][s] \in Nat
    BY <1>1, <1>5, <2>1, MoveTypes
  <2>3. QED BY <1>8, <1>10, <2>2 DEF Holdings
<1>13. needs => After(w, x, from)
  <2>1. /\ F \subseteq Fields
        /\ F \cap (SessionFields \cup {"price", "beneficiary", "eth", "devices", "channels"}) = {}
    BY FieldNames DEF SessionFields
  <2> HIDE DEF F
  <2>2. QED BY <1>4, <1>8, <1>9, <1>11, <1>12, <2>1, MoneyAfter
<1>14. QED BY <1>2, <1>3, <1>7, <1>8, <1>10, <1>13, CallMade DEF r, PegSame

\* KES that move between a phone and the float.
LEMMA PaidAfter ==
  ASSUME NEW w, WorldOK(w), NEW who \in ACTORS, NEW n \in Int, w.mpesa[who] + n >= 0,
         w.float - n >= 0, NEW x, Only(w, x, {"mpesa", "float"}),
         x.mpesa = Plus(w.mpesa, who, n), x.float = w.float - n
  PROVE  WorldOK(x) /\ AllSpared(w, x) /\ x.supply = w.supply
<1> DEFINE F == {"mpesa", "float"}
<1>1. w.mpesa \in [ACTORS -> Nat] /\ w.float \in Nat
  BY WorldTypes DEF WorldOK
<1>2. /\ x.mpesa \in [ACTORS -> Nat] /\ TotalOf(x.mpesa) = TotalOf(w.mpesa) + n
      /\ TotalOf(w.mpesa) \in Nat
  BY <1>1, AddedAmount
<1>3. x.float \in Nat
  BY <1>1
<1>4. IsWorld(x)
  <2>1. Types.mpesa = [ACTORS -> Nat] /\ Types.float = Nat
    BY TypesOf
  <2>2. \A f \in F : x[f] \in Types[f]
    BY <1>2, <1>3, <2>1
  <2>3. F \subseteq Fields /\ Only(w, x, F) /\ IsWorld(w)
    BY FieldNames DEF WorldOK
  <2> HIDE DEF F
  <2>4. QED BY <2>2, <2>3, ChangedWorld
<1>5. /\ x.bal = w.bal /\ x.deposits = w.deposits /\ x.earnings = w.earnings
      /\ x.supply = w.supply
  BY FieldNames DEF Only
<1>6. Money(x)
  <2>1. /\ w.bal["escrow"] = TotalOf(w.deposits) + TotalOf(w.earnings) /\ HeldBy(w.bal) = w.supply
        /\ TotalOf(w.mpesa) + w.float = Phones
    BY DEF WorldOK, Money
  <2>2. TotalOf(x.mpesa) + x.float = Phones
    BY <1>1, <1>2, <2>1
  <2>3. QED BY <1>5, <2>1, <2>2 DEF Money
<1>7. F \cap DeploymentFields = {} /\ F \cap SessionFields = {} /\ F \cap HoldingFields = {}
  BY DEF DeploymentFields, SessionFields, HoldingFields
<1> HIDE DEF F
<1>8. Only(w, x, F)
  BY DEF F
<1>9. Deployment(x) /\ SessionOK(x) /\ AllSpared(w, x)
  BY <1>7, <1>8, DeploymentSame, SessionSame, SparedAside DEF WorldOK
<1>10. QED BY <1>4, <1>5, <1>6, <1>9 DEF WorldOK

LEMMA stkPushOK ==
  ASSUME NEW w, WorldOK(w), NEW client \in ACTORS, NEW amount \in Nat, NEW fail \in BOOLEAN
  PROVE  LET r == stkPush(w, client, amount, fail)
         IN /\ Right(w, r)
            /\ r.ok => r.world.float = w.float + amount /\ r.world.supply = w.supply
            /\ ~r.ok => r.world = w /\ r.failed = "stkPush"
<1> DEFINE mpesa == [w.mpesa EXCEPT ![client] = @ - amount]
           float == w.float + amount
           x == [w EXCEPT !.mpesa = mpesa, !.float = float]
           needs == ~fail /\ w.mpesa[client] >= amount
           r == stkPush(w, client, amount, fail)
<1>1. w.mpesa \in [ACTORS -> Nat] /\ w.mpesa[client] \in Nat /\ w.float \in Nat
  BY WorldTypes DEF WorldOK
<1>2. r = callOff(w, "stkPush", needs, x, None)
  BY DEF stkPush
<1>3. needs \in BOOLEAN
  OBVIOUS
<1>4. mpesa = Plus(w.mpesa, client, -amount) /\ float = w.float - (-amount) /\ -amount \in Int
  BY <1>1 DEF Plus
<1>5. needs => w.mpesa[client] + (-amount) >= 0 /\ w.float - (-amount) >= 0
  BY <1>1
<1>6. float = w.float + amount
  OBVIOUS
<1> HIDE DEF mpesa, float, needs, r
<1>7. Only(w, x, {"mpesa", "float"}) /\ x.mpesa = mpesa /\ x.float = float
  <2>1. "mpesa" \in Fields /\ "float" \in Fields /\ Shape(w)
    BY FieldNames DEF WorldOK, IsWorld
  <2>2. QED BY <2>1, Zenon DEF Only, Shape
<1> HIDE DEF x
<1>8. needs => WorldOK(x) /\ AllSpared(w, x) /\ x.supply = w.supply
  BY <1>4, <1>5, <1>7, PaidAfter
<1>9. QED BY <1>2, <1>3, <1>6, <1>7, <1>8, CallOffMade DEF r

LEMMA b2cPayoutOK ==
  ASSUME NEW w, WorldOK(w), NEW to \in ACTORS, NEW amount \in Nat, NEW fail \in BOOLEAN
  PROVE  LET r == b2cPayout(w, to, amount, fail)
         IN /\ Right(w, r)
            /\ r.ok => r.world.float = w.float - amount /\ r.world.supply = w.supply
            /\ ~r.ok => r.world = w /\ r.failed = "b2cPayout"
<1> DEFINE mpesa == [w.mpesa EXCEPT ![to] = @ + amount]
           float == w.float - amount
           x == [w EXCEPT !.float = float, !.mpesa = mpesa]
           needs == ~fail /\ w.float >= amount
           r == b2cPayout(w, to, amount, fail)
<1>1. w.mpesa \in [ACTORS -> Nat] /\ w.mpesa[to] \in Nat /\ w.float \in Nat
  BY WorldTypes DEF WorldOK
<1>2. r = callOff(w, "b2cPayout", needs, x, None)
  BY DEF b2cPayout
<1>3. needs \in BOOLEAN
  OBVIOUS
<1>4. mpesa = Plus(w.mpesa, to, amount) /\ float = w.float - amount /\ amount \in Int
  BY <1>1 DEF Plus
<1>5. needs => w.mpesa[to] + amount >= 0 /\ w.float - amount >= 0
  BY <1>1
<1> HIDE DEF mpesa, float, needs, r
<1>6. Only(w, x, {"mpesa", "float"}) /\ x.mpesa = mpesa /\ x.float = float
  <2>1. "mpesa" \in Fields /\ "float" \in Fields /\ Shape(w)
    BY FieldNames DEF WorldOK, IsWorld
  <2>2. QED BY <2>1, Zenon DEF Only, Shape
<1> HIDE DEF x
<1>7. needs => WorldOK(x) /\ AllSpared(w, x) /\ x.supply = w.supply
  BY <1>4, <1>5, <1>6, PaidAfter
<1>8. QED BY <1>2, <1>3, <1>4, <1>6, <1>7, CallOffMade DEF r

-----------------------------------------------------------------------------
(* Deployment. *)

LEMMA deployOK ==
  ASSUME NEW w, WorldOK(w), ~w.deployed
  PROVE  /\ WorldOK(deploy(w)) /\ AllSpared(w, deploy(w)) /\ PegSame(w, deploy(w))
         /\ deploy(w).params = w.params
<1> DEFINE x == deploy(w)
           F == {"deployed", "owner", "fee", "beneficiary", "price", "lastPriceChange"}
           owners == [c \in CONTRACTS |-> "owner"]
           fee == w.params.fee  price == w.params.price  now == w.t
<1>1. Only(w, x, F) /\ x.deployed = TRUE /\ x.owner = owners /\ x.fee = fee
      /\ x.beneficiary = "founder" /\ x.price = price /\ x.lastPriceChange = now
  <2>1. /\ "deployed" \in Fields /\ "owner" \in Fields /\ "fee" \in Fields /\ Shape(w)
        /\ "beneficiary" \in Fields /\ "price" \in Fields /\ "lastPriceChange" \in Fields
    BY FieldNames DEF WorldOK, IsWorld
  <2>2. x = [w EXCEPT !.deployed = TRUE, !.owner = owners, !.fee = fee, !.beneficiary = "founder",
                      !.price = price, !.lastPriceChange = now]
    BY DEF deploy
  <2> HIDE DEF x, owners, fee, price, now
  <2>3. QED BY <2>1, <2>2, Zenon DEF Only, Shape
<1> HIDE DEF x
<1>2. w.params \in Params /\ fee \in Fee /\ price \in Nat /\ price > 0 /\ now \in Nat
  BY WorldTypes DEF WorldOK, Params, Price
<1>3. owners \in [CONTRACTS -> ACTORS \cup {None}] /\ "founder" \in ACTORS
  BY DEF ACTORS
<1> HIDE DEF owners, fee, price, now
<1>4. IsWorld(x)
  <2>1. /\ Types.deployed = BOOLEAN /\ Types.owner = [CONTRACTS -> ACTORS \cup {None}]
        /\ Types.fee = Fee /\ Types.beneficiary = ACTORS \cup {None} /\ Types.price = Nat
        /\ Types.lastPriceChange = Nat
    BY TypesOf
  <2>2. \A f \in F : x[f] \in Types[f]
    BY <1>1, <1>2, <1>3, <2>1
  <2>3. F \subseteq Fields /\ IsWorld(w)
    BY FieldNames DEF WorldOK
  <2>4. Only(w, x, F)
    BY <1>1
  <2> HIDE DEF F
  <2>5. QED BY <2>2, <2>3, <2>4, ChangedWorld
<1>5. Deployment(x)
  BY <1>1, <1>2, <1>3 DEF Deployment
<1>6. SessionOK(x)
  <2>1. x.session = w.session
    BY <1>1, FieldNames DEF Only
  <2>2. ~w.session.open
    BY DEF WorldOK, SessionOK
  <2>3. QED BY <2>1, <2>2 DEF SessionOK
<1>7. Money(x) /\ AllSpared(w, x)
  <2>1. F \cap MoneyFields = {} /\ F \cap HoldingFields = {}
    BY DEF MoneyFields, HoldingFields
  <2>2. Only(w, x, F)
    BY <1>1
  <2> HIDE DEF F
  <2>3. QED BY <2>1, <2>2, MoneySame, SparedAside DEF WorldOK
<1>8. PegSame(w, x) /\ x.params = w.params
  BY <1>1, PegAside, FieldNames DEF Only
<1>9. QED BY <1>4, <1>5, <1>6, <1>7, <1>8 DEF WorldOK, x

-----------------------------------------------------------------------------
(* Settlement. *)

LEMMA SettledStep ==
  ASSUME NEW w, NEW tickets, Len(tickets) \in Nat
  PROVE  Settled(w, tickets) =
             [i \in 0 .. Len(tickets) |->
                 IF i = 0 THEN [ok |-> TRUE, world |-> w, gross |-> 0, fee |-> 0]
                 ELSE SettleTicket(Settled(w, tickets)[i - 1], tickets[i])]
<1> DEFINE n == Len(tickets)
           first == [ok |-> TRUE, world |-> w, gross |-> 0, fee |-> 0]
           Unfolds(s, k) == s = [i \in 0 .. k |-> IF i = 0 THEN first
                                                 ELSE SettleTicket(s[i - 1], tickets[i])]
           P == {k \in 0 .. n : \E s : Unfolds(s, k)}
<1> HIDE DEF first
<1>1. 0 \in P
  <2> DEFINE g == [i \in 0 .. 0 |-> first]
  <2>1. Unfolds(g, 0)
    OBVIOUS
  <2>2. 0 \in 0 .. n
    OBVIOUS
  <2> HIDE DEF Unfolds, n, g
  <2>3. QED BY <2>1, <2>2
<1>2. ASSUME NEW k \in 0 .. n, k < n, k \in P PROVE k + 1 \in P
  <2>1. PICK s : Unfolds(s, k)
    BY <1>2
  <2> DEFINE g == [i \in 0 .. k + 1 |-> IF i = k + 1 THEN SettleTicket(s[k], tickets[k + 1]) ELSE s[i]]
  <2>2. Unfolds(g, k + 1)
    BY <2>1
  <2>3. k + 1 \in 0 .. n
    BY <1>2
  <2> HIDE DEF Unfolds
  <2>4. QED BY <2>2, <2>3
<1>3. n \in P
  <2> HIDE DEF P
  <2>1. n \in Nat
    OBVIOUS
  <2> HIDE DEF n
  <2>2. \A k \in 0 .. n : k < n /\ k \in P => k + 1 \in P
    BY <1>2
  <2>3. n \in 0 .. n
    BY <2>1
  <2>4. \A k \in 0 .. n : k \in P
    BY <1>1, <2>1, <2>2, SetInduction
  <2>5. QED BY <2>3, <2>4
<1>4. Settled(w, tickets) = CHOOSE s : Unfolds(s, n)
  BY DEF Settled, first
<1>5. \E s : Unfolds(s, n)
  BY <1>3
<1> HIDE DEF Unfolds
<1>6. Unfolds(Settled(w, tickets), n)
  BY <1>4, <1>5
<1>7. QED BY <1>6 DEF Unfolds, first

\* What is charged is not more than what is paid.
LEMMA FeeOfPaid ==
  ASSUME NEW paid \in Nat, NEW rate \in Fee
  PROVE  (paid * rate) \div 100 \in Nat /\ (paid * rate) \div 100 <= paid
<1>1. rate \in Nat /\ rate <= 100
  BY DEF Fee
<1>2. paid * rate \in Nat /\ paid * rate <= paid * 100
  BY <1>1
<1> DEFINE p == paid * rate
<1>3. p \in Nat /\ p <= paid * 100
  BY <1>2
<1> HIDE DEF p
<1>4. p \div 100 \in Nat /\ p \div 100 <= paid
  BY <1>3
<1>5. QED BY <1>4 DEF p

BatchFields == {"channels", "deposits", "earnings"}

\* What a batch did to the world w so far.
BatchOK(w, b) ==
    LET x == b.world
    IN /\ b = [ok |-> b.ok, world |-> x, gross |-> b.gross, fee |-> b.fee]
       /\ b.ok \in BOOLEAN /\ b.gross \in Nat /\ b.fee \in Nat
       /\ Only(w, x, BatchFields)
       /\ x.channels \in [Clients -> Channel] /\ x.deposits \in [ACTORS -> Nat]
       /\ x.earnings \in [ACTORS -> Nat]
       /\ TotalOf(x.deposits) + b.gross = TotalOf(w.deposits)
       /\ TotalOf(x.earnings) + b.fee = TotalOf(w.earnings) + b.gross
       /\ \A c \in Clients :
             \/ x.channels[c].seq > w.channels[c].seq
             \/ x.channels[c].seq = w.channels[c].seq /\ x.deposits[c] = w.deposits[c]

LEMMA BatchStep ==
  ASSUME NEW w, WorldOK(w), NEW b, BatchOK(w, b), NEW tk \in Ticket
  PROVE  BatchOK(w, SettleTicket(b, tk))
<1> DEFINE x == b.world
           c == tk.client
           paid == Min2((tk.units - x.channels[c].units) * x.price, x.deposits[c])
           fee == (paid * x.fee) \div 100
           chan == [seq |-> tk.seq, units |-> tk.units]
           y == [x EXCEPT !.channels[c] = chan, !.deposits[c] = @ - paid,
                          !.earnings["node"] = @ + paid - fee]
           r == SettleTicket(b, tk)
<1>0. b = [ok |-> b.ok, world |-> x, gross |-> b.gross, fee |-> b.fee]
  BY DEF BatchOK
<1>1. /\ b.ok \in BOOLEAN /\ b.gross \in Nat /\ b.fee \in Nat
      /\ Only(w, x, BatchFields)
      /\ x.channels \in [Clients -> Channel] /\ x.deposits \in [ACTORS -> Nat]
      /\ x.earnings \in [ACTORS -> Nat]
      /\ TotalOf(x.deposits) + b.gross = TotalOf(w.deposits)
      /\ TotalOf(x.earnings) + b.fee = TotalOf(w.earnings) + b.gross
      /\ \A d \in Clients :
            \/ x.channels[d].seq > w.channels[d].seq
            \/ x.channels[d].seq = w.channels[d].seq /\ x.deposits[d] = w.deposits[d]
  BY DEF BatchOK
<1>2. x.price \in Nat /\ x.fee \in Fee
  BY <1>1, FieldNames, WorldTypes DEF Only, BatchFields, WorldOK
<1>3. /\ c \in Clients /\ c \in ACTORS /\ tk.units \in Nat /\ tk.seq \in Nat /\ "node" \in ACTORS
      /\ c # "node"
  BY DEF Ticket, ACTORS, Clients
<1>4. CASE ~(b.ok /\ TicketHolds(x, tk))
  <2>1. r = [b EXCEPT !.ok = FALSE]
    BY <1>4 DEF SettleTicket
  <2>2. r = [ok |-> FALSE, world |-> x, gross |-> b.gross, fee |-> b.fee]
    BY <1>0, <2>1
  <2> HIDE DEF r, x
  <2>3. /\ r = [ok |-> r.ok, world |-> r.world, gross |-> r.gross, fee |-> r.fee]
        /\ r.ok \in BOOLEAN /\ r.world = x /\ r.gross = b.gross /\ r.fee = b.fee
    BY <2>2
  <2>4. BatchOK(w, r)
    BY <1>1, <2>3 DEF BatchOK
  <2>5. QED BY <2>4 DEF r
<1>5. CASE b.ok /\ TicketHolds(x, tk)
  <2>1. tk.units > x.channels[c].units /\ tk.seq > x.channels[c].seq
    BY <1>5 DEF TicketHolds
  <2>2. paid \in Nat /\ paid <= x.deposits[c]
    <3>1. x.channels[c].units \in Nat /\ x.deposits[c] \in Nat
      BY <1>1, <1>3 DEF Channel
    <3> DEFINE used == tk.units - x.channels[c].units
               owed == used * x.price
    <3>2. used \in Nat
      BY <1>3, <2>1, <3>1
    <3> HIDE DEF used
    <3>3. owed \in Nat
      BY <1>2, <3>2
    <3>4. paid = Min2(owed, x.deposits[c])
      BY DEF used
    <3> HIDE DEF owed, paid
    <3>5. QED BY <3>1, <3>3, <3>4 DEF Min2
  <2>3. fee \in Nat /\ fee <= paid
    <3> HIDE DEF paid, x
    <3>1. QED BY <1>2, <2>2, FeeOfPaid
  <2>4. r = [ok |-> TRUE, gross |-> b.gross + paid, fee |-> b.fee + fee, world |-> y]
    BY <1>5 DEF SettleTicket
  <2> HIDE DEF paid, fee, r
  <2>5. /\ Only(x, y, BatchFields)
        /\ y.channels = [x.channels EXCEPT ![c] = chan]
        /\ y.deposits = [x.deposits EXCEPT ![c] = @ - paid]
        /\ y.earnings = [x.earnings EXCEPT !["node"] = @ + paid - fee]
    <3>1. Shape(x) /\ "channels" \in Fields /\ "deposits" \in Fields /\ "earnings" \in Fields
      BY <1>1, FieldNames DEF Only
    <3> DEFINE dep == x.deposits[c] - paid
               earn == x.earnings["node"] + paid - fee
    <3>2. y = [x EXCEPT !.channels[c] = chan, !.deposits[c] = dep, !.earnings["node"] = earn]
      OBVIOUS
    <3> HIDE DEF chan, dep, earn, x, y, c
    <3>3. /\ Only(x, y, BatchFields)
          /\ y.channels = [x.channels EXCEPT ![c] = chan]
          /\ y.deposits = [x.deposits EXCEPT ![c] = dep]
          /\ y.earnings = [x.earnings EXCEPT !["node"] = earn]
      BY <3>1, <3>2, Zenon DEF Only, Shape, BatchFields
    <3>4. QED BY <3>3 DEF dep, earn
  <2> HIDE DEF y
  <2>6. y.channels \in [Clients -> Channel] /\ y.channels[c].seq = tk.seq
    BY <1>1, <1>3, <2>5 DEF Channel
  <2>7. \A d \in Clients : d # c => y.channels[d] = x.channels[d] /\ y.deposits[d] = x.deposits[d]
    BY <1>1, <1>3, <2>5 DEF ACTORS
  <2>8. /\ y.deposits \in [ACTORS -> Nat]
        /\ TotalOf(y.deposits) = TotalOf(x.deposits) + (-paid) /\ TotalOf(x.deposits) \in Nat
    <3>1. -paid \in Int /\ x.deposits[c] + (-paid) >= 0 /\ x.deposits[c] \in Nat
      BY <1>1, <1>3, <2>2
    <3> DEFINE f == Plus(x.deposits, c, -paid)
    <3>2. y.deposits = f
      BY <1>1, <1>3, <2>2, <2>5 DEF Plus
    <3>3. /\ f \in [ACTORS -> Nat]
          /\ TotalOf(f) = TotalOf(x.deposits) + (-paid) /\ TotalOf(x.deposits) \in Nat
      BY <1>1, <1>3, <3>1, AddedAmount
    <3> HIDE DEF f
    <3>4. QED BY <3>2, <3>3
  <2>9. /\ y.earnings \in [ACTORS -> Nat]
        /\ TotalOf(y.earnings) = TotalOf(x.earnings) + (paid - fee) /\ TotalOf(x.earnings) \in Nat
    <3>1. paid - fee \in Int /\ x.earnings["node"] + (paid - fee) >= 0 /\ x.earnings["node"] \in Nat
      BY <1>1, <1>3, <2>2, <2>3
    <3> DEFINE f == Plus(x.earnings, "node", paid - fee)
    <3>2. y.earnings = f
      BY <1>1, <1>3, <2>2, <2>3, <2>5 DEF Plus
    <3>3. /\ f \in [ACTORS -> Nat]
          /\ TotalOf(f) = TotalOf(x.earnings) + (paid - fee) /\ TotalOf(x.earnings) \in Nat
      BY <1>1, <1>3, <3>1, AddedAmount
    <3> HIDE DEF f
    <3>4. QED BY <3>2, <3>3
  <2>10. r.ok = TRUE /\ r.world = y /\ r.gross = b.gross + paid /\ r.fee = b.fee + fee
    BY <2>4
  <2>0. r = [ok |-> r.ok, world |-> r.world, gross |-> r.gross, fee |-> r.fee]
    BY <2>4
  <2>11. Only(w, y, BatchFields)
    BY <1>1, <2>5, OnlyTwice DEF Only
  <2>12. \A d \in Clients :
            \/ y.channels[d].seq > w.channels[d].seq
            \/ y.channels[d].seq = w.channels[d].seq /\ y.deposits[d] = w.deposits[d]
    <3>1. y.channels[c].seq > w.channels[c].seq
      <4>1. /\ x.channels[c].seq > w.channels[c].seq \/ x.channels[c].seq = w.channels[c].seq
            /\ y.channels[c].seq > x.channels[c].seq
        BY <1>1, <1>3, <2>1, <2>6
      <4>2. x.channels[c].seq \in Nat /\ y.channels[c].seq \in Nat /\ w.channels[c].seq \in Nat
        BY <1>1, <1>3, <2>6, WorldTypes DEF Channel, WorldOK
      <4>3. QED BY <4>1, <4>2
    <3>2. ASSUME NEW d \in Clients, d # c
          PROVE  \/ y.channels[d].seq > w.channels[d].seq
                 \/ y.channels[d].seq = w.channels[d].seq /\ y.deposits[d] = w.deposits[d]
      BY <1>1, <2>7, <3>2
    <3>3. QED BY <3>1, <3>2
  <2>13. TotalOf(y.deposits) + r.gross = TotalOf(w.deposits)
    BY <1>1, <2>2, <2>8, <2>10
  <2>14. TotalOf(y.earnings) + r.fee = TotalOf(w.earnings) + r.gross
    <3>1. TotalOf(w.earnings) \in Nat
      BY MoveTypes
    <3> DEFINE tw == TotalOf(w.earnings)  tx == TotalOf(x.earnings)  ty == TotalOf(y.earnings)
               gross == b.gross  charged == b.fee
    <3>2. /\ ty = tx + (paid - fee) /\ tx + charged = tw + gross
          /\ tw \in Nat /\ tx \in Nat /\ gross \in Nat /\ charged \in Nat
          /\ paid \in Nat /\ fee \in Nat
      BY <1>1, <2>2, <2>3, <2>9, <3>1
    <3>3. r.fee = charged + fee /\ r.gross = gross + paid
      BY <2>10
    <3> HIDE DEF tw, tx, ty, gross, charged
    <3>4. ty + (charged + fee) = tw + (gross + paid)
      BY <3>2
    <3>5. QED BY <3>3, <3>4 DEF tw, ty
  <2>15. r.gross \in Nat /\ r.fee \in Nat
    BY <1>1, <2>2, <2>3, <2>10
  <2>16. BatchOK(w, r)
    <3> HIDE DEF x, c
    <3>1. QED BY <2>0, <2>6, <2>8, <2>9, <2>10, <2>11, <2>12, <2>13, <2>14, <2>15 DEF BatchOK
  <2>17. QED BY <2>16 DEF r
<1>6. QED BY <1>4, <1>5

LEMMA SettledOK ==
  ASSUME NEW w, WorldOK(w), NEW tickets \in Seq(Ticket)
  PROVE  BatchOK(w, Settled(w, tickets)[Len(tickets)])
<1> DEFINE n == Len(tickets)
           batch == Settled(w, tickets)
           first == [ok |-> TRUE, world |-> w, gross |-> 0, fee |-> 0]
           P == {i \in 0 .. n : BatchOK(w, batch[i])}
<1>1. n \in Nat /\ \A i \in 1 .. n : tickets[i] \in Ticket
  OBVIOUS
<1>2. batch = [i \in 0 .. n |-> IF i = 0 THEN first ELSE SettleTicket(batch[i - 1], tickets[i])]
  BY <1>1, SettledStep
<1> HIDE DEF n, batch
<1>3. 0 \in P
  <2>1. /\ first = [ok |-> first.ok, world |-> w, gross |-> first.gross, fee |-> first.fee]
        /\ first.ok \in BOOLEAN /\ first.world = w /\ first.gross = 0 /\ first.fee = 0
    OBVIOUS
  <2>2. /\ Only(w, w, BatchFields) /\ w.channels \in [Clients -> Channel]
        /\ w.deposits \in [ACTORS -> Nat] /\ w.earnings \in [ACTORS -> Nat]
    BY WorldTypes DEF Only, WorldOK, IsWorld
  <2>3. TotalOf(w.deposits) \in Nat /\ TotalOf(w.earnings) \in Nat
    BY MoveTypes
  <2>4. batch[0] = first
    BY <1>1, <1>2
  <2> HIDE DEF first
  <2>5. BatchOK(w, first)
    BY <2>1, <2>2, <2>3 DEF BatchOK
  <2>6. QED BY <1>1, <2>4, <2>5
<1>4. ASSUME NEW i \in 0 .. n, i < n, i \in P PROVE i + 1 \in P
  <2>1. i + 1 \in 0 .. n /\ i + 1 # 0 /\ (i + 1) - 1 = i /\ i + 1 \in 1 .. n
    BY <1>1, <1>4
  <2>2. batch[i + 1] = SettleTicket(batch[i], tickets[i + 1])
    BY <1>2, <2>1
  <2>3. BatchOK(w, batch[i]) /\ tickets[i + 1] \in Ticket
    BY <1>1, <1>4, <2>1
  <2>4. BatchOK(w, SettleTicket(batch[i], tickets[i + 1]))
    BY <2>3, BatchStep
  <2>5. QED BY <2>1, <2>2, <2>4
<1>5. \A i \in 0 .. n : i < n /\ i \in P => i + 1 \in P
  BY <1>4
<1> HIDE DEF P
<1>6. \A i \in 0 .. n : i \in P
  BY <1>1, <1>3, <1>5, SetInduction
<1>7. n \in P
  BY <1>1, <1>6
<1>8. QED BY <1>7 DEF P, n, batch

LEMMA settleTicketBatchOK ==
  ASSUME NEW w, WorldOK(w), NEW from \in ACTORS, NEW tickets \in Seq(Ticket)
  PROVE  /\ Calm(w, settleTicketBatch(w, from, tickets))
         /\ ~settleTicketBatch(w, from, tickets).ok =>
                settleTicketBatch(w, from, tickets).failed = "settleTicketBatch"
<1> DEFINE b == Settled(w, tickets)[Len(tickets)]
           y == b.world
           n == b.fee
           x == Transferred(y, "escrow", "treasury", n)
           needs == tickets # << >> /\ b.ok /\ b.gross > 0
           F == BatchFields \cup {"bal"}
<1>1. BatchOK(w, b)
  BY SettledOK
<1>2. settleTicketBatch(w, from, tickets) = call(w, "settleTicketBatch", from, needs, x)
  BY DEF settleTicketBatch
<1> HIDE DEF b
<1>3. /\ b.ok \in BOOLEAN /\ b.gross \in Nat /\ n \in Nat /\ Only(w, y, BatchFields)
      /\ y.channels \in [Clients -> Channel] /\ y.deposits \in [ACTORS -> Nat]
      /\ y.earnings \in [ACTORS -> Nat]
      /\ TotalOf(y.deposits) + b.gross = TotalOf(w.deposits)
      /\ TotalOf(y.earnings) + n = TotalOf(w.earnings) + b.gross
      /\ \A c \in Clients :
             \/ y.channels[c].seq > w.channels[c].seq
             \/ y.channels[c].seq = w.channels[c].seq /\ y.deposits[c] = w.deposits[c]
  BY <1>1 DEF BatchOK
<1>4. needs \in BOOLEAN
  OBVIOUS
<1>5. ASSUME needs PROVE After(w, x, from) /\ PegSame(w, x)
  <2> DEFINE dw == TotalOf(w.deposits)  ew == TotalOf(w.earnings)
             dy == TotalOf(y.deposits)  ey == TotalOf(y.earnings)  gross == b.gross
  <2>1. /\ dw \in Nat /\ ew \in Nat /\ dy \in Nat /\ ey \in Nat
        /\ w.bal["escrow"] = dw + ew /\ w.bal \in Purses
    <3>1. TotalOf(y.deposits) \in Nat /\ TotalOf(y.earnings) \in Nat
      BY <1>3, AtMostTotal DEF ACTORS
    <3>2. QED BY <3>1, MoveTypes
  <2>2. gross \in Nat /\ gross > 0 /\ dy + gross = dw /\ ey + n = ew + gross /\ n \in Nat
    BY <1>3, <1>5
  <2>3. dw # 0 /\ w.deployed
    <3>1. dw # 0
      BY <2>1, <2>2
    <3>2. \E a \in ACTORS : w.deposits[a] # 0
      BY <3>1 DEF TotalOf, ACTORS, Clients
    <3>3. QED BY <3>1, <3>2, Deployed
  <2> DEFINE purses == Moved(y.bal, "escrow", "treasury", n)
             z == w.bal
  <2>4. /\ "escrow" \in HOLDERS /\ "treasury" \in HOLDERS /\ "escrow" # "treasury"
        /\ y.bal = z /\ Shape(y)
    BY <1>3, FieldNames DEF Only, HOLDERS, BatchFields
  <2>5. z \in Purses /\ z = w.bal /\ n <= z["escrow"] /\ z["escrow"] = dw + ew
    <3> HIDE DEF dw, ew, dy, ey, n, gross
    <3>1. QED BY <2>1, <2>2
  <2> HIDE DEF z
  <2>6. /\ purses \in Purses /\ HeldBy(purses) = HeldBy(z)
        /\ purses["escrow"] = z["escrow"] - n
        /\ \A c \in HOLDERS : c # "escrow" /\ c # "treasury" => purses[c] = z[c]
    BY <2>2, <2>4, <2>5, MovedPurse
  <2> HIDE DEF purses
  <2>7. Only(y, x, {"bal"}) /\ x.bal = purses
    BY <2>4, TransferredWorld DEF purses
  <2> HIDE DEF x
  <2>8. /\ Only(w, x, F) /\ x.channels = y.channels /\ x.deposits = y.deposits
        /\ x.earnings = y.earnings
    BY <1>3, <2>7, OnlyTwice, FieldNames DEF Only
  <2>9. /\ x.supply = w.supply /\ x.mpesa = w.mpesa /\ x.float = w.float /\ x.allow = w.allow
        /\ x.eth = w.eth /\ x.devices = w.devices
    BY <2>8, FieldNames DEF Only, BatchFields
  <2>10. x.bal["escrow"] = dy + ey
    <3> HIDE DEF dw, ew, dy, ey, n, gross
    <3>1. QED BY <2>1, <2>2, <2>5, <2>6, <2>7
  <2>11. Money(x)
    BY <2>5, <2>6, <2>7, <2>8, <2>9, <2>10 DEF Money, WorldOK
  <2>12. WorldOK(x)
    <3>1. \A f \in F : x[f] \in Types[f]
      <4>1. /\ x.channels \in Types.channels /\ x.deposits \in Types.deposits
            /\ x.earnings \in Types.earnings
        BY <1>3, <2>8, TypesOf
      <4>2. x.bal \in Types.bal
        BY <2>6, <2>7, TypesOf
      <4>3. QED BY <4>1, <4>2, Zenon DEF BatchFields
    <3>2. F \subseteq Fields /\ F \cap (SessionFields \cup {"price", "beneficiary"}) = {}
      BY FieldNames DEF BatchFields, SessionFields
    <3> HIDE DEF F
    <3>3. QED BY <2>3, <2>8, <2>11, <3>1, <3>2, MoneyMoved
  <2>13. ASSUME NEW c \in Clients PROVE Spared(w, x, c)
    <3>1. c \in ACTORS /\ c \in HOLDERS /\ c # "escrow" /\ c # "treasury"
      BY DEF ACTORS, HOLDERS, Clients
    <3>2. x.bal[c] = w.bal[c]
      BY <2>5, <2>6, <2>7, <3>1
    <3>3. CASE x.channels[c].seq > w.channels[c].seq
      BY <2>9, <3>3 DEF Spared, Charged
    <3>4. CASE x.channels[c].seq = w.channels[c].seq /\ x.deposits[c] = w.deposits[c]
      <4>1. /\ Holdings(x, c) = Holdings(w, c) /\ Holdings(w, c) \in Int
            /\ \A s \in SPENDERS : w.allow[c][s] \in Int
        BY <3>2, <3>4, ChargedTypes DEF Holdings, WorldOK
      <4>2. QED BY <2>9, <3>4, <4>1 DEF Spared, Charged
    <3>5. QED BY <1>3, <2>8, <3>3, <3>4
  <2>14. QED BY <2>9, <2>12, <2>13 DEF After, PegSame
<1> HIDE DEF needs, x
<1>6. needs => After(w, x, from) /\ PegSame(w, x)
  BY <1>5
<1>7. QED BY <1>2, <1>4, <1>6, CalmCall

LEMMA pendingTicketsType ==
  ASSUME NEW w, WorldOK(w)
  PROVE  pendingTickets(w) \in Seq(Ticket)
<1>1. \A c \in Clients : w.tickets[c] \in Seq(Ticket)
  BY WorldTypes DEF WorldOK
<1>2. \A c \in Clients : w.tickets[c] # << >> => Newest(w.tickets[c]) \in Ticket
  BY <1>1 DEF Newest
<1> DEFINE waiting(c) ==
             /\ w.tickets[c] # << >>
             /\ Newest(w.tickets[c]).seq > w.channels[c].seq
             /\ Newest(w.tickets[c]).units > w.channels[c].units
           offer(c) == IF waiting(c) THEN <<Newest(w.tickets[c])>> ELSE << >>
<1>3. offer("amina") \in Seq(Ticket) /\ offer("baraka") \in Seq(Ticket)
  BY <1>2 DEF Clients
<1>4. pendingTickets(w) = offer("amina") \o offer("baraka")
  BY DEF pendingTickets
<1> HIDE DEF offer
<1>5. QED BY <1>3, <1>4

-----------------------------------------------------------------------------
(* The flows. *)

\* What a flow may do to the peg.
Fine(w, r) ==
    /\ Right(w, r)
    /\ r.ok \/ r.failed = "b2cPayout" => GapOf(r.world) = GapOf(w)
    /\ GapOf(r.world) < GapOf(w) => ~r.ok /\ r.failed = "bridgeBurn"

LEMMA GapType ==
  ASSUME NEW w, WorldOK(w)
  PROVE  GapOf(w) \in Int /\ w.float \in Nat /\ w.supply \in Int
BY WorldTypes DEF WorldOK, GapOf

LEMMA GapSame ==
  ASSUME NEW w, NEW x, PegSame(w, x)
  PROVE  GapOf(x) = GapOf(w)
BY DEF PegSame, GapOf

LEMMA CalmFine ==
  ASSUME NEW w, WorldOK(w), NEW r, Calm(w, r)
  PROVE  Fine(w, r) /\ GapOf(r.world) = GapOf(w)
<1>1. Right(w, r) /\ GapOf(r.world) = GapOf(w) /\ GapOf(w) \in Int
  BY GapSame, GapType DEF Calm
<1>2. QED BY <1>1 DEF Fine

LEMMA RightThen ==
  ASSUME NEW w, WorldOK(w), NEW r, Right(w, r), NEW q, r.ok => Right(r.world, q)
  PROVE  Right(w, IF r.ok THEN q ELSE r)
<1>1. CASE r.ok
  <2>1. q.ok \in BOOLEAN /\ WorldOK(r.world) /\ WorldOK(q.world)
    BY <1>1 DEF Right
  <2>2. AllSpared(w, q.world)
    BY <1>1, <2>1, SparedTwice DEF Right, WorldOK
  <2>3. QED BY <1>1, <2>1, <2>2 DEF Right
<1>2. CASE ~r.ok
  BY <1>2
<1>3. QED BY <1>1, <1>2

LEMMA CalmThen ==
  ASSUME NEW w, WorldOK(w), NEW r, Calm(w, r), NEW q, r.ok => Calm(r.world, q)
  PROVE  Calm(w, IF r.ok THEN q ELSE r)
<1>1. Right(w, IF r.ok THEN q ELSE r)
  BY RightThen DEF Calm
<1>2. CASE r.ok
  BY <1>1, <1>2 DEF Calm, PegSame
<1>3. CASE ~r.ok
  BY <1>3
<1>4. QED BY <1>2, <1>3

LEMMA FineThen ==
  ASSUME NEW w, WorldOK(w), NEW r, Fine(w, r), NEW q, r.ok => Fine(r.world, q)
  PROVE  Fine(w, IF r.ok THEN q ELSE r)
<1>1. Right(w, IF r.ok THEN q ELSE r)
  BY RightThen DEF Fine
<1>2. CASE r.ok
  BY <1>1, <1>2 DEF Fine
<1>3. CASE ~r.ok
  BY <1>3
<1>4. QED BY <1>2, <1>3

\* What ends well changed nothing.
LEMMA CalmOk ==
  ASSUME NEW w, WorldOK(w)
  PROVE  Calm(w, Ok(w)) /\ Ok(w).ok = TRUE /\ Ok(w).world = w
<1>1. Ok(w).ok = TRUE /\ Ok(w).world = w
  BY DEF Ok, Done
<1>2. QED BY <1>1, SparedSelf DEF Calm, Right, PegSame

LEMMA kesType ==
  ASSUME NEW n \in Nat
  PROVE  kes(n) \in Nat
BY DemoConstants DEF kes

LEMMA setupNetworkOK ==
  ASSUME NEW w, WorldOK(w)
  PROVE  Calm(w, setupNetwork(w))
<1> DEFINE x == IF w.deployed THEN w ELSE deploy(w)
           cap == x.params.mintCap
           r == setBridge(x, "owner", "kiosk", TRUE, cap)
<1>1. WorldOK(x) /\ AllSpared(w, x) /\ PegSame(w, x)
  <2>1. CASE w.deployed
    BY <2>1, SparedSelf DEF PegSame
  <2>2. CASE ~w.deployed
    BY <2>2, deployOK
  <2>3. QED BY <2>1, <2>2
<1>2. r = setupNetwork(w)
  BY DEF setupNetwork
<1> HIDE DEF x
<1>3. cap \in Int
  BY <1>1, WorldTypes DEF WorldOK, Params
<1> HIDE DEF cap
<1>4. Calm(x, r)
  BY <1>1, <1>3, setBridgeOK DEF ACTORS
<1> HIDE DEF r
<1>5. AllSpared(w, r.world)
  BY <1>1, <1>4, SparedTwice DEF Calm, Right, WorldOK
<1>6. Calm(w, r)
  BY <1>1, <1>4, <1>5, PegTwice DEF Calm, Right
<1>7. QED BY <1>2, <1>6

\* The form of the first step sets the parameters; the receipt stays.
LEMMA setupParamsOK ==
  ASSUME NEW w, WorldOK(w), NEW price \in Price, NEW fee \in Fee
  PROVE  LET x == [w EXCEPT !.params.price = price, !.params.fee = fee]
         IN WorldOK(x) /\ AllSpared(w, x) /\ PegSame(w, x)
<1> DEFINE p == [w.params EXCEPT !.price = price, !.fee = fee]
           x == [w EXCEPT !.params = p]
           y == [w EXCEPT !.params.price = price, !.params.fee = fee]
<1>1. y = x
  <2>1. "params" \in DOMAIN w
    BY FieldNames DEF WorldOK, IsWorld, Shape
  <2>2. QED BY <2>1
<1>2. w.params \in Params
  BY WorldTypes DEF WorldOK
<1>3. p \in Params /\ p.receipt = w.params.receipt
  BY <1>2 DEF Params
<1> HIDE DEF p, y
<1>4. Only(w, x, {"params"}) /\ x.params = p
  BY FieldNames DEF WorldOK, IsWorld, Only, Shape
<1> HIDE DEF x
<1>5. IsWorld(x)
  BY <1>3, <1>4, TypesOf, FieldNames, ChangedWorld DEF WorldOK
<1>6. Money(x) /\ Deployment(x)
  BY <1>4, MoneySame, DeploymentSame DEF WorldOK, MoneyFields, DeploymentFields
<1>7. AllSpared(w, x) /\ PegSame(w, x)
  BY <1>4, SparedAside, PegAside DEF WorldOK, HoldingFields
<1>8. SessionOK(x)
  <2>1. x.session = w.session /\ x.deployed = w.deployed
    BY <1>4, FieldNames DEF Only
  <2>2. QED BY <1>3, <1>4, <2>1 DEF WorldOK, SessionOK
<1>9. QED BY <1>1, <1>5, <1>6, <1>7, <1>8 DEF WorldOK, y

\* A top-up that is paid for and not minted leaves its shillings in the float.
LEMMA buyOK ==
  ASSUME NEW w, WorldOK(w), NEW client \in Clients, NEW amount \in Nat, NEW failStk \in BOOLEAN
  PROVE  LET r == buy(w, client, amount, failStk)
         IN /\ Fine(w, r)
            /\ r.failed # "b2cPayout" /\ r.failed # "bridgeBurn"
            /\ \/ GapOf(r.world) = GapOf(w)
               \/ GapOf(r.world) = GapOf(w) + amount /\ r.world.float >= amount
<1> DEFINE r1 == stkPush(w, client, amount, failStk)
           r2 == bridgeMint(r1.world, "kiosk", client, amount)
           r3 == issueVoucher(r2.world, client, amount)
           s == IF r1.ok THEN r2 ELSE r1
           r == buy(w, client, amount, failStk)
<1>1. r = IF s.ok THEN issueVoucher(s.world, client, amount) ELSE s
  BY DEF buy, Then
<1>2. client \in ACTORS /\ "kiosk" \in ACTORS
  BY DEF ACTORS
<1>3. /\ Right(w, r1)
      /\ r1.ok => r1.world.float = w.float + amount /\ r1.world.supply = w.supply
      /\ ~r1.ok => r1.world = w /\ r1.failed = "stkPush"
  BY <1>2, stkPushOK
<1> HIDE DEF r1
<1>4. r1.ok \in BOOLEAN /\ WorldOK(r1.world)
  BY <1>3 DEF Right
<1>5. /\ Right(r1.world, r2)
      /\ r2.ok => r2.world.float = r1.world.float /\ r2.world.supply = r1.world.supply + amount
      /\ ~r2.ok => PegSame(r1.world, r2.world) /\ r2.failed = "bridgeMint"
  <2>1. amount \in Int /\ amount >= 0
    OBVIOUS
  <2>2. QED BY <1>2, <1>4, <2>1, bridgeMintOK
<1> HIDE DEF r2
<1>6. Right(w, s)
  BY <1>3, <1>5, RightThen
<1>7. CASE ~r1.ok
  <2>1. s = r1 /\ ~s.ok /\ r = r1
    BY <1>1, <1>7
  <2>2. GapOf(r.world) = GapOf(w) /\ r.failed = "stkPush"
    BY <1>3, <1>7, <2>1
  <2>3. GapOf(w) \in Int
    BY GapType
  <2>4. QED BY <1>3, <2>1, <2>2, <2>3 DEF Fine
<1>8. CASE r1.ok /\ ~r2.ok
  <2>1. s = r2 /\ ~s.ok /\ r = r2
    BY <1>1, <1>8
  <2>2. r.world.float = w.float + amount /\ r.world.supply = w.supply /\ r.failed = "bridgeMint"
    BY <1>3, <1>5, <1>8, <2>1 DEF PegSame
  <2>3. GapOf(w) \in Int /\ w.float \in Nat /\ w.supply \in Int
    BY GapType
  <2>4. GapOf(r.world) = GapOf(w) + amount /\ r.world.float >= amount
    BY <2>2, <2>3 DEF GapOf
  <2>5. Right(w, r)
    BY <1>6, <2>1, <1>8
  <2> HIDE DEF r
  <2>6. Fine(w, r)
    BY <2>1, <1>8, <2>2, <2>3, <2>4, <2>5 DEF Fine
  <2>7. QED BY <2>2, <2>4, <2>6 DEF r
<1>9. CASE r1.ok /\ r2.ok
  <2>1. s = r2 /\ r = r3
    BY <1>1, <1>9
  <2>2. r2.world.float = w.float + amount /\ r2.world.supply = w.supply + amount
    BY <1>3, <1>5, <1>9
  <2>3. GapOf(w) \in Int /\ w.float \in Nat /\ w.supply \in Int
    BY GapType
  <2>4. GapOf(r2.world) = GapOf(w)
    BY <2>2, <2>3 DEF GapOf
  <2>5. WorldOK(r2.world) /\ Right(w, r2)
    BY <1>5, <1>6, <1>9, <2>1 DEF Right
  <2>6. Calm(r2.world, r3) /\ r3.ok = TRUE /\ r3.failed = None
    BY <1>2, <2>5, issueVoucherOK DEF issueVoucher, callOff, Done
  <2> HIDE DEF r3, r, s
  <2>7. GapOf(r3.world) = GapOf(w)
    BY <2>4, <2>6, GapSame DEF Calm
  <2>8. Right(w, r3)
    <3>1. Right(w, IF r2.ok THEN r3 ELSE r2)
      BY <2>5, <2>6, RightThen DEF Calm
    <3>2. QED BY <1>9, <3>1
  <2>9. Fine(w, r3)
    BY <2>3, <2>7, <2>8 DEF Fine
  <2>10. QED BY <2>1, <2>6, <2>7, <2>9 DEF r, None
<1>10. QED BY <1>7, <1>8, <1>9

LEMMA depositGaslessOK ==
  ASSUME NEW w, WorldOK(w), NEW client \in Clients, NEW amount \in Nat
  PROVE  Calm(w, depositGasless(w, client, amount))
<1> DEFINE r1 == signPermit(w, client, "escrow", amount)
           r2 == depositWithPermit(r1.world, "kiosk", client, amount, r1.result)
<1>1. depositGasless(w, client, amount) = IF r1.ok THEN r2 ELSE r1
  BY DEF depositGasless, Then
<1>2. client \in ACTORS /\ "kiosk" \in ACTORS /\ "escrow" \in SPENDERS
  BY DEF ACTORS, SPENDERS
<1>3. /\ Calm(w, r1) /\ r1.world = w /\ r1.ok = w.devices[client]
      /\ r1.ok => r1.result \in Permit /\ r1.result.owner = client
  BY <1>2, signPermitOK
<1> HIDE DEF r1
<1>4. r1.ok => Calm(r1.world, r2)
  BY <1>2, <1>3, depositWithPermitOK
<1> HIDE DEF r2
<1>5. QED BY <1>1, <1>3, <1>4, CalmThen

LEMMA withdrawGaslessOK ==
  ASSUME NEW w, WorldOK(w), NEW client \in Clients, NEW amount \in Nat
  PROVE  Calm(w, withdrawGasless(w, client, amount))
<1> DEFINE r1 == signAuth(w, "withdraw", client, client, amount)
           r2 == withdrawWithSig(r1.world, "kiosk", r1.result, r1.result.to)
<1>1. withdrawGasless(w, client, amount) = IF r1.ok THEN r2 ELSE r1
  BY DEF withdrawGasless, Then
<1>2. client \in ACTORS /\ "kiosk" \in ACTORS /\ "withdraw" \in {"withdraw", "transfer"}
  BY DEF ACTORS
<1>3. /\ Calm(w, r1) /\ r1.world = w /\ r1.ok = w.devices[client]
      /\ r1.ok => r1.result \in Auth /\ r1.result.from = client /\ r1.result.to = client
  BY <1>2, signAuthOK
<1> HIDE DEF r1
<1>4. r1.ok => Calm(r1.world, r2)
  BY <1>2, <1>3, withdrawWithSigOK
<1> HIDE DEF r2
<1>5. QED BY <1>1, <1>3, <1>4, CalmThen

LEMMA sendEscrowOK ==
  ASSUME NEW w, WorldOK(w), NEW from \in Clients, NEW to \in Clients, NEW amount \in Nat
  PROVE  Calm(w, sendEscrow(w, from, to, amount))
<1> DEFINE r1 == signAuth(w, "transfer", from, to, amount)
           r2 == transferDeposit(r1.world, "kiosk", r1.result, r1.result.to)
<1>1. sendEscrow(w, from, to, amount) = IF r1.ok THEN r2 ELSE r1
  BY DEF sendEscrow, Then
<1>2. /\ from \in ACTORS /\ to \in ACTORS /\ "kiosk" \in ACTORS
      /\ "transfer" \in {"withdraw", "transfer"}
  BY DEF ACTORS
<1>3. /\ Calm(w, r1) /\ r1.world = w /\ r1.ok = w.devices[from]
      /\ r1.ok => r1.result \in Auth /\ r1.result.from = from /\ r1.result.to = to
  BY <1>2, signAuthOK
<1> HIDE DEF r1
<1>4. r1.ok => Calm(r1.world, r2)
  BY <1>2, <1>3, transferDepositOK
<1> HIDE DEF r2
<1>5. QED BY <1>1, <1>3, <1>4, CalmThen

LEMMA throughKioskOK ==
  ASSUME NEW w, WorldOK(w), NEW from \in Clients, NEW to \in ACTORS, NEW amount \in Nat
  PROVE  LET r == throughKiosk(w, from, to, amount)
         IN Calm(w, r) /\ (~r.ok => r.failed # "b2cPayout" /\ r.failed # "bridgeBurn")
<1> DEFINE r1 == signPermit(w, from, "kiosk", amount)
           r2 == permit(r1.world, "kiosk", r1.result)
           s == IF r1.ok THEN r2 ELSE r1
           r3 == transferFrom(s.world, "kiosk", from, to, amount)
<1>1. throughKiosk(w, from, to, amount) = IF s.ok THEN r3 ELSE s
  BY DEF throughKiosk, Then
<1>2. from \in ACTORS /\ "kiosk" \in ACTORS /\ "kiosk" \in SPENDERS
  BY DEF ACTORS, SPENDERS
<1>3. /\ Calm(w, r1) /\ r1.world = w /\ r1.ok = w.devices[from]
      /\ r1.ok => r1.result \in Permit /\ r1.result.owner = from
      /\ ~r1.ok => r1.failed = "signPermit"
  BY <1>2, signPermitOK
<1> HIDE DEF r1
<1>4. r1.ok => Calm(r1.world, r2) /\ (~r2.ok => r2.failed = "permit")
  BY <1>2, <1>3, permitOK
<1> HIDE DEF r2
<1>5. Calm(w, s)
  BY <1>3, <1>4, CalmThen
<1>6. ~s.ok => s.failed = "signPermit" \/ s.failed = "permit"
  BY <1>3, <1>4 DEF Calm, Right
<1> HIDE DEF s
<1>7. Calm(s.world, r3) /\ (~r3.ok => r3.failed = "transferFrom")
  BY <1>2, <1>5, transferFromOK DEF Calm, Right
<1> HIDE DEF r3
<1>8. Calm(w, IF s.ok THEN r3 ELSE s)
  BY <1>5, <1>7, CalmThen
<1>9. QED BY <1>1, <1>6, <1>7, <1>8

\* A burn comes after its payout; what fails in between lowers the gap.
LEMMA PayAndBurnOK ==
  ASSUME NEW w, WorldOK(w), NEW to \in ACTORS, NEW amount \in Nat, NEW fail \in BOOLEAN
  PROVE  LET r == PayAndBurn(w, to, amount, fail)
         IN /\ Fine(w, r)
            /\ fail => r.world = w /\ r.failed = "b2cPayout" /\ ~r.ok
            /\ r.failed = "b2cPayout" => r.world = w /\ (fail \/ w.float < amount)
<1> DEFINE r1 == b2cPayout(w, to, amount, fail)
           r2 == bridgeBurn(r1.world, "kiosk", amount)
           r == IF r1.ok THEN r2 ELSE r1
<1>1. PayAndBurn(w, to, amount, fail) = r
  BY DEF PayAndBurn, Then
<1>2. /\ Right(w, r1)
      /\ r1.ok => r1.world.float = w.float - amount /\ r1.world.supply = w.supply
      /\ ~r1.ok => r1.world = w /\ r1.failed = "b2cPayout"
  BY b2cPayoutOK
<1>3. /\ r1.ok \in BOOLEAN /\ WorldOK(r1.world)
      /\ r1.ok => ~fail /\ w.float >= amount
      /\ ~r1.ok => fail \/ ~(w.float >= amount)
  BY <1>2 DEF Right, b2cPayout, callOff, Done, Failed
<1> HIDE DEF r1
<1>4. /\ Right(r1.world, r2)
      /\ r2.ok => r2.world.float = r1.world.float /\ r2.world.supply = r1.world.supply - amount
      /\ ~r2.ok => PegSame(r1.world, r2.world) /\ r2.failed = "bridgeBurn"
  BY <1>3, bridgeBurnOK DEF ACTORS
<1>5. r2.ok => r2.failed = None
  BY DEF bridgeBurn, call, Done, Failed
<1> HIDE DEF r2
<1>6. Right(w, r)
  BY <1>2, <1>4, RightThen
<1>7. GapOf(w) \in Int /\ w.float \in Nat /\ w.supply \in Int
  BY GapType
<1>8. CASE ~r1.ok
  <2>1. r.world = w /\ r.failed = "b2cPayout" /\ ~r.ok
    BY <1>2, <1>8
  <2>2. fail \/ w.float < amount
    BY <1>3, <1>7, <1>8
  <2> HIDE DEF r
  <2>3. QED BY <1>1, <1>6, <1>7, <2>1, <2>2 DEF Fine
<1>9. CASE r1.ok /\ r2.ok
  <2>1. /\ r.world.float = w.float - amount /\ r.world.supply = w.supply - amount
        /\ r.failed = None
    BY <1>2, <1>4, <1>5, <1>9
  <2> HIDE DEF r
  <2>2. GapOf(r.world) = GapOf(w)
    BY <1>7, <2>1 DEF GapOf
  <2>3. QED BY <1>1, <1>3, <1>6, <1>7, <1>9, <2>1, <2>2 DEF Fine, None
<1>10. CASE r1.ok /\ ~r2.ok
  <2>1. r.failed = "bridgeBurn" /\ ~r.ok
    BY <1>4, <1>10
  <2> HIDE DEF r
  <2>2. QED BY <1>1, <1>3, <1>6, <1>10, <2>1 DEF Fine
<1>11. QED BY <1>8, <1>9, <1>10

LEMMA cashOutOK ==
  ASSUME NEW w, WorldOK(w), NEW client \in Clients, NEW amount \in Nat, NEW fail \in BOOLEAN
  PROVE  LET r == cashOut(w, client, amount, fail)
         IN /\ Fine(w, r)
            /\ fail => GapOf(r.world) = GapOf(w) /\ r.world.float = w.float
<1> DEFINE r1 == throughKiosk(w, client, "kiosk", amount)
           r2 == PayAndBurn(r1.world, client, amount, fail)
           r == IF r1.ok THEN r2 ELSE r1
<1>1. cashOut(w, client, amount, fail) = r
  BY DEF cashOut, Then
<1>2. client \in ACTORS /\ "kiosk" \in ACTORS
  BY DEF ACTORS
<1>3. Calm(w, r1)
  BY <1>2, throughKioskOK
<1> HIDE DEF r1
<1>4. Fine(w, r1) /\ WorldOK(r1.world) /\ GapOf(r1.world) = GapOf(w) /\ r1.world.float = w.float
  BY <1>3, CalmFine DEF Calm, Right, PegSame
<1>5. Fine(r1.world, r2) /\ (fail => r2.world = r1.world)
  BY <1>2, <1>4, PayAndBurnOK
<1> HIDE DEF r2
<1>6. Fine(w, r)
  BY <1>4, <1>5, FineThen
<1>7. fail => r.world = r1.world
  BY <1>5
<1>8. QED BY <1>1, <1>4, <1>6, <1>7

LEMMA relayBatchOK ==
  ASSUME NEW w, WorldOK(w)
  PROVE  Calm(w, relayBatch(w))
BY settleTicketBatchOK, pendingTicketsType DEF relayBatch, ACTORS

LEMMA nodeClaimOK ==
  ASSUME NEW w, WorldOK(w)
  PROVE  Calm(w, nodeClaim(w)) /\ (~nodeClaim(w).ok => nodeClaim(w).failed = "claimEarnings")
<1>1. "node" \in ACTORS /\ w.earnings["node"] \in Nat
  BY MoveTypes DEF ACTORS
<1>2. QED BY <1>1, claimEarningsOK DEF nodeClaim

LEMMA nodeCashOutOK ==
  ASSUME NEW w, WorldOK(w)
  PROVE  Fine(w, nodeCashOut(w))
<1> DEFINE amount == w.bal["node"]
           r1 == transfer(w, "node", "kiosk", amount)
           r2 == PayAndBurn(r1.world, "node", amount, FALSE)
<1>1. nodeCashOut(w) = IF r1.ok THEN r2 ELSE r1
  BY DEF nodeCashOut, Then
<1>2. "node" \in ACTORS /\ "kiosk" \in ACTORS /\ amount \in Nat
  BY MoveTypes DEF ACTORS, HOLDERS, Purses
<1> HIDE DEF amount
<1>3. Calm(w, r1)
  BY <1>2, transferOK
<1> HIDE DEF r1
<1>4. Fine(w, r1) /\ WorldOK(r1.world)
  BY <1>3, CalmFine DEF Calm, Right
<1>5. Fine(r1.world, r2)
  BY <1>2, <1>4, PayAndBurnOK
<1> HIDE DEF r2
<1>6. QED BY <1>1, <1>4, <1>5, FineThen

LEMMA NodeOutOK ==
  ASSUME NEW w, WorldOK(w), NEW mode_ \in {"claim", "both"}
  PROVE  Fine(w, NodeOut(w, mode_))
<1> DEFINE r1 == IF w.earnings["node"] > 0 THEN nodeClaim(w) ELSE Ok(w)
           r2 == IF mode_ = "claim" THEN Ok(r1.world) ELSE nodeCashOut(r1.world)
<1>1. NodeOut(w, mode_) = IF r1.ok THEN r2 ELSE r1
  BY DEF NodeOut, Then
<1>2. Calm(w, r1)
  BY nodeClaimOK, CalmOk
<1> HIDE DEF r1
<1>3. Fine(w, r1) /\ WorldOK(r1.world)
  BY <1>2, CalmFine DEF Calm, Right
<1>4. Fine(r1.world, r2)
  BY <1>3, CalmOk, CalmFine, nodeCashOutOK
<1> HIDE DEF r2
<1>5. QED BY <1>1, <1>3, <1>4, FineThen

-----------------------------------------------------------------------------
(* Sessions. *)

\* A world whose session, and tickets, are others.
LEMMA SessionSet ==
  ASSUME NEW w, WorldOK(w), NEW x, Only(w, x, {"session", "tickets"}),
         x.session \in Session \cup {NoSession}, x.tickets \in [Clients -> Seq(Ticket)],
         SessionOK(x)
  PROVE  WorldOK(x) /\ AllSpared(w, x) /\ PegSame(w, x)
<1> DEFINE F == {"session", "tickets"}
<1>1. F \subseteq Fields /\ \A f \in F : x[f] \in Types[f]
  BY FieldNames, TypesOf
<1>2. F \cap MoneyFields = {} /\ F \cap DeploymentFields = {} /\ F \cap HoldingFields = {}
  BY DEF MoneyFields, DeploymentFields, HoldingFields
<1>3. Only(w, x, F) /\ "supply" \notin F /\ "float" \notin F
  OBVIOUS
<1> HIDE DEF F
<1>4. IsWorld(x)
  BY <1>1, <1>3, ChangedWorld DEF WorldOK
<1>5. Money(x) /\ Deployment(x)
  BY <1>2, <1>3, MoneySame, DeploymentSame DEF WorldOK
<1>6. AllSpared(w, x) /\ PegSame(w, x)
  BY <1>2, <1>3, SparedAside, PegAside DEF WorldOK
<1>7. QED BY <1>4, <1>5, <1>6 DEF WorldOK

LEMMA SessionType ==
  ASSUME NEW w, WorldOK(w), w.session.open
  PROVE  w.session \in Session /\ w.deployed /\ w.price > 0 /\ w.price \in Nat
<1>1. w.session \in Session \cup {NoSession} /\ w.price \in Nat
  BY WorldTypes DEF WorldOK
<1>2. w.session # NoSession
  BY DEF NoSession
<1>3. w.deployed /\ w.price > 0
  BY DEF WorldOK, SessionOK, Deployment
<1>4. QED BY <1>1, <1>2, <1>3

LEMMA BaseUnitsType ==
  ASSUME NEW w, IsWorld(w), NEW client \in Clients
  PROVE  /\ BaseUnits(w, client) \in Nat /\ w.channels[client].units \in Nat
         /\ BaseUnits(w, client) >= w.channels[client].units
<1>1. w.tickets[client] \in Seq(Ticket) /\ w.channels[client].units \in Nat
  BY WorldTypes DEF Channel
<1>2. w.tickets[client] # << >> => Newest(w.tickets[client]).units \in Nat
  <2>1. w.tickets[client] # << >> => Newest(w.tickets[client]) \in Ticket
    BY <1>1 DEF Newest
  <2>2. QED BY <2>1 DEF Ticket
<1>3. QED BY <1>1, <1>2 DEF BaseUnits, Max2

LEMMA closeSessionOK ==
  ASSUME NEW w, WorldOK(w)
  PROVE  /\ WorldOK(closeSession(w)) /\ AllSpared(w, closeSession(w))
         /\ PegSame(w, closeSession(w)) /\ Only(w, closeSession(w), {"session", "tickets"})
<1> DEFINE x == closeSession(w)
<1>1. Only(w, x, {"session", "tickets"}) /\ x.session = NoSession /\ x.tickets = w.tickets
  BY FieldNames DEF closeSession, WorldOK, IsWorld, Only, Shape
<1> HIDE DEF x
<1>2. x.tickets \in [Clients -> Seq(Ticket)]
  BY <1>1, WorldTypes DEF WorldOK
<1>3. SessionOK(x)
  BY <1>1 DEF SessionOK, NoSession
<1>4. WorldOK(x) /\ AllSpared(w, x) /\ PegSame(w, x)
  BY <1>1, <1>2, <1>3, SessionSet
<1>5. QED BY <1>1, <1>4 DEF x

LEMMA openSessionOK ==
  ASSUME NEW w, WorldOK(w), w.deployed, NEW client \in Clients, NEW target \in Nat \ {0},
         NEW offline \in BOOLEAN
  PROVE  LET r == openSession(w, client, target, offline)
         IN /\ Calm(w, r) /\ Only(w, r.world, {"session", "tickets"})
            /\ r.ok => r.world.session.open
            /\ r.failed # "b2cPayout" /\ r.failed # "bridgeBurn"
<1> DEFINE r1 == IF offline THEN verifyVoucher(w, client) ELSE Ok(w)
           v == r1.result
           base == BaseUnits(w, client)
           limit == IF offline THEN Min2(v.amount, kes(w.params.offlineCap))
                    ELSE Min2(w.deposits[client], kes(w.params.onlineCap))
           unsettled == (base - w.channels[client].units) * w.price
           s == [open |-> TRUE, client |-> client, target |-> target, bytes |-> 0, base |-> base,
                 unsettledAtStart |-> unsettled, limit |-> limit,
                 lastReceipt |-> 0, done |-> FALSE, throttled |-> None, servedPrice |-> w.price]
           x == [w EXCEPT !.session = s]
           r == openSession(w, client, target, offline)
<1>1. client \in ACTORS
  BY DEF ACTORS
<1>2. /\ Calm(w, r1) /\ r1.world = w /\ (offline /\ r1.ok => v \in Voucher)
      /\ r1.failed # "b2cPayout" /\ r1.failed # "bridgeBurn"
  <2>1. CASE offline
    <3>1. r1.failed = "verifyVoucher" \/ r1.failed = None
      BY <2>1 DEF verifyVoucher, callOff, Done, Failed
    <3>2. QED BY <1>1, <2>1, <3>1, verifyVoucherOK DEF None
  <2>2. CASE ~offline
    <3>1. r1 = Ok(w) /\ r1.failed = None
      BY <2>2 DEF Ok, Done
    <3>2. QED BY <2>2, <3>1, CalmOk DEF None
  <2>3. QED BY <2>1, <2>2
<1>3. r = IF r1.ok THEN Ok(x) ELSE r1
  <2>1. r = IF r1.ok
            THEN Ok([r1.world EXCEPT !.session =
                   [open |-> TRUE, client |-> client, target |-> target, bytes |-> 0,
                    base |-> BaseUnits(r1.world, client),
                    unsettledAtStart |-> (BaseUnits(r1.world, client)
                                            - r1.world.channels[client].units) * r1.world.price,
                    limit |-> IF offline
                              THEN Min2(v.amount, kes(r1.world.params.offlineCap))
                              ELSE Min2(r1.world.deposits[client], kes(r1.world.params.onlineCap)),
                    lastReceipt |-> 0, done |-> FALSE, throttled |-> None,
                    servedPrice |-> r1.world.price]])
            ELSE r1
    BY DEF openSession, Then
  <2> HIDE DEF r1, r
  <2>2. r1.world = w
    BY <1>2
  <2>3. QED BY <2>1, <2>2
<1> HIDE DEF r1, r
<1>4. ASSUME r1.ok PROVE s \in Session
  <2>1. base \in Nat /\ w.channels[client].units \in Nat /\ base >= w.channels[client].units
    BY BaseUnitsType DEF WorldOK
  <2>2. w.price \in Nat /\ w.deposits[client] \in Nat /\ w.params \in Params
    BY <1>1, WorldTypes DEF WorldOK
  <2>3. unsettled \in Nat
    <3> DEFINE n == base - w.channels[client].units
    <3>1. n \in Nat
      BY <2>1
    <3> HIDE DEF n, base
    <3>2. n * w.price \in Nat
      BY <2>2, <3>1
    <3>3. QED BY <3>2 DEF n
  <2>4. limit \in Nat
    <3>1. w.params.onlineCap \in Nat /\ w.params.offlineCap \in Nat
      BY <2>2 DEF Params
    <3>2. kes(w.params.onlineCap) \in Nat /\ kes(w.params.offlineCap) \in Nat
      BY <3>1, kesType
    <3>3. offline => v.amount \in Nat
      BY <1>2, <1>4 DEF Voucher
    <3> HIDE DEF v
    <3>4. QED BY <2>2, <3>2, <3>3 DEF Min2
  <2> HIDE DEF base, unsettled, limit
  <2>5. QED BY <2>1, <2>2, <2>3, <2>4 DEF Session
<1>5. Only(w, x, {"session", "tickets"}) /\ x.session = s /\ x.tickets = w.tickets
  BY FieldNames DEF WorldOK, IsWorld, Only, Shape
<1>6. s.open = TRUE /\ s.bytes = 0 /\ s.done = FALSE /\ s.lastReceipt = 0
  OBVIOUS
<1> HIDE DEF s, x
<1>7. SessionOK(x)
  <2>1. x.params = w.params /\ x.deployed = w.deployed /\ w.params \in Params
    BY <1>5, FieldNames, WorldTypes DEF Only, WorldOK
  <2>2. 0 - 0 < w.params.receipt
    BY <2>1 DEF Params
  <2>3. QED BY <1>5, <1>6, <2>1, <2>2 DEF SessionOK
<1>8. r1.ok => WorldOK(x) /\ AllSpared(w, x) /\ PegSame(w, x)
  <2>1. x.tickets \in [Clients -> Seq(Ticket)]
    BY <1>5, WorldTypes DEF WorldOK
  <2>2. QED BY <1>4, <1>5, <1>7, <2>1, SessionSet
<1>9. Only(w, w, {"session", "tickets"}) /\ r1.ok \in BOOLEAN
  BY <1>2 DEF Only, WorldOK, IsWorld, Calm, Right
<1>10. CASE r1.ok
  <2>1. r = Ok(x) /\ r.ok = TRUE /\ r.world = x /\ r.failed = None
    BY <1>3, <1>10 DEF Ok, Done
  <2>2. x.session.open
    BY <1>5, <1>6
  <2>3. QED BY <1>5, <1>8, <1>10, <2>1, <2>2 DEF Calm, Right, r, None
<1>11. CASE ~r1.ok
  <2>1. r = r1
    BY <1>3, <1>11
  <2>2. QED BY <1>2, <1>9, <1>11, <2>1 DEF r
<1>12. QED BY <1>9, <1>10, <1>11

LEMMA ReceiptsStep ==
  ASSUME NEW w, NEW due, Len(due) \in Nat
  PROVE  Receipts(w, due) =
             [i \in 0 .. Len(due) |-> IF i = 0 THEN Ok(w) ELSE Receipt(Receipts(w, due)[i - 1], due[i])]
<1> DEFINE n == Len(due)
           first == Ok(w)
           Unfolds(s, k) == s = [i \in 0 .. k |-> IF i = 0 THEN first ELSE Receipt(s[i - 1], due[i])]
           P == {k \in 0 .. n : \E s : Unfolds(s, k)}
<1> HIDE DEF first
<1>1. 0 \in P
  <2> DEFINE g == [i \in 0 .. 0 |-> first]
  <2>1. Unfolds(g, 0)
    OBVIOUS
  <2>2. 0 \in 0 .. n
    OBVIOUS
  <2> HIDE DEF Unfolds, n, g
  <2>3. QED BY <2>1, <2>2
<1>2. ASSUME NEW k \in 0 .. n, k < n, k \in P PROVE k + 1 \in P
  <2>1. PICK s : Unfolds(s, k)
    BY <1>2
  <2> DEFINE g == [i \in 0 .. k + 1 |-> IF i = k + 1 THEN Receipt(s[k], due[k + 1]) ELSE s[i]]
  <2>2. Unfolds(g, k + 1)
    BY <2>1
  <2>3. k + 1 \in 0 .. n
    BY <1>2
  <2> HIDE DEF Unfolds
  <2>4. QED BY <2>2, <2>3
<1>3. n \in P
  <2> HIDE DEF P
  <2>1. n \in Nat
    OBVIOUS
  <2> HIDE DEF n
  <2>2. \A k \in 0 .. n : k < n /\ k \in P => k + 1 \in P
    BY <1>2
  <2>3. n \in 0 .. n
    BY <2>1
  <2>4. \A k \in 0 .. n : k \in P
    BY <1>1, <2>1, <2>2, SetInduction
  <2>5. QED BY <2>3, <2>4
<1>4. Receipts(w, due) = CHOOSE s : Unfolds(s, n)
  BY DEF Receipts, first
<1>5. \E s : Unfolds(s, n)
  BY <1>3
<1> HIDE DEF Unfolds
<1>6. Unfolds(Receipts(w, due), n)
  BY <1>4, <1>5
<1>7. QED BY <1>6 DEF Unfolds, first

\* What the receipts of a serving do to the world w: b is the last one signed.
Signing(w, r, b) ==
    LET s == w.session  q == r.world.session
    IN /\ r.ok \in BOOLEAN /\ IsWorld(r.world) /\ Only(w, r.world, {"session", "tickets"})
       /\ q \in Session /\ q.bytes = s.bytes /\ q.servedPrice = s.servedPrice
       /\ q.limit = s.limit /\ q.unsettledAtStart = s.unsettledAtStart
       /\ r.ok => q.lastReceipt = b

LEMMA ReceiptSigned ==
  ASSUME NEW w, IsWorld(w), w.session \in Session, NEW r, NEW b, Signing(w, r, b), NEW next \in Nat
  PROVE  Signing(w, Receipt(r, next), next)
<1> DEFINE x == r.world
           q == x.session
           c == q.client  u == q.base + next
           st == signTicket(x, c, c, u)
           z == [st.world EXCEPT !.session.lastReceipt = next]
           r1 == IF st.ok THEN Ok(z) ELSE st
           r2 == Receipt(r, next)
<1>1. r2 = IF r.ok THEN r1 ELSE r
  BY DEF Receipt, Then
<1>2. /\ r.ok \in BOOLEAN /\ IsWorld(x) /\ Only(w, x, {"session", "tickets"})
      /\ q \in Session /\ q.bytes = w.session.bytes /\ q.servedPrice = w.session.servedPrice
      /\ q.limit = w.session.limit /\ q.unsettledAtStart = w.session.unsettledAtStart
  BY DEF Signing
<1>3. CASE ~r.ok
  <2>1. r2 = r
    BY <1>1, <1>3
  <2>2. QED BY <1>3, <2>1 DEF Signing
<1>4. CASE r.ok
  <2>1. c \in Clients /\ c \in ACTORS /\ u \in Nat
    <3>1. q \in Session
      BY <1>2
    <3> HIDE DEF q
    <3>2. q.client \in Clients /\ q.base \in Nat
      BY <3>1 DEF Session
    <3>3. QED BY <3>2 DEF ACTORS
  <2>2. x.devices[c] \in BOOLEAN
    BY <1>2, <2>1, WorldTypes
  <2> HIDE DEF x, c, u
  <2>3. /\ Only(x, st.world, {"tickets"}) /\ st.world.tickets \in [Clients -> Seq(Ticket)]
        /\ ~st.ok => st.world = x
    BY <1>2, <2>1, SignedTicket
  <2>4. st.ok = x.devices[c]
    BY <1>2, <2>1, SignedTicket
  <2> HIDE DEF st
  <2>5. IsWorld(st.world) /\ st.world.session = q
    <3>1. \A f \in {"tickets"} : st.world[f] \in Types[f]
      BY <2>3, TypesOf
    <3>2. {"tickets"} \subseteq Fields /\ "session" \in Fields \ {"tickets"}
      BY FieldNames
    <3>3. IsWorld(st.world)
      BY <1>2, <2>3, <3>1, <3>2, ChangedWorld
    <3>4. QED BY <2>3, <3>2, <3>3 DEF Only
  <2>6. Only(w, st.world, {"session", "tickets"})
    BY <1>2, <2>3, OnlyTwice DEF Only
  <2>7. CASE ~st.ok
    <3>1. r2 = st
      BY <1>1, <1>4, <2>7
    <3>2. QED BY <1>2, <2>2, <2>3, <2>4, <2>5, <2>6, <2>7, <3>1 DEF Signing
  <2>8. CASE st.ok
    <3>1. r2.ok = TRUE /\ r2.world = z
      BY <1>1, <1>4, <2>8 DEF Ok, Done
    <3> DEFINE new == [q EXCEPT !.lastReceipt = next]
               y == st.world
    <3>2. /\ new \in Session /\ new.bytes = q.bytes /\ new.servedPrice = q.servedPrice
          /\ new.limit = q.limit /\ new.unsettledAtStart = q.unsettledAtStart
          /\ new.lastReceipt = next
      BY <1>2 DEF Session
    <3>3. z = [y EXCEPT !.session = new]
      BY <2>5
    <3>4. Shape(y) /\ "session" \in Fields /\ "session" \in DOMAIN y
      BY <2>5, FieldNames DEF IsWorld, Shape
    <3> HIDE DEF z, new, y
    <3>5. Only(y, z, {"session"}) /\ z.session = new
      BY <3>3, <3>4 DEF Only, Shape
    <3>6. IsWorld(z)
      <4>1. \A f \in {"session"} : z[f] \in Types[f]
        BY <3>2, <3>5, TypesOf
      <4>2. {"session"} \subseteq Fields /\ IsWorld(y)
        BY <2>5, FieldNames DEF y
      <4>3. QED BY <3>5, <4>1, <4>2, ChangedWorld
    <3>7. Only(w, z, {"session", "tickets"})
      BY <2>6, <3>5, OnlyTwice DEF Only, y
    <3> HIDE DEF r2, q
    <3>8. Signing(w, r2, next)
      BY <1>2, <3>1, <3>2, <3>5, <3>6, <3>7 DEF Signing
    <3>9. QED BY <3>8 DEF r2
  <2>9. QED BY <2>2, <2>4, <2>7, <2>8
<1>5. QED BY <1>2, <1>3, <1>4

\* The last receipt of those due, or the one before them.
LastOf(s, due) == IF due = << >> THEN s.lastReceipt ELSE due[Len(due)]

LEMMA ReceiptsSigned ==
  ASSUME NEW w, IsWorld(w), w.session \in Session, NEW due \in Seq(Nat)
  PROVE  Signing(w, Receipts(w, due)[Len(due)], LastOf(w.session, due))
<1> DEFINE n == Len(due)
           rs == Receipts(w, due)
           upto(i) == IF i = 0 THEN w.session.lastReceipt ELSE due[i]
           P == {i \in 0 .. n : Signing(w, rs[i], upto(i))}
<1>1. n \in Nat /\ (\A i \in 1 .. n : due[i] \in Nat) /\ (due = << >> <=> n = 0)
  OBVIOUS
<1>2. rs = [i \in 0 .. n |-> IF i = 0 THEN Ok(w) ELSE Receipt(rs[i - 1], due[i])]
  BY <1>1, ReceiptsStep
<1> HIDE DEF n, rs
<1>3. 0 \in P
  <2> DEFINE first == Ok(w)
  <2>1. first.ok = TRUE /\ first.world = w /\ rs[0] = first
    BY <1>1, <1>2 DEF Ok, Done
  <2> HIDE DEF first
  <2>2. Only(w, w, {"session", "tickets"})
    BY DEF Only, IsWorld
  <2>3. Signing(w, first, w.session.lastReceipt)
    BY <2>1, <2>2 DEF Signing
  <2>4. QED BY <1>1, <2>1, <2>3
<1>4. ASSUME NEW i \in 0 .. n, i < n, i \in P PROVE i + 1 \in P
  <2>1. i + 1 \in 0 .. n /\ i + 1 # 0 /\ (i + 1) - 1 = i /\ i + 1 \in 1 .. n
    BY <1>1, <1>4
  <2>2. rs[i + 1] = Receipt(rs[i], due[i + 1])
    BY <1>2, <2>1
  <2>3. Signing(w, rs[i], upto(i)) /\ due[i + 1] \in Nat
    BY <1>1, <1>4, <2>1
  <2> HIDE DEF upto
  <2>4. Signing(w, Receipt(rs[i], due[i + 1]), due[i + 1])
    BY <2>3, ReceiptSigned
  <2>5. upto(i + 1) = due[i + 1]
    BY <2>1 DEF upto
  <2>6. QED BY <2>1, <2>2, <2>4, <2>5
<1>5. \A i \in 0 .. n : i < n /\ i \in P => i + 1 \in P
  BY <1>4
<1> HIDE DEF P
<1>6. \A i \in 0 .. n : i \in P
  BY <1>1, <1>3, <1>5, SetInduction
<1>7. n \in P
  BY <1>1, <1>6
<1>8. upto(n) = LastOf(w.session, due)
  BY <1>1 DEF LastOf, n
<1> HIDE DEF upto
<1>9. Signing(w, rs[n], upto(n))
  BY <1>7 DEF P
<1>10. QED BY <1>8, <1>9 DEF n, rs

LEMMA DivFacts ==
  ASSUME NEW a \in Int, NEW r \in Nat, r > 0
  PROVE  /\ a \div r \in Int
         /\ (a \div r) * r <= a /\ a < (a \div r) * r + r
OBVIOUS

\* Receipts are due up to less than one receipt's worth, and to the end at the end.
LEMMA boundariesOK ==
  ASSUME NEW s, s.lastReceipt \in Nat, NEW receipt \in Nat \ {0}, NEW next \in Nat,
         NEW finished \in BOOLEAN
  PROVE  LET due == boundaries(s, receipt, next, finished)
         IN /\ due \in Seq(Nat) /\ LastOf(s, due) \in Nat
            /\ next - LastOf(s, due) < receipt
            /\ finished => next <= LastOf(s, due)
<1> DEFINE l == s.lastReceipt
           d == (next - l) \div receipt
           n == Max2(0, d)
           full == [i \in 1 .. n |-> l + i * receipt]
           latest == IF n = 0 THEN l ELSE full[n]
           due == boundaries(s, receipt, next, finished)
<1>1. due = IF finished /\ latest < next THEN Append(full, next) ELSE full
  BY DEF boundaries
<1>2. d \in Int /\ d * receipt <= next - l /\ next - l < d * receipt + receipt /\ l \in Nat
  BY DivFacts
<1> HIDE DEF d, due, l
<1>3. n \in Nat /\ (n = 0 \/ n = d)
  BY <1>2 DEF Max2
<1>4. n * receipt \in Nat /\ (n = 0 => next - l < receipt)
      /\ (n # 0 => n * receipt <= next - l /\ next - l < n * receipt + receipt)
  <2>1. d <= 0 => d * receipt <= 0
    BY <1>2
  <2>2. n = 0 => next - l < receipt
    <3> DEFINE m == d * receipt
    <3>1. m \in Int /\ next - l < m + receipt /\ (d <= 0 => m <= 0)
      BY <1>2, <2>1
    <3>2. n = 0 => d <= 0
      BY <1>2 DEF Max2
    <3> HIDE DEF m, n
    <3>3. QED BY <1>2, <3>1, <3>2
  <2> HIDE DEF n
  <2>3. n * receipt \in Nat
    BY <1>3
  <2>4. QED BY <1>2, <1>3, <2>2, <2>3
<1> HIDE DEF n
<1>5. full \in Seq(Nat) /\ Len(full) = n
  <2>1. \A i \in 1 .. n : l + i * receipt \in Nat
    BY <1>2, <1>3
  <2>2. full \in [1 .. n -> Nat]
    BY <2>1
  <2> HIDE DEF full
  <2>3. QED BY <1>3, <2>2
<1>6. latest \in Nat /\ next - latest < receipt /\ (n # 0 => latest = full[Len(full)])
  <2>1. CASE n = 0
    BY <1>2, <1>4, <2>1
  <2>2. CASE n # 0
    <3>1. latest = l + n * receipt
      BY <1>3, <2>2
    <3> DEFINE m == n * receipt
    <3>2. m \in Nat /\ m <= next - l /\ next - l < m + receipt /\ latest = l + m
      BY <1>4, <2>2, <3>1
    <3>3. latest = full[Len(full)]
      BY <1>5, <2>2
    <3> HIDE DEF m, latest, full
    <3>4. QED BY <1>2, <3>2, <3>3
  <2>3. QED BY <2>1, <2>2
<1>7. full = << >> => n = 0
  BY <1>5
<1>8. n = 0 => full = << >> /\ latest = l
  BY <1>5
<1> HIDE DEF full, latest
<1>9. CASE finished /\ latest < next
  <2>1. due = Append(full, next)
    BY <1>1, <1>9
  <2>2. due \in Seq(Nat) /\ due # << >> /\ due[Len(due)] = next
    BY <1>5, <2>1
  <2>3. LastOf(s, due) = next
    BY <2>2 DEF LastOf
  <2>4. QED BY <2>2, <2>3 DEF due
<1>10. CASE ~(finished /\ latest < next)
  <2>1. due = full
    BY <1>1, <1>10
  <2>2. LastOf(s, due) = latest
    BY <1>3, <1>5, <1>6, <1>7, <1>8, <2>1 DEF LastOf, l
  <2>3. finished => next <= latest
    BY <1>6, <1>10
  <2>4. QED BY <1>5, <1>6, <2>1, <2>2, <2>3 DEF due
<1>11. QED BY <1>9, <1>10

\* What the credit allows is paid for by it.
LEMMA CreditFor ==
  ASSUME NEW credit \in Int, NEW price \in Nat, price > 0, NEW units \in Nat,
         units <= Max2(0, credit \div price)
  PROVE  units = 0 \/ units * price <= credit
<1> DEFINE q == credit \div price
<1>1. q \in Int /\ q * price <= credit
  BY DivFacts
<1> HIDE DEF q
<1>2. units <= Max2(0, q)
  BY DEF q
<1>3. units = 0 \/ units <= q
  BY <1>1, <1>2 DEF Max2
<1>4. units <= q => units * price <= q * price
  BY <1>1
<1> DEFINE m == units * price  k == q * price
<1>5. m \in Int /\ k \in Int /\ k <= credit /\ (units <= q => m <= k)
  BY <1>1, <1>4
<1> HIDE DEF m, k
<1>6. units = 0 \/ m <= credit
  BY <1>3, <1>5
<1>7. QED BY <1>6 DEF m

LEMMA serveOK ==
  ASSUME NEW w, WorldOK(w), NEW chunk \in Nat
  PROVE  LET x == serve(w, chunk)
         IN /\ WorldOK(x) /\ AllSpared(w, x) /\ PegSame(w, x)
            /\ Only(w, x, {"session", "tickets"})
<1> DEFINE s == w.session
           wanted == Min2(s.bytes + chunk, s.target)
           next == Min2(wanted, maxBytes(w))
           finished == next >= s.target \/ next < wanted
           due == boundaries(s, w.params.receipt, next, finished)
           s0 == [s EXCEPT !.bytes = next, !.servedPrice = w.price]
           w0 == [w EXCEPT !.session = s0]
           r == Receipts(w0, due)[Len(due)]
           throttled == IF ~r.ok THEN "phone" ELSE IF next < wanted THEN "credit" ELSE None
           s1 == [r.world.session EXCEPT !.done = finished \/ ~r.ok, !.throttled = throttled]
           z == [r.world EXCEPT !.session = s1]
           x == serve(w, chunk)
<1>1. CASE ~s.open \/ s.done
  <2>1. x = w
    BY <1>1 DEF serve
  <2>2. Only(w, w, {"session", "tickets"}) /\ AllSpared(w, w) /\ PegSame(w, w)
    BY SparedSelf DEF Only, WorldOK, IsWorld, PegSame
  <2>3. QED BY <2>1, <2>2
<1>2. CASE s.open /\ ~s.done
  <2>1. s \in Session /\ w.deployed /\ w.price > 0 /\ w.price \in Nat
    BY <1>2, SessionType
  <2>2. w.params.receipt \in Nat \ {0}
    BY WorldTypes DEF WorldOK, Params
  <2>3. /\ s.bytes \in Nat /\ s.target \in Nat /\ s.lastReceipt \in Nat
        /\ s.limit \in Nat /\ s.unsettledAtStart \in Nat
    BY <2>1 DEF Session
  <2>4. Shape(w) /\ "session" \in Fields /\ "session" \in DOMAIN w
    BY FieldNames DEF WorldOK, IsWorld, Shape
  <2>5. x = z
    <3> DEFINE v == [w EXCEPT !.session.bytes = next, !.session.servedPrice = w.price]
               q == Receipts(v, due)[Len(due)]
    <3>1. x = [q.world EXCEPT !.session.done = finished \/ ~q.ok,
                              !.session.throttled = IF ~q.ok THEN "phone"
                                                    ELSE IF next < wanted THEN "credit" ELSE None]
      BY <1>2 DEF serve
    <3>2. v = w0
      <4> HIDE DEF next
      <4>1. QED BY <2>4
    <3>3. q = r
      BY <3>2
    <3> HIDE DEF v, q, w0, due, r, finished, next, wanted
    <3>4. QED BY <3>1, <3>3
  <2> DEFINE limit == maxBytes(w)
  <2>6. limit \in Nat
    <3>1. (s.limit - s.unsettledAtStart) \div w.price \in Int
      BY <2>1, <2>3, DivFacts
    <3>2. QED BY <3>1 DEF maxBytes, Max2
  <2>7. wanted \in Nat
    BY <2>3 DEF Min2
  <2>8. next \in Nat /\ next <= limit
    <3> HIDE DEF wanted
    <3>1. next = Min2(wanted, limit)
      OBVIOUS
    <3> HIDE DEF limit
    <3>2. QED BY <2>6, <2>7, <3>1 DEF Min2
  <2>9. next = 0 \/ s.unsettledAtStart + next * w.price <= s.limit
    <3> HIDE DEF next
    <3> DEFINE credit == s.limit - s.unsettledAtStart
    <3>1. credit \in Int /\ next <= Max2(0, credit \div w.price)
      BY <2>3, <2>8 DEF maxBytes
    <3> HIDE DEF credit
    <3>2. next = 0 \/ next * w.price <= credit
      BY <2>1, <2>8, <3>1, CreditFor
    <3>3. next * w.price \in Nat
      BY <2>1, <2>8
    <3> DEFINE m == next * w.price
    <3>4. m \in Nat /\ (next = 0 \/ m <= credit)
      BY <3>2, <3>3
    <3> HIDE DEF m
    <3>5. next = 0 \/ s.unsettledAtStart + m <= s.limit
      BY <2>3, <3>4 DEF credit
    <3>6. QED BY <3>5 DEF m
  <2>10. finished \in BOOLEAN
    OBVIOUS
  <2> HIDE DEF wanted, next, limit, finished
  <2>11. /\ due \in Seq(Nat) /\ LastOf(s, due) \in Nat
         /\ next - LastOf(s, due) < w.params.receipt
         /\ finished => next <= LastOf(s, due)
    BY <2>2, <2>3, <2>8, <2>10, boundariesOK
  <2> HIDE DEF due
  <2>12. /\ s0 \in Session /\ s0.bytes = next /\ s0.servedPrice = w.price
         /\ s0.limit = s.limit /\ s0.unsettledAtStart = s.unsettledAtStart
         /\ s0.lastReceipt = s.lastReceipt
    BY <2>1, <2>8 DEF Session
  <2> HIDE DEF s0
  <2>13. Only(w, w0, {"session"}) /\ w0.session = s0
    BY <2>4 DEF Only, Shape
  <2> HIDE DEF w0
  <2>14. IsWorld(w0)
    <3>1. \A f \in {"session"} : w0[f] \in Types[f]
      BY <2>12, <2>13, TypesOf
    <3>2. {"session"} \subseteq Fields /\ IsWorld(w)
      BY FieldNames DEF WorldOK
    <3>3. QED BY <2>13, <3>1, <3>2, ChangedWorld
  <2>15. Signing(w0, r, LastOf(s0, due))
    BY <2>11, <2>12, <2>13, <2>14, ReceiptsSigned
  <2> HIDE DEF r
  <2> DEFINE q == r.world.session  lastDue == LastOf(s0, due)
  <2>16. LastOf(s0, due) = LastOf(s, due)
    BY <2>12 DEF LastOf
  <2>17. /\ r.ok \in BOOLEAN /\ IsWorld(r.world) /\ Only(w0, r.world, {"session", "tickets"})
         /\ q \in Session /\ q.bytes = next /\ q.servedPrice = w.price
         /\ q.limit = s.limit /\ q.unsettledAtStart = s.unsettledAtStart
         /\ r.ok => q.lastReceipt = lastDue
    BY <2>12, <2>13, <2>15 DEF Signing
  <2>18. throttled \in {None, "credit", "phone"} /\ (throttled # "phone" => r.ok)
    OBVIOUS
  <2> DEFINE over == finished \/ ~r.ok
  <2>19. over \in BOOLEAN
    OBVIOUS
  <2> HIDE DEF over, throttled
  <2>20. /\ s1 \in Session /\ s1.bytes = q.bytes /\ s1.servedPrice = q.servedPrice
         /\ s1.limit = q.limit /\ s1.unsettledAtStart = q.unsettledAtStart
         /\ s1.lastReceipt = q.lastReceipt /\ s1.throttled = throttled
    BY <2>17, <2>18, <2>19 DEF Session, over
  <2>21. s1.done = over
    BY <2>17 DEF Session, over
  <2> HIDE DEF s1, q
  <2>22. Only(r.world, z, {"session"}) /\ z.session = s1 /\ z.tickets = r.world.tickets
    <3> DEFINE y == r.world
    <3>1. Shape(y) /\ "session" \in Fields /\ "tickets" \in Fields /\ "session" \in DOMAIN y
      BY <2>17, FieldNames DEF IsWorld, Shape
    <3>2. z = [y EXCEPT !.session = s1]
      OBVIOUS
    <3> HIDE DEF y, z
    <3>3. Only(y, z, {"session"}) /\ z.session = s1 /\ z.tickets = y.tickets
      BY <3>1, <3>2 DEF Only, Shape
    <3>4. QED BY <3>3 DEF y
  <2> HIDE DEF z
  <2>23. Only(w, z, {"session", "tickets"})
    BY <2>13, <2>17, <2>22 DEF Only
  <2>24. z.tickets \in [Clients -> Seq(Ticket)]
    BY <2>17, <2>22, WorldTypes
  <2>25. SessionOK(z)
    <3>1. z.deployed = w.deployed /\ z.params = w.params
      BY <2>23, FieldNames DEF Only
    <3>2. s1.bytes = 0 \/ s1.unsettledAtStart + s1.bytes * s1.servedPrice <= s1.limit
      BY <2>9, <2>17, <2>20
    <3>3. s1.done \/ s1.bytes - s1.lastReceipt < w.params.receipt
      <4>1. ~over => r.ok
        BY <2>17 DEF over
      <4>2. ~over => s1.lastReceipt = lastDue
        BY <2>17, <2>20, <4>1
      <4>3. QED BY <2>11, <2>16, <2>17, <2>20, <2>21, <4>2
    <3>4. s1.done /\ s1.throttled # "phone" => s1.bytes <= s1.lastReceipt
      <4>1. ASSUME s1.done, s1.throttled # "phone" PROVE s1.bytes <= s1.lastReceipt
        <5>1. r.ok /\ over
          BY <2>18, <2>20, <2>21, <4>1
        <5>2. finished /\ s1.lastReceipt = lastDue
          BY <2>17, <2>20, <5>1 DEF over
        <5>3. QED BY <2>11, <2>16, <2>17, <2>20, <5>2
      <4>2. QED BY <4>1
    <3>5. QED BY <2>1, <2>22, <3>1, <3>2, <3>3, <3>4 DEF SessionOK
  <2>26. WorldOK(z) /\ AllSpared(w, z) /\ PegSame(w, z)
    BY <2>20, <2>22, <2>23, <2>24, <2>25, SessionSet
  <2>27. QED BY <2>5, <2>23, <2>26
<1>3. QED BY <1>1, <1>2

LEMMA BrowsedStep ==
  ASSUME NEW w, NEW n \in Nat
  PROVE  Browsed(w, n) =
             [i \in 0 .. n |-> IF i = 0 THEN w ELSE serve(Browsed(w, n)[i - 1], 4)]
<1> DEFINE n_ == n
           first == w
           Unfolds(s, k) == s = [i \in 0 .. k |-> IF i = 0 THEN first ELSE serve(s[i - 1], 4)]
           P == {k \in 0 .. n_ : \E s : Unfolds(s, k)}
<1> HIDE DEF first
<1>1. 0 \in P
  <2> DEFINE g == [i \in 0 .. 0 |-> first]
  <2>1. Unfolds(g, 0)
    OBVIOUS
  <2>2. 0 \in 0 .. n_
    OBVIOUS
  <2> HIDE DEF Unfolds, n_, g
  <2>3. QED BY <2>1, <2>2
<1>2. ASSUME NEW k \in 0 .. n_, k < n_, k \in P PROVE k + 1 \in P
  <2>1. PICK s : Unfolds(s, k)
    BY <1>2
  <2> DEFINE g == [i \in 0 .. k + 1 |-> IF i = k + 1 THEN serve(s[k], 4) ELSE s[i]]
  <2>2. Unfolds(g, k + 1)
    BY <2>1
  <2>3. k + 1 \in 0 .. n_
    BY <1>2
  <2> HIDE DEF Unfolds
  <2>4. QED BY <2>2, <2>3
<1>3. n_ \in P
  <2> HIDE DEF P
  <2>1. n_ \in Nat
    OBVIOUS
  <2> HIDE DEF n_
  <2>2. \A k \in 0 .. n_ : k < n_ /\ k \in P => k + 1 \in P
    BY <1>2
  <2>3. n_ \in 0 .. n_
    BY <2>1
  <2>4. \A k \in 0 .. n_ : k \in P
    BY <1>1, <2>1, <2>2, SetInduction
  <2>5. QED BY <2>3, <2>4
<1>4. Browsed(w, n) = CHOOSE s : Unfolds(s, n_)
  BY DEF Browsed, first
<1>5. \E s : Unfolds(s, n_)
  BY <1>3
<1> HIDE DEF Unfolds
<1>6. Unfolds(Browsed(w, n), n_)
  BY <1>4, <1>5
<1>7. QED BY <1>6 DEF Unfolds, first

LEMMA FilteredStep ==
  ASSUME NEW list, NEW good, Len(list) \in Nat
  PROVE  Filtered(list, good) =
             [i \in 0 .. Len(list) |-> IF i = 0 THEN << >> ELSE IF list[i] \in good THEN Append(Filtered(list, good)[i - 1], list[i]) ELSE Filtered(list, good)[i - 1]]
<1> DEFINE n_ == Len(list)
           first == << >>
           Add(p, i) == IF list[i] \in good THEN Append(p, list[i]) ELSE p
           Unfolds(s, k) == s = [i \in 0 .. k |-> IF i = 0 THEN first ELSE Add(s[i - 1], i)]
           P == {k \in 0 .. n_ : \E s : Unfolds(s, k)}
<1> HIDE DEF first, Add
<1>1. 0 \in P
  <2> DEFINE g == [i \in 0 .. 0 |-> first]
  <2>1. Unfolds(g, 0)
    OBVIOUS
  <2>2. 0 \in 0 .. n_
    OBVIOUS
  <2> HIDE DEF Unfolds, n_, g
  <2>3. QED BY <2>1, <2>2
<1>2. ASSUME NEW k \in 0 .. n_, k < n_, k \in P PROVE k + 1 \in P
  <2>1. PICK s : Unfolds(s, k)
    BY <1>2
  <2> DEFINE g == [i \in 0 .. k + 1 |-> IF i = k + 1 THEN Add(s[k], k + 1) ELSE s[i]]
  <2>2. Unfolds(g, k + 1)
    BY <2>1
  <2>3. k + 1 \in 0 .. n_
    BY <1>2
  <2> HIDE DEF Unfolds
  <2>4. QED BY <2>2, <2>3
<1>3. n_ \in P
  <2> HIDE DEF P
  <2>1. n_ \in Nat
    OBVIOUS
  <2> HIDE DEF n_
  <2>2. \A k \in 0 .. n_ : k < n_ /\ k \in P => k + 1 \in P
    BY <1>2
  <2>3. n_ \in 0 .. n_
    BY <2>1
  <2>4. \A k \in 0 .. n_ : k \in P
    BY <1>1, <2>1, <2>2, SetInduction
  <2>5. QED BY <2>3, <2>4
<1>4. Filtered(list, good) = CHOOSE s : Unfolds(s, n_)
  BY DEF Filtered, first, Add
<1>5. \E s : Unfolds(s, n_)
  BY <1>3
<1> HIDE DEF Unfolds
<1>6. Unfolds(Filtered(list, good), n_)
  BY <1>4, <1>5
<1>7. QED BY <1>6 DEF Unfolds, first, Add

LEMMA BrowsedOK ==
  ASSUME NEW w, WorldOK(w), NEW n \in Nat
  PROVE  LET x == Browsed(w, n)[n]
         IN WorldOK(x) /\ AllSpared(w, x) /\ PegSame(w, x)
<1> DEFINE xs == Browsed(w, n)
           P == {i \in 0 .. n : WorldOK(xs[i]) /\ AllSpared(w, xs[i]) /\ PegSame(w, xs[i])}
<1>1. xs = [i \in 0 .. n |-> IF i = 0 THEN w ELSE serve(xs[i - 1], 4)]
  BY BrowsedStep
<1> HIDE DEF xs
<1>2. 0 \in P
  BY <1>1, SparedSelf DEF PegSame
<1>3. ASSUME NEW i \in 0 .. n, i < n, i \in P PROVE i + 1 \in P
  <2>1. i + 1 \in 0 .. n /\ i + 1 # 0 /\ (i + 1) - 1 = i
    BY <1>3
  <2>2. xs[i + 1] = serve(xs[i], 4)
    BY <1>1, <2>1
  <2>3. WorldOK(xs[i]) /\ AllSpared(w, xs[i]) /\ PegSame(w, xs[i])
    BY <1>3
  <2> DEFINE y == xs[i]  z == serve(y, 4)
  <2>4. WorldOK(z) /\ AllSpared(y, z) /\ PegSame(y, z)
    BY <2>3, serveOK
  <2> HIDE DEF z
  <2>5. AllSpared(w, z) /\ PegSame(w, z)
    BY <2>3, <2>4, SparedTwice, PegTwice DEF WorldOK
  <2>6. QED BY <2>1, <2>2, <2>4, <2>5 DEF z
<1>4. \A i \in 0 .. n : i < n /\ i \in P => i + 1 \in P
  BY <1>3
<1> HIDE DEF P
<1>5. \A i \in 0 .. n : i \in P
  BY <1>2, <1>4, SetInduction
<1>6. n \in P
  BY <1>5
<1>7. QED BY <1>6 DEF P, xs

LEMMA FilteredType ==
  ASSUME NEW list \in Seq(Ticket), NEW good
  PROVE  Filtered(list, good)[Len(list)] \in Seq(Ticket)
<1> DEFINE n == Len(list)
           kept == Filtered(list, good)
           P == {i \in 0 .. n : kept[i] \in Seq(Ticket)}
<1>1. n \in Nat /\ \A i \in 1 .. n : list[i] \in Ticket
  OBVIOUS
<1>2. kept = [i \in 0 .. n |-> IF i = 0 THEN << >>
                               ELSE IF list[i] \in good THEN Append(kept[i - 1], list[i]) ELSE kept[i - 1]]
  BY <1>1, FilteredStep
<1> HIDE DEF n, kept
<1>3. 0 \in P
  BY <1>1, <1>2
<1>4. ASSUME NEW i \in 0 .. n, i < n, i \in P PROVE i + 1 \in P
  <2>1. i + 1 \in 0 .. n /\ i + 1 # 0 /\ (i + 1) - 1 = i /\ i + 1 \in 1 .. n
    BY <1>1, <1>4
  <2>2. kept[i + 1] = IF list[i + 1] \in good THEN Append(kept[i], list[i + 1]) ELSE kept[i]
    BY <1>2, <2>1
  <2>3. kept[i] \in Seq(Ticket) /\ list[i + 1] \in Ticket
    BY <1>1, <1>4, <2>1
  <2>4. Append(kept[i], list[i + 1]) \in Seq(Ticket)
    BY <2>3
  <2>5. QED BY <2>1, <2>2, <2>3, <2>4
<1>5. \A i \in 0 .. n : i < n /\ i \in P => i + 1 \in P
  BY <1>4
<1> HIDE DEF P
<1>6. \A i \in 0 .. n : i \in P
  BY <1>1, <1>3, <1>5, SetInduction
<1>7. n \in P
  BY <1>1, <1>6
<1>8. QED BY <1>7 DEF P, n, kept

LEMMA TicketsSet ==
  ASSUME NEW w, WorldOK(w), NEW x, Only(w, x, {"tickets"}), x.tickets \in [Clients -> Seq(Ticket)]
  PROVE  WorldOK(x) /\ AllSpared(w, x) /\ PegSame(w, x)
<1>1. \A f \in {"tickets"} : x[f] \in Types[f]
  BY TypesOf
<1>2. QED BY <1>1, Aside, PlainFields

LEMMA KeptOK ==
  ASSUME NEW w, WorldOK(w), NEW good
  PROVE  WorldOK(Kept(w, good)) /\ AllSpared(w, Kept(w, good)) /\ PegSame(w, Kept(w, good))
<1> DEFINE list == w.tickets["amina"]
           new == Filtered(list, good)[Len(list)]
           x == [w EXCEPT !.tickets["amina"] = new]
<1>1. Kept(w, good) = x
  BY DEF Kept
<1>2. w.tickets \in [Clients -> Seq(Ticket)] /\ "amina" \in Clients
  BY WorldTypes DEF WorldOK, Clients
<1>3. new \in Seq(Ticket)
  BY <1>2, FilteredType
<1> HIDE DEF new
<1>4. Only(w, x, {"tickets"}) /\ x.tickets = [w.tickets EXCEPT !["amina"] = new]
  BY FieldNames DEF WorldOK, IsWorld, Only, Shape
<1> HIDE DEF x
<1>5. x.tickets \in [Clients -> Seq(Ticket)]
  BY <1>2, <1>3, <1>4
<1>6. WorldOK(x) /\ AllSpared(w, x) /\ PegSame(w, x)
  BY <1>4, <1>5, TicketsSet
<1>7. QED BY <1>1, <1>6 DEF x

\* The units that a drill's tickets go on from.
DrillBase(w) == IF w.tickets["amina"] = << >> THEN w.channels["amina"].units
                ELSE Newest(w.tickets["amina"]).units

\* f[i] is the world after i of the n tickets.
SignsUp(f, w, n, step) ==
    /\ f = [i \in 0 .. n |->
                IF i = 0 THEN w
                ELSE signTicket(f[i - 1], "amina", "amina", DrillBase(w) + i * step).world]
    /\ signN(w, n, step) = f[n]

LEMMA signNStep ==
  ASSUME NEW w, NEW n \in Nat, NEW step
  PROVE  \E f : SignsUp(f, w, n, step)
<1> DEFINE Add(p, i) == signTicket(p, "amina", "amina", DrillBase(w) + i * step).world
           Unfolds(s, k) == s = [i \in 0 .. k |-> IF i = 0 THEN w ELSE Add(s[i - 1], i)]
           P == {k \in 0 .. n : \E s : Unfolds(s, k)}
<1> HIDE DEF Add
<1>1. 0 \in P
  <2> DEFINE g == [i \in 0 .. 0 |-> w]
  <2>1. Unfolds(g, 0)
    OBVIOUS
  <2>2. 0 \in 0 .. n
    OBVIOUS
  <2> HIDE DEF Unfolds, g
  <2>3. QED BY <2>1, <2>2
<1>2. ASSUME NEW k \in 0 .. n, k < n, k \in P PROVE k + 1 \in P
  <2>1. PICK s : Unfolds(s, k)
    BY <1>2
  <2> DEFINE g == [i \in 0 .. k + 1 |-> IF i = k + 1 THEN Add(s[k], k + 1) ELSE s[i]]
  <2>2. Unfolds(g, k + 1)
    BY <2>1
  <2>3. k + 1 \in 0 .. n
    BY <1>2
  <2> HIDE DEF Unfolds
  <2>4. QED BY <2>2, <2>3
<1>3. n \in P
  <2> HIDE DEF P
  <2>1. \A k \in 0 .. n : k < n /\ k \in P => k + 1 \in P
    BY <1>2
  <2>2. n \in 0 .. n
    OBVIOUS
  <2>3. \A k \in 0 .. n : k \in P
    BY <1>1, <2>1, SetInduction
  <2>4. QED BY <2>2, <2>3
<1> DEFINE f == CHOOSE s : Unfolds(s, n)
<1>4. signN(w, n, step) = f[n]
  BY DEF signN, Add, DrillBase
<1>5. \E s : Unfolds(s, n)
  BY <1>3
<1> HIDE DEF Unfolds
<1>6. Unfolds(f, n)
  BY <1>5
<1> HIDE DEF f
<1>7. SignsUp(f, w, n, step)
  BY <1>4, <1>6 DEF Unfolds, Add, SignsUp
<1>8. QED BY <1>7

\* With the phone at hand, that many tickets are signed.
LEMMA signNOK ==
  ASSUME NEW w, WorldOK(w), NEW n \in Nat, NEW step \in Nat
  PROVE  LET x == signN(w, n, step)
         IN /\ WorldOK(x) /\ AllSpared(w, x) /\ PegSame(w, x)
            /\ x.tickets["amina"] \in Seq(Ticket)
            /\ w.devices["amina"] =>
                   Len(x.tickets["amina"]) = Len(w.tickets["amina"]) + n
<1> DEFINE base == DrillBase(w)
           Signs(i, x) == /\ Only(w, x, {"tickets"}) /\ WorldOK(x)
                          /\ x.tickets \in [Clients -> Seq(Ticket)]
                          /\ w.devices["amina"] =>
                                 Len(x.tickets["amina"]) = Len(w.tickets["amina"]) + i
<1>1. "amina" \in Clients /\ "amina" \in ACTORS
  BY DEF Clients, ACTORS
<1>2. base \in Nat
  <2>1. w.tickets["amina"] \in Seq(Ticket) /\ w.channels["amina"].units \in Nat
    BY <1>1, WorldTypes DEF WorldOK, Channel
  <2>2. w.tickets["amina"] # << >> => Newest(w.tickets["amina"]) \in Ticket
    BY <2>1 DEF Newest
  <2>3. w.tickets["amina"] # << >> => Newest(w.tickets["amina"]).units \in Nat
    BY <2>2 DEF Ticket
  <2>4. QED BY <2>1, <2>3 DEF DrillBase
<1>0. PICK f : SignsUp(f, w, n, step)
  BY signNStep
<1>3. /\ f = [i \in 0 .. n |->
                IF i = 0 THEN w
                ELSE signTicket(f[i - 1], "amina", "amina", base + i * step).world]
      /\ signN(w, n, step) = f[n]
  BY <1>0 DEF SignsUp
<1> HIDE DEF base
<1> DEFINE P == {i \in 0 .. n : Signs(i, f[i])}
<1>4. 0 \in P
  <2>1. Only(w, w, {"tickets"}) /\ w.tickets \in [Clients -> Seq(Ticket)]
    BY WorldTypes DEF Only, WorldOK, IsWorld
  <2>2. Len(w.tickets["amina"]) \in Nat
    BY <1>1, <2>1
  <2>3. f[0] = w /\ 0 \in 0 .. n
    BY <1>3
  <2>4. Signs(0, w)
    BY <2>1, <2>2
  <2> HIDE DEF Signs
  <2>5. QED BY <2>3, <2>4
<1>5. ASSUME NEW i \in 0 .. n, i < n, i \in P PROVE i + 1 \in P
  <2> DEFINE x == f[i]
             u == base + (i + 1) * step
             r == signTicket(x, "amina", "amina", u)
  <2>0. i + 1 \in 0 .. n /\ i + 1 # 0 /\ (i + 1) - 1 = i /\ i + 1 \in Nat
    BY <1>5
  <2>1. i + 1 \in 0 .. n /\ i + 1 # 0 /\ (i + 1) - 1 = i /\ (i + 1) * step \in Nat
    BY <2>0
  <2>2. f[i + 1] = r.world
    BY <1>3, <2>1
  <2>3. u \in Nat
    BY <1>2, <2>1
  <2>4. Signs(i, x)
    BY <1>5
  <2> HIDE DEF x, u
  <2>5. /\ Only(w, x, {"tickets"}) /\ WorldOK(x) /\ x.tickets \in [Clients -> Seq(Ticket)]
        /\ w.devices["amina"] => Len(x.tickets["amina"]) = Len(w.tickets["amina"]) + i
    BY <2>4
  <2>6. /\ Only(x, r.world, {"tickets"}) /\ r.world.tickets \in [Clients -> Seq(Ticket)]
        /\ r.ok => Appended(x, r, "amina")
    BY <1>1, <2>3, <2>5, SignedTicket DEF WorldOK
  <2>7. r.ok = x.devices["amina"]
    BY <1>1, <2>3, <2>5, SignedTicket DEF WorldOK
  <2> HIDE DEF r
  <2>8. x.devices = w.devices
    BY <2>5, FieldNames DEF Only
  <2>9. ASSUME w.devices["amina"]
        PROVE  Len(r.world.tickets["amina"]) = Len(w.tickets["amina"]) + (i + 1)
    <3>1. r.result \in Ticket
          /\ r.world.tickets = [x.tickets EXCEPT !["amina"] = Append(@, r.result)]
      BY <2>6, <2>7, <2>8, <2>9 DEF Appended
    <3> DEFINE list == x.tickets["amina"]
    <3>2. list \in Seq(Ticket) /\ r.world.tickets["amina"] = Append(list, r.result)
      BY <1>1, <2>5, <3>1
    <3> HIDE DEF list
    <3>3. Len(r.world.tickets["amina"]) = Len(list) + 1
      BY <3>1, <3>2
    <3>4. Len(list) = Len(w.tickets["amina"]) + i
      BY <2>5, <2>9 DEF list
    <3>5. Len(w.tickets["amina"]) \in Nat
      BY <1>1, WorldTypes DEF WorldOK
    <3> DEFINE old == Len(w.tickets["amina"])  signed == Len(list)
    <3>6. signed = old + i /\ old \in Nat /\ i \in Nat
      BY <3>4, <3>5
    <3> HIDE DEF old, signed
    <3>7. signed + 1 = old + (i + 1)
      BY <3>6
    <3>8. QED BY <3>3, <3>7 DEF old, signed
  <2>10. Only(w, r.world, {"tickets"}) /\ WorldOK(r.world)
    BY <2>5, <2>6, OnlyTwice, TicketsSet DEF Only
  <2>11. Signs(i + 1, r.world)
    BY <2>6, <2>9, <2>10
  <2> HIDE DEF Signs
  <2>12. QED BY <2>1, <2>2, <2>11
<1>6. \A i \in 0 .. n : i < n /\ i \in P => i + 1 \in P
  BY <1>5
<1> HIDE DEF P
<1>7. \A i \in 0 .. n : i \in P
  BY <1>4, <1>6, SetInduction
<1>8. n \in P
  BY <1>7
<1> DEFINE x == signN(w, n, step)
<1>9. Signs(n, x)
  BY <1>3, <1>8 DEF P
<1> HIDE DEF x
<1>10. WorldOK(x) /\ AllSpared(w, x) /\ PegSame(w, x)
  BY <1>9, TicketsSet
<1>11. x.tickets["amina"] \in Seq(Ticket)
  BY <1>1, <1>9
<1>12. QED BY <1>9, <1>10, <1>11 DEF x

-----------------------------------------------------------------------------
(* Deployed contracts stay. *)

\* x is a world that has contracts if and only if w has.
Stays(w, x) == Shape(x) /\ x.deployed = w.deployed

LEMMA callStays ==
  ASSUME NEW w, Shape(w), NEW x, Stays(w, x), NEW fn, NEW payer, NEW needs
  PROVE  Stays(w, call(w, fn, payer, needs, x).world)
<1>1. \A y : Shape(y) => Stays(y, burnGas(y, payer))
  <2> SUFFICES ASSUME NEW y, Shape(y) PROVE Stays(y, burnGas(y, payer))
    OBVIOUS
  <2>1. CASE payer \notin Clients
    BY <2>1 DEF burnGas, Stays
  <2>2. CASE payer \in Clients
    <3> DEFINE eth == [y.eth EXCEPT ![payer] = @ - 1]
               z == [y EXCEPT !.eth = eth]
    <3>1. burnGas(y, payer) = z
      BY <2>2 DEF burnGas
    <3> HIDE DEF eth
    <3>2. Stays(y, z)
      BY FieldNames DEF Shape, Stays
    <3>3. QED BY <3>1, <3>2
  <2>3. QED BY <2>1, <2>2
<1>2. Stays(w, burnGas(w, payer)) /\ Stays(w, burnGas(x, payer)) /\ Stays(w, w)
  BY <1>1 DEF Stays
<1>3. QED BY <1>2 DEF call, Done, Failed

LEMMA OnlyStays ==
  ASSUME NEW w, NEW x, NEW F, Only(w, x, F), "deployed" \notin F
  PROVE  Stays(w, x)
BY FieldNames DEF Only, Stays

LEMMA setupNetworkStays ==
  ASSUME NEW w, WorldOK(w)
  PROVE  setupNetwork(w).world.deployed = TRUE
<1> DEFINE x == IF w.deployed THEN w ELSE deploy(w)
           b == [x.bridges["kiosk"] EXCEPT !.allowed = TRUE, !.cap = x.params.mintCap]
           bridges == [x.bridges EXCEPT !["kiosk"] = b]
           y == [x EXCEPT !.bridges = bridges]
           needs == OnlyOwner(x, "token", "owner")
<1>1. Shape(x) /\ x.deployed = TRUE
  <2>1. Shape(w) /\ w.deployed \in BOOLEAN
    BY WorldTypes DEF WorldOK, IsWorld
  <2>2. ~w.deployed => deploy(w).deployed = TRUE
    BY <2>1, FieldNames DEF deploy, Shape
  <2>3. ~w.deployed => Shape(deploy(w))
    BY deployOK DEF WorldOK, IsWorld
  <2>4. CASE w.deployed
    <3>1. w.deployed = TRUE /\ x = w
      BY <2>1, <2>4
    <3> HIDE DEF x
    <3>2. QED BY <2>1, <3>1
  <2>5. CASE ~w.deployed
    <3>1. x = deploy(w)
      BY <2>5
    <3> HIDE DEF x
    <3>2. QED BY <2>2, <2>3, <2>5, <3>1
  <2>6. QED BY <2>4, <2>5
<1>2. setupNetwork(w) = call(x, "setBridge", "owner", needs, y)
  BY DEF setupNetwork, setBridge
<1> HIDE DEF x, bridges, needs
<1>3. Stays(x, y)
  BY <1>1, FieldNames DEF Shape, Stays
<1> HIDE DEF y
<1>4. Stays(x, call(x, "setBridge", "owner", needs, y).world)
  BY <1>1, <1>3, callStays
<1>5. QED BY <1>1, <1>2, <1>4 DEF Stays

LEMMA stkPushStays ==
  ASSUME NEW w, WorldOK(w), NEW client, NEW amount, NEW fail
  PROVE  Stays(w, stkPush(w, client, amount, fail).world)
<1> DEFINE m == [w.mpesa EXCEPT ![client] = @ - amount]  f == w.float + amount
           x == [w EXCEPT !.mpesa = m, !.float = f]
<1>1. Shape(w)
  BY DEF WorldOK, IsWorld
<1>2. stkPush(w, client, amount, fail).world \in {x, w}
  BY DEF stkPush, callOff, Done, Failed
<1> HIDE DEF m, f
<1>3. Stays(w, x) /\ Stays(w, w)
  BY <1>1, FieldNames DEF Shape, Stays
<1>4. QED BY <1>2, <1>3

LEMMA bridgeMintStays ==
  ASSUME NEW w, WorldOK(w), NEW from, NEW to, NEW amount
  PROVE  Stays(w, bridgeMint(w, from, to, amount).world)
<1> DEFINE info == Window(w, from)
           needs == info.allowed /\ info.minted + amount <= info.cap
           b == [w.bridges EXCEPT ![from] = [info EXCEPT !.minted = @ + amount]]
           s == w.supply + amount
           bal == [w.bal EXCEPT ![to] = @ + amount]
           x == [w EXCEPT !.bridges = b, !.supply = s, !.bal = bal]
<1>1. Shape(w)
  BY DEF WorldOK, IsWorld
<1>2. bridgeMint(w, from, to, amount) = call(w, "bridgeMint", from, needs, x)
  BY DEF bridgeMint
<1> HIDE DEF b, s, bal, needs
<1>3. Stays(w, x)
  BY <1>1, FieldNames DEF Shape, Stays
<1> HIDE DEF x
<1>4. QED BY <1>1, <1>2, <1>3, callStays

LEMMA buyStays ==
  ASSUME NEW w, WorldOK(w), NEW client \in Clients, NEW amount \in Nat, NEW failStk \in BOOLEAN
  PROVE  Stays(w, buy(w, client, amount, failStk).world)
<1> DEFINE r1 == stkPush(w, client, amount, failStk)
           r2 == bridgeMint(r1.world, "kiosk", client, amount)
           s == IF r1.ok THEN r2 ELSE r1
           r3 == issueVoucher(s.world, client, amount)
<1>1. buy(w, client, amount, failStk) = IF s.ok THEN r3 ELSE s
  BY DEF buy, Then
<1>2. client \in ACTORS /\ "kiosk" \in ACTORS /\ amount \in Int /\ amount >= 0
  BY DEF ACTORS
<1>3. WorldOK(r1.world)
  BY <1>2, stkPushOK DEF Right
<1>4. Stays(w, r1.world)
  BY stkPushStays
<1> HIDE DEF r1
<1>5. Stays(r1.world, r2.world)
  BY <1>3, bridgeMintStays
<1>6. WorldOK(r2.world)
  BY <1>2, <1>3, bridgeMintOK DEF Right
<1> HIDE DEF r2
<1>7. WorldOK(s.world) /\ Stays(w, s.world)
  BY <1>3, <1>4, <1>5, <1>6 DEF Stays
<1> HIDE DEF s
<1>8. Only(s.world, r3.world, {"vouchers"})
  BY <1>2, <1>7, issueVoucherOK
<1> HIDE DEF r3
<1>9. Stays(s.world, r3.world)
  BY <1>8, OnlyStays
<1>10. QED BY <1>1, <1>7, <1>9 DEF Stays

LEMMA depositGaslessStays ==
  ASSUME NEW w, WorldOK(w), NEW client \in Clients, NEW amount \in Nat
  PROVE  Stays(w, depositGasless(w, client, amount).world)
<1> DEFINE r1 == signPermit(w, client, "escrow", amount)
           p == r1.result
           x == IF PermitHolds(w, p) THEN applyPermit(w, p) ELSE w
           a == [x.allow EXCEPT ![client]["escrow"] = @ - amount]
           d == [x.deposits EXCEPT ![client] = @ + amount]
           y == [x EXCEPT !.allow = a, !.deposits = d]
           z == Transferred(y, client, "escrow", amount)
           needs == CanDeposit(x, client, amount)
           r2 == depositWithPermit(w, "kiosk", client, amount, p)
<1>1. r1.world = w
  <2>1. client \in ACTORS /\ "escrow" \in SPENDERS
    BY DEF ACTORS, SPENDERS
  <2>2. QED BY <2>1, signPermitOK
<1>2. depositGasless(w, client, amount) = IF r1.ok THEN r2 ELSE r1
  BY <1>1 DEF depositGasless, Then
<1>3. Shape(w)
  BY DEF WorldOK, IsWorld
<1>4. r2 = call(w, "depositWithPermit", "kiosk", needs, z)
  BY DEF depositWithPermit, Deposited
<1> HIDE DEF r1, p, r2, needs
<1>5. Stays(w, x)
  <2> DEFINE n == [w.nonces EXCEPT ![p.owner] = @ + 1]
             b == [w.allow EXCEPT ![p.owner][p.spender] = p.value]
             v == [w EXCEPT !.nonces = n, !.allow = b]
  <2>1. x \in {v, w}
    BY DEF applyPermit
  <2> HIDE DEF n, b, x
  <2>2. Stays(w, v) /\ Stays(w, w)
    BY <1>3, FieldNames DEF Shape, Stays
  <2>3. QED BY <2>1, <2>2
<1> HIDE DEF x, a, d
<1>6. Stays(x, y) /\ Shape(y)
  BY <1>5, FieldNames DEF Shape, Stays
<1> HIDE DEF y
<1>7. Only(y, z, {"bal"})
  BY <1>6, TransferredWorld
<1> HIDE DEF z
<1>8. Stays(w, z)
  BY <1>5, <1>6, <1>7, OnlyStays DEF Stays
<1>9. Stays(w, r2.world) /\ Stays(w, w)
  BY <1>3, <1>4, <1>8, callStays DEF Stays
<1>10. QED BY <1>1, <1>2, <1>9

-----------------------------------------------------------------------------
(* Worlds in which nothing was moved but by those it belongs to. *)

Still(w, x) == WorldOK(x) /\ AllSpared(w, x) /\ PegSame(w, x)

LEMMA StillSelf ==
  ASSUME NEW w, WorldOK(w)
  PROVE  Still(w, w)
BY SparedSelf DEF Still, PegSame

LEMMA StillTwice ==
  ASSUME NEW w, WorldOK(w), NEW x, NEW y, Still(w, x), Still(x, y)
  PROVE  Still(w, y)
<1>1. IsWorld(w) /\ IsWorld(x) /\ IsWorld(y) /\ AllSpared(w, x) /\ AllSpared(x, y)
  BY DEF Still, WorldOK
<1>2. AllSpared(w, y)
  BY <1>1, SparedTwice
<1>3. QED BY <1>2 DEF Still, PegSame

LEMMA CalmStill ==
  ASSUME NEW w, NEW r
  PROVE  Calm(w, r) <=> r.ok \in BOOLEAN /\ Still(w, r.world)
BY DEF Calm, Right, Still

LEMMA StillCalm ==
  ASSUME NEW w, WorldOK(w), NEW x, Still(w, x), NEW r, Calm(x, r)
  PROVE  Calm(w, r)
BY CalmStill, StillTwice

LEMMA VerdictCalm ==
  ASSUME NEW w, NEW x, Still(w, x), NEW ok \in BOOLEAN
  PROVE  Calm(w, Verdict(x, ok)) /\ Verdict(x, ok).failed = None
<1>1. Verdict(x, ok).world = x /\ Verdict(x, ok).ok = ok /\ Verdict(x, ok).failed = None
  BY DEF Verdict
<1> HIDE DEF Verdict
<1>2. QED BY <1>1, CalmStill

LEMMA createWorldOK ==
  /\ WorldOK(createWorld) /\ ~createWorld.deployed
<1> DEFINE c == createWorld
<1>1. Shape(c)
  BY DEF createWorld, Shape, Fields, Types
<1>2. /\ "owner" \in ACTORS /\ "kiosk" \in ACTORS
      /\ Clients \subseteq ACTORS
  BY DEF ACTORS
<1>3. /\ c.t \in Nat /\ c.deployed \in BOOLEAN /\ c.params \in Params /\ c.supply \in Int
      /\ c.bal \in Purses /\ c.allow \in [ACTORS -> [SPENDERS -> Nat]]
      /\ c.nonces \in [ACTORS -> Nat] /\ c.bridges \in [ACTORS -> Bridge]
  BY DemoConstants DEF createWorld, Purses, Bridge
<1>4. /\ c.owner \in [CONTRACTS -> ACTORS \cup {None}]
      /\ c.pendingOwner \in [CONTRACTS -> ACTORS \cup {None}]
      /\ c.deposits \in [ACTORS -> Nat] /\ c.earnings \in [ACTORS -> Nat]
      /\ c.channels \in [Clients -> Channel] /\ c.authNonces \in [ACTORS -> Nat]
      /\ c.price \in Nat /\ c.lastPriceChange \in Nat
  BY DEF createWorld, Channel, NoChannel
<1>5. /\ c.fee \in Fee /\ c.beneficiary \in ACTORS \cup {None} /\ c.pending \in ACTORS \cup {None}
      /\ c.activation \in Nat /\ c.float \in Nat
      /\ c.eth \in [Clients -> Int] /\ c.devices \in [ACTORS -> BOOLEAN]
      /\ c.session \in Session \cup {NoSession}
  BY DEF createWorld, Fee
<1>6. c.mpesa \in [ACTORS -> Nat]
  BY DemoConstants DEF createWorld
<1>7. c.tickets \in [Clients -> Seq(Ticket)]
  <2>1. << >> \in Seq(Ticket)
    OBVIOUS
  <2>2. QED BY <2>1 DEF createWorld
<1>8. c.vouchers \in [ACTORS -> Voucher]
  BY DEF createWorld, NoVoucher, Voucher
<1>9. IsWorld(c)
  <2>1. \A f \in Fields : c[f] \in Types[f]
    <3> HIDE DEF c
    <3>1. Fields = {"t", "deployed", "params", "supply", "bal", "allow", "nonces", "bridges",
                    "owner", "pendingOwner", "deposits", "earnings", "channels", "authNonces",
                    "price", "lastPriceChange", "fee", "beneficiary", "pending", "activation",
                    "mpesa", "float", "eth", "devices", "tickets", "vouchers", "session"}
      BY DEF Fields, Types
    <3>2. \A f \in {"t", "deployed", "params", "supply", "bal", "allow", "nonces", "bridges",
                    "owner", "pendingOwner", "deposits", "earnings", "channels", "authNonces"} :
              c[f] \in Types[f]
      BY <1>3, <1>4, <1>5, <1>6, <1>7, <1>8, TypesOf, Zenon
    <3>3. \A f \in {"price", "lastPriceChange", "fee", "beneficiary", "pending", "activation",
                    "mpesa", "float", "eth", "devices", "tickets", "vouchers", "session"} :
              c[f] \in Types[f]
      BY <1>3, <1>4, <1>5, <1>6, <1>7, <1>8, TypesOf, Zenon
    <3>4. QED BY <3>1, <3>2, <3>3
  <2>2. QED BY <1>1, <2>1 DEF IsWorld
<1>10. Money(c)
  <2>1. \A h \in HOLDERS : c.bal[h] = 0
    BY DEF createWorld
  <2>2. \A a \in ACTORS : c.deposits[a] = 0 /\ c.earnings[a] = 0
    BY DEF createWorld
  <2>3. c.supply = 0 /\ c.float = 0
    BY DEF createWorld
  <2>4. TotalOf(c.deposits) = 0 /\ TotalOf(c.earnings) = 0
    BY <2>2 DEF TotalOf, ACTORS, Clients
  <2>5. TotalOf(c.bal) = 0 /\ c.bal["escrow"] = 0 /\ c.bal["treasury"] = 0
    BY <2>1 DEF TotalOf, HOLDERS, ACTORS, Clients
  <2>6. TotalOf(c.mpesa) \in Int
    BY <1>6, TotalType
  <2>7. TotalOf(c.mpesa) = Phones
    BY DEF Phones
  <2> HIDE DEF c
  <2>8. QED BY <2>3, <2>4, <2>5, <2>6, <2>7 DEF Money, HeldBy
<1>11. Empty(c)
  BY DEF createWorld, Empty, None
<1>12. ~c.deployed /\ ~c.session.open
  BY DEF createWorld, NoSession
<1> HIDE DEF c
<1>13. WorldOK(c)
  BY <1>9, <1>10, <1>11, <1>12 DEF WorldOK, Deployment, SessionOK
<1>14. QED BY <1>12, <1>13 DEF c

LEMMA ActorNames ==
  /\ "amina" \in Clients /\ Clients \subseteq ACTORS /\ ACTORS \subseteq SPENDERS
  /\ "amina" \in ACTORS /\ "owner" \in ACTORS /\ "kiosk" \in ACTORS /\ "relayer" \in ACTORS
  /\ "node" \in ACTORS /\ "founder" \in ACTORS /\ "mallory" \in ACTORS
  /\ "escrow" \in SPENDERS /\ "escrow" \in HOLDERS
BY DEF Clients, ACTORS, SPENDERS, HOLDERS

LEMMA ensureReadyOK ==
  ASSUME NEW w, WorldOK(w)
  PROVE  Fine(w, ensureReady(w)) /\ ensureReady(w).world.deployed = TRUE
<1> DEFINE setup == setupNetwork(w)
           listed == IF ~w.deployed \/ ~w.bridges["kiosk"].allowed THEN setup ELSE Ok(w)
           x == listed.world
           buys == buy(x, "amina", kes(100), FALSE)
           q == IF x.deposits["amina"] < kes(20) /\ x.bal["amina"] < kes(50) THEN buys ELSE Ok(x)
           bought == IF listed.ok THEN q ELSE listed
           y == bought.world
           fills == depositGasless(y, "amina", kes(50))
           p == IF y.deposits["amina"] < kes(20) THEN fills ELSE Ok(y)
<1>1. ensureReady(w) = IF bought.ok THEN p ELSE bought
  BY DEF ensureReady, Then
<1>2. kes(100) \in Nat /\ kes(50) \in Nat /\ "amina" \in Clients
  BY kesType, ActorNames
<1>3. Fine(w, listed) /\ x.deployed = TRUE
  <2>1. Fine(w, setup) /\ setup.world.deployed = TRUE
    BY setupNetworkOK, CalmFine, setupNetworkStays
  <2>2. Fine(w, Ok(w)) /\ Ok(w).world = w
    BY CalmOk, CalmFine
  <2>3. w.deployed => w.deployed = TRUE
    BY WorldTypes DEF WorldOK
  <2> HIDE DEF setup
  <2>4. QED BY <2>1, <2>2, <2>3
<1> HIDE DEF listed
<1>4. WorldOK(x)
  BY <1>3 DEF Fine, Right
<1> HIDE DEF x
<1>5. Fine(x, q) /\ q.world.deployed = TRUE
  <2>1. Fine(x, buys)
    BY <1>2, <1>4, buyOK
  <2>2. buys.world.deployed = TRUE
    BY <1>2, <1>3, <1>4, buyStays DEF Stays
  <2>3. Fine(x, Ok(x)) /\ Ok(x).world = x
    BY <1>4, CalmOk, CalmFine
  <2> HIDE DEF buys
  <2>4. QED BY <1>3, <2>1, <2>2, <2>3
<1> HIDE DEF q
<1>6. Fine(w, bought)
  BY <1>3, <1>5, FineThen DEF x
<1>7. y.deployed = TRUE
  BY <1>3, <1>5 DEF x
<1> HIDE DEF bought
<1>8. WorldOK(y)
  BY <1>6 DEF Fine, Right
<1> HIDE DEF y
<1>9. Fine(y, p) /\ p.world.deployed = TRUE
  <2>1. Fine(y, fills)
    BY <1>2, <1>8, depositGaslessOK, CalmFine
  <2>2. fills.world.deployed = TRUE
    BY <1>2, <1>7, <1>8, depositGaslessStays DEF Stays
  <2>3. Fine(y, Ok(y)) /\ Ok(y).world = y
    BY <1>8, CalmOk, CalmFine
  <2> HIDE DEF fills
  <2>4. QED BY <1>7, <2>1, <2>2, <2>3
<1> HIDE DEF p
<1>10. Fine(w, IF bought.ok THEN p ELSE bought)
  BY <1>6, <1>9, FineThen DEF y
<1>11. QED BY <1>1, <1>7, <1>9, <1>10 DEF y

-----------------------------------------------------------------------------
(* The drills. *)

LEMMA SignedUp ==
  ASSUME NEW w, WorldOK(w), w.devices["amina"], NEW n \in Nat \ {0}, NEW step \in Nat
  PROVE  LET x == signN(w, n, step)
             list == x.tickets["amina"]
         IN /\ Still(w, x) /\ list \in Seq(Ticket) /\ Len(list) >= n
            /\ Newest(list) \in Ticket /\ <<Newest(list)>> \in Seq(Ticket)
<1> DEFINE x == signN(w, n, step)
           list == x.tickets["amina"]
           old == w.tickets["amina"]
<1>1. /\ WorldOK(x) /\ AllSpared(w, x) /\ PegSame(w, x) /\ list \in Seq(Ticket)
      /\ Len(list) = Len(old) + n
  BY signNOK
<1>2. old \in Seq(Ticket)
  <2>1. "amina" \in Clients
    BY ActorNames
  <2>2. QED BY <2>1, WorldTypes DEF WorldOK
<1> HIDE DEF x, list, old
<1>3. Len(list) >= n /\ Len(list) \in 1 .. Len(list)
  BY <1>1, <1>2
<1>4. Newest(list) \in Ticket
  BY <1>1, <1>3 DEF Newest
<1>5. Still(w, x)
  BY <1>1 DEF Still
<1>6. <<Newest(list)>> \in Seq(Ticket)
  BY <1>4
<1>7. QED BY <1>1, <1>3, <1>4, <1>5, <1>6 DEF x, list

LEMMA LostTicketsOK ==
  ASSUME NEW w, WorldOK(w), w.devices["amina"]
  PROVE  Calm(w, LostTickets(w))
<1> DEFINE x == signN(w, 3, 1)
           newest == <<Newest(x.tickets["amina"])>>
           r == settleTicketBatch(x, "relayer", newest)
<1>1. Still(w, x) /\ newest \in Seq(Ticket)
  <2>1. 3 \in Nat \ {0} /\ 1 \in Nat
    OBVIOUS
  <2>2. QED BY <2>1, SignedUp
<1>2. LostTickets(w) = r
  BY DEF LostTickets
<1> HIDE DEF x, newest
<1>3. Calm(x, r)
  <2>1. "relayer" \in ACTORS /\ WorldOK(x)
    BY <1>1, ActorNames DEF Still
  <2>2. QED BY <1>1, <2>1, settleTicketBatchOK
<1> HIDE DEF r
<1>4. QED BY <1>1, <1>2, <1>3, StillCalm

LEMMA ReplayedOK ==
  ASSUME NEW w, WorldOK(w), w.devices["amina"]
  PROVE  Calm(w, Replayed(w))
<1> DEFINE x == signN(w, 2, 1)
           list == x.tickets["amina"]
           two == NewTickets(x, 2)
           newer == <<two[2]>>
           older == <<two[1]>>
           r1 == settleTicketBatch(x, "relayer", newer)
           r2 == settleTicketBatch(r1.world, "mallory", older)
<1>1. Still(w, x) /\ list \in Seq(Ticket) /\ Len(list) >= 2
  <2>1. 2 \in Nat \ {0} /\ 1 \in Nat
    OBVIOUS
  <2>2. QED BY <2>1, SignedUp
<1>2. Replayed(w) = Verdict(r2.world, ~r2.ok)
  BY DEF Replayed
<1>3. two = SubSeq(list, Max2(1, Len(list) - 2 + 1), Len(list))
  BY DEF NewTickets
<1> HIDE DEF x, list, two
<1>4. newer \in Seq(Ticket) /\ older \in Seq(Ticket)
  <2> DEFINE n == Len(list)
  <2>1. n \in Nat /\ n >= 2 /\ Max2(1, n - 2 + 1) = n - 1
    <3>1. n \in Nat /\ n >= 2
      BY <1>1
    <3> HIDE DEF n
    <3>2. Max2(1, n - 2 + 1) = n - 1
      BY <3>1 DEF Max2
    <3>3. QED BY <3>1, <3>2
  <2>2. two = SubSeq(list, n - 1, n) /\ list[n] \in Ticket /\ list[n - 1] \in Ticket
    BY <1>1, <1>3, <2>1
  <2> HIDE DEF n
  <2>3. two[1] = list[n - 1] /\ two[2] = list[n]
    BY <2>1, <2>2
  <2>4. two[1] \in Ticket /\ two[2] \in Ticket
    BY <2>2, <2>3
  <2> HIDE DEF n
  <2>5. QED BY <2>4
<1> HIDE DEF newer, older
<1>5. Calm(x, r1)
  <2>1. "relayer" \in ACTORS /\ WorldOK(x)
    BY <1>1, ActorNames DEF Still
  <2>2. QED BY <1>4, <2>1, settleTicketBatchOK
<1> HIDE DEF r1
<1>6. Calm(r1.world, r2)
  <2>1. "mallory" \in ACTORS /\ WorldOK(r1.world)
    BY <1>5, ActorNames DEF Calm, Right
  <2>2. QED BY <1>4, <2>1, settleTicketBatchOK
<1> HIDE DEF r2
<1>7. Still(w, r2.world)
  BY <1>1, <1>5, <1>6, CalmStill, StillTwice
<1>8. QED BY <1>2, <1>7, VerdictCalm

LEMMA ForgedOK ==
  ASSUME NEW w, WorldOK(w), w.devices["node"]
  PROVE  Calm(w, Forged(w))
<1> DEFINE n == BaseUnits(w, "amina") + 2
           r0 == signTicket(w, "amina", "node", n)
           forged == <<r0.result>>
           r == settleTicketBatch(r0.world, "relayer", forged)
           good == {t_ \in Store(r.world) : t_.signedBy = "amina"}
           x == Kept(r.world, good)
<1>1. "amina" \in Clients /\ "node" \in ACTORS /\ "relayer" \in ACTORS
  BY ActorNames
<1>2. n \in Nat
  BY <1>1, BaseUnitsType DEF WorldOK
<1>3. Forged(w) = Verdict(x, ~r.ok)
  BY DEF Forged
<1> HIDE DEF n
<1>4. Calm(w, r0)
  BY <1>1, <1>2, signTicketOK
<1>5. r0.result \in Ticket
  <2>1. r0.ok = w.devices["node"]
    BY <1>1, <1>2, SignedTicket DEF WorldOK
  <2>2. r0.ok => Appended(w, r0, "amina")
    BY <1>1, <1>2, SignedTicket DEF WorldOK
  <2> HIDE DEF r0
  <2>3. QED BY <2>1, <2>2 DEF Appended
<1> HIDE DEF r0
<1>6. forged \in Seq(Ticket)
  BY <1>5
<1> HIDE DEF forged
<1>7. Calm(r0.world, r)
  <2>1. WorldOK(r0.world)
    BY <1>4 DEF Calm, Right
  <2>2. QED BY <1>1, <1>6, <2>1, settleTicketBatchOK
<1> HIDE DEF r, good
<1>8. Still(r.world, x)
  BY <1>7, KeptOK DEF Calm, Right, Still
<1> HIDE DEF x
<1>9. Still(w, x)
  BY <1>4, <1>7, <1>8, CalmStill, StillTwice
<1>10. QED BY <1>3, <1>9, VerdictCalm

LEMMA ExpiredOK ==
  ASSUME NEW w, WorldOK(w), w.devices["amina"]
  PROVE  Calm(w, Expired(w))
<1> DEFINE x == signN(w, 1, 1)
           newest == <<Newest(x.tickets["amina"])>>
           hours == x.params.epoch + 1
           late == warp(x, hours).world
           r == settleTicketBatch(late, "relayer", newest)
           good == {t_ \in Store(r.world) : t_.expiry >= r.world.t}
           y == Kept(r.world, good)
<1>1. Still(w, x) /\ newest \in Seq(Ticket)
  <2>1. 1 \in Nat \ {0} /\ 1 \in Nat
    OBVIOUS
  <2>2. QED BY <2>1, SignedUp
<1>2. Expired(w) = Verdict(y, ~r.ok)
  BY DEF Expired
<1> HIDE DEF x, newest
<1>3. WorldOK(x)
  BY <1>1 DEF Still
<1>4. hours \in Nat
  <2>1. x.params \in Params
    BY <1>3, WorldTypes DEF WorldOK
  <2>2. QED BY <2>1 DEF Params
<1> HIDE DEF hours
<1>5. Still(x, late)
  BY <1>3, <1>4, warpOK, CalmStill
<1> HIDE DEF late
<1>6. Calm(late, r)
  <2>1. "relayer" \in ACTORS /\ WorldOK(late)
    BY <1>5, ActorNames DEF Still
  <2>2. QED BY <1>1, <2>1, settleTicketBatchOK
<1> HIDE DEF r, good
<1>7. Still(r.world, y)
  BY <1>6, KeptOK DEF Calm, Right, Still
<1> HIDE DEF y
<1>8. Still(w, r.world)
  BY <1>1, <1>5, <1>6, CalmStill, StillTwice
<1>9. Still(w, y)
  BY <1>7, <1>8, StillTwice
<1>10. QED BY <1>2, <1>9, VerdictCalm

LEMMA DrainOK ==
  ASSUME NEW w, WorldOK(w), w.devices["amina"]
  PROVE  Calm(w, Drain(w))
<1> DEFINE x == signN(w, 1, 2)
           newest == <<Newest(x.tickets["amina"])>>
           left == x.deposits["amina"]
           n == left - Min2(kes(1), left)
           out == withdrawGasless(x, "amina", n)
           r == settleTicketBatch(out.world, "relayer", newest)
<1>1. Still(w, x) /\ newest \in Seq(Ticket)
  <2>1. 1 \in Nat \ {0} /\ 2 \in Nat
    OBVIOUS
  <2>2. QED BY <2>1, SignedUp
<1>2. Drain(w) = Verdict(r.world, out.ok /\ r.ok)
  BY DEF Drain
<1> HIDE DEF x, newest
<1>3. WorldOK(x) /\ "amina" \in Clients /\ "amina" \in ACTORS /\ "relayer" \in ACTORS
  BY <1>1, ActorNames DEF Still
<1>4. n \in Nat
  <2>1. left \in Nat /\ kes(1) \in Nat
    BY <1>3, kesType, WorldTypes DEF WorldOK
  <2> HIDE DEF left
  <2>2. QED BY <2>1 DEF Min2
<1> HIDE DEF n
<1>5. Calm(x, out)
  BY <1>3, <1>4, withdrawGaslessOK
<1> HIDE DEF out
<1>6. Calm(out.world, r)
  <2>1. WorldOK(out.world)
    BY <1>5 DEF Calm, Right
  <2>2. QED BY <1>1, <1>3, <2>1, settleTicketBatchOK
<1> HIDE DEF r
<1>7. Still(w, r.world)
  BY <1>1, <1>5, <1>6, CalmStill, StillTwice
<1>8. (out.ok /\ r.ok) \in BOOLEAN
  OBVIOUS
<1>9. QED BY <1>2, <1>7, <1>8, VerdictCalm

LEMMA RedirectOK ==
  ASSUME NEW w, WorldOK(w), w.devices["amina"]
  PROVE  Calm(w, Redirect(w))
<1> DEFINE s == signAuth(w, "withdraw", "amina", "amina", kes(5))
           auth == s.result
           r == withdrawWithSig(w, "mallory", auth, "mallory")
<1>1. "amina" \in ACTORS /\ "mallory" \in ACTORS /\ kes(5) \in Nat
  BY kesType, ActorNames
<1>2. s.world = w /\ s.ok = w.devices["amina"]
  BY <1>1 DEF signAuth, callOff, Done, Failed
<1>3. s.ok => auth \in Auth /\ auth.from = "amina"
  BY <1>1, signAuthOK
<1>4. Redirect(w) = Verdict(r.world, ~r.ok)
  BY <1>2 DEF Redirect
<1> HIDE DEF s
<1>5. auth \in Auth /\ auth.from = "amina"
  BY <1>2, <1>3
<1> HIDE DEF auth
<1>6. Calm(w, r)
  BY <1>1, <1>5, withdrawWithSigOK
<1> HIDE DEF r
<1>7. QED BY <1>4, <1>6, CalmStill, VerdictCalm

LEMMA StolenOwnerOK ==
  ASSUME NEW w, WorldOK(w)
  PROVE  Calm(w, StolenOwner(w))
<1> DEFINE w1 == setFeeBps(w, "owner", 50).world
           w2 == setPricePerUnit(w1, "owner", 1000000).world
           w3 == queueBeneficiary(w2, "owner", "mallory").world
           w4 == activateBeneficiary(w3, "mallory").world
           w5 == cancelBeneficiaryChange(w4, "founder").world
<1>1. "owner" \in ACTORS /\ "mallory" \in ACTORS /\ "founder" \in ACTORS
  BY ActorNames
<1>2. StolenOwner(w) = Verdict(w5, w5.beneficiary = "founder")
  BY DEF StolenOwner
<1>3. Still(w, w1)
  BY <1>1, setFeeBpsOK, CalmStill
<1> HIDE DEF w1
<1>4. Still(w1, w2)
  BY <1>1, <1>3, setPricePerUnitOK, CalmStill DEF Still
<1> HIDE DEF w2
<1>5. Still(w2, w3)
  BY <1>1, <1>4, queueBeneficiaryOK, CalmStill DEF Still
<1> HIDE DEF w3
<1>6. Still(w3, w4)
  BY <1>1, <1>5, activateBeneficiaryOK, CalmStill DEF Still
<1> HIDE DEF w4
<1>7. Still(w4, w5)
  BY <1>1, <1>6, cancelBeneficiaryChangeOK, CalmStill DEF Still
<1> HIDE DEF w5
<1>8. Still(w, w2) /\ Still(w2, w4)
  BY <1>3, <1>4, <1>5, <1>6, StillTwice DEF Still
<1>9. Still(w, w5)
  BY <1>7, <1>8, StillTwice
<1>10. QED BY <1>2, <1>9, VerdictCalm

LEMMA FrontRunPermitOK ==
  ASSUME NEW w, WorldOK(w), w.devices["amina"]
  PROVE  Calm(w, FrontRunPermit(w))
<1> DEFINE s == signPermit(w, "amina", "escrow", kes(5))
           p == s.result
           r == permit(w, "mallory", p)
           q == depositWithPermit(r.world, "kiosk", "amina", kes(5), p)
<1>1. /\ "amina" \in ACTORS /\ "mallory" \in ACTORS /\ "kiosk" \in ACTORS
      /\ "escrow" \in SPENDERS /\ kes(5) \in Nat
  BY kesType, ActorNames
<1>2. s.world = w /\ s.ok = w.devices["amina"]
  BY <1>1 DEF signPermit, callOff, Done, Failed
<1>3. s.ok => p \in Permit /\ p.owner = "amina"
  BY <1>1, signPermitOK
<1>4. FrontRunPermit(w) = IF r.ok THEN q ELSE r
  BY <1>2 DEF FrontRunPermit, Then
<1> HIDE DEF s
<1>5. p \in Permit /\ p.owner = "amina"
  BY <1>2, <1>3
<1> HIDE DEF p
<1>6. Calm(w, r) /\ r.world.devices = w.devices
  BY <1>1, <1>5, permitOK
<1> HIDE DEF r
<1>7. Calm(r.world, q)
  <2>1. WorldOK(r.world) /\ r.world.devices[p.owner]
    BY <1>5, <1>6 DEF Calm, Right
  <2>2. QED BY <1>1, <1>5, <2>1, depositWithPermitOK
<1> HIDE DEF q
<1>8. QED BY <1>4, <1>6, <1>7, CalmThen

-----------------------------------------------------------------------------
(* What a click may do to the peg, and to a client whose phone is lost. *)

\* What PegKept says of a click that took w to x and ended so.
PegClaim(w, x, how) ==
    how \notin {"manual", "back"} =>
        /\ how \in {"done", "b2cPayout"} => GapOf(x) = GapOf(w)
        /\ GapOf(x) < GapOf(w) => how = "bridgeBurn"

\* A flow that makes a top-up first, and whose result says nothing about it.
Loose(w, r) ==
    /\ Right(w, r)
    /\ r.failed = "b2cPayout" => GapOf(r.world) = GapOf(w)
    /\ GapOf(r.world) < GapOf(w) => r.failed = "bridgeBurn"

LEMMA OutcomeIs ==
  ASSUME NEW step, NEW ok \in BOOLEAN, NEW at
  PROVE  /\ step \in {"undo", "reset"} => Outcome(step, ok, at) = "back"
         /\ step \in Manual => Outcome(step, ok, at) = "manual"
         /\ step \notin {"undo", "reset"} /\ step \notin Manual =>
                Outcome(step, ok, at) =
                    IF ok /\ step \notin TopUpUnchecked THEN "done"
                    ELSE IF at \in {"b2cPayout", "bridgeBurn"} THEN at ELSE "elsewhere"
<1>1. step \in Manual => step \notin {"undo", "reset"}
  BY DEF Manual, CallNames
<1>2. QED BY <1>1 DEF Outcome

LEMMA FineClaim ==
  ASSUME NEW w, NEW r, Fine(w, r), NEW step
  PROVE  PegClaim(w, r.world, Outcome(step, r.ok, r.failed))
<1> DEFINE ok == r.ok  at == r.failed  how == Outcome(step, ok, at)
<1>1. /\ ok \in BOOLEAN
      /\ ok \/ at = "b2cPayout" => GapOf(r.world) = GapOf(w)
      /\ GapOf(r.world) < GapOf(w) => ~ok /\ at = "bridgeBurn"
  BY DEF Fine, Right
<1> HIDE DEF ok, at
<1>2. /\ step \in {"undo", "reset"} => how = "back"
      /\ step \in Manual => how = "manual"
      /\ step \notin {"undo", "reset"} /\ step \notin Manual =>
             how = IF ok /\ step \notin TopUpUnchecked THEN "done"
                   ELSE IF at \in {"b2cPayout", "bridgeBurn"} THEN at ELSE "elsewhere"
  BY <1>1, OutcomeIs
<1> HIDE DEF how
<1>3. PegClaim(w, r.world, how)
  BY <1>1, <1>2 DEF PegClaim
<1>4. QED BY <1>3 DEF how, ok, at

LEMMA LooseClaim ==
  ASSUME NEW w, NEW r, Loose(w, r), NEW step \in TopUpUnchecked
  PROVE  PegClaim(w, r.world, Outcome(step, r.ok, r.failed))
<1> DEFINE ok == r.ok  at == r.failed  how == Outcome(step, ok, at)
<1>1. /\ ok \in BOOLEAN
      /\ at = "b2cPayout" => GapOf(r.world) = GapOf(w)
      /\ GapOf(r.world) < GapOf(w) => at = "bridgeBurn"
  BY DEF Loose, Right
<1> HIDE DEF ok, at
<1>2. step \notin {"undo", "reset"} /\ step \notin Manual
  BY DEF TopUpUnchecked, Manual, CallNames
<1>3. how = IF at \in {"b2cPayout", "bridgeBurn"} THEN at ELSE "elsewhere"
  BY <1>1, <1>2, OutcomeIs
<1> HIDE DEF how
<1>4. PegClaim(w, r.world, how)
  BY <1>1, <1>3 DEF PegClaim
<1>5. QED BY <1>4 DEF how, ok, at

\* A phone may come back in the end.
SparedBefore(w, x) == \E y : IsWorld(y) /\ AllSpared(w, y) /\ Only(y, x, {"devices"})

\* What LostPhoneSpendsNothing says of a click that took w to x.
ChargesOnly(w, x) ==
    \A c \in Clients :
        /\ ~w.devices[c]
        /\ x.channels[c] = w.channels[c] /\ x.eth[c] = w.eth[c] /\ x.allow[c] = w.allow[c]
        => Holdings(x, c) >= Holdings(w, c)

LEMMA SparedNow ==
  ASSUME NEW w, NEW x, WorldOK(x), AllSpared(w, x)
  PROVE  SparedBefore(w, x)
BY DEF SparedBefore, WorldOK, IsWorld, Only

LEMMA SparedFirst ==
  ASSUME NEW v, NEW w, NEW x, WorldOK(v), WorldOK(w), AllSpared(v, w), SparedBefore(w, x)
  PROVE  SparedBefore(v, x)
<1>1. PICK y : IsWorld(y) /\ AllSpared(w, y) /\ Only(y, x, {"devices"})
  BY DEF SparedBefore
<1>2. AllSpared(v, y)
  BY <1>1, SparedTwice DEF WorldOK
<1>3. QED BY <1>1, <1>2 DEF SparedBefore

LEMMA SparedCharges ==
  ASSUME NEW w, WorldOK(w), NEW x, SparedBefore(w, x)
  PROVE  ChargesOnly(w, x)
<1> SUFFICES ASSUME NEW c \in Clients, ~w.devices[c], x.channels[c] = w.channels[c],
                    x.eth[c] = w.eth[c], x.allow[c] = w.allow[c]
             PROVE  Holdings(x, c) >= Holdings(w, c)
  BY DEF ChargesOnly
<1>1. PICK y : IsWorld(y) /\ AllSpared(w, y) /\ Only(y, x, {"devices"})
  BY DEF SparedBefore
<1>2. /\ x.channels = y.channels /\ x.eth = y.eth /\ x.allow = y.allow
      /\ x.bal = y.bal /\ x.deposits = y.deposits
  BY <1>1, FieldNames DEF Only
<1>3. Charged(w, y, c)
  BY <1>1 DEF AllSpared, Spared
<1>4. w.eth[c] \in Int /\ w.channels[c].seq \in Int
  BY ChargedTypes DEF WorldOK
<1>5. Holdings(y, c) >= Holdings(w, c)
  BY <1>2, <1>3, <1>4 DEF Charged
<1>6. QED BY <1>2, <1>5 DEF Holdings

LEMMA GasCharges ==
  ASSUME NEW w, WorldOK(w), NEW x, Only(w, x, {"eth"})
  PROVE  ChargesOnly(w, x)
<1>1. x.bal = w.bal /\ x.deposits = w.deposits
  BY FieldNames DEF Only
<1>2. \A c \in Clients : Holdings(w, c) \in Int
  BY ChargedTypes DEF WorldOK
<1>3. \A c \in Clients : Holdings(x, c) >= Holdings(w, c)
  BY <1>1, <1>2 DEF Holdings
<1>4. QED BY <1>3 DEF ChargesOnly

\* What a click, drill or button, may do.
Lawful(w, x, how) == WorldOK(x) /\ SparedBefore(w, x) /\ PegClaim(w, x, how)

LEMMA FineLawful ==
  ASSUME NEW w, NEW r, Fine(w, r), NEW step
  PROVE  Lawful(w, r.world, Outcome(step, r.ok, r.failed))
BY FineClaim, SparedNow DEF Lawful, Fine, Right

LEMMA LooseLawful ==
  ASSUME NEW w, NEW r, Loose(w, r), NEW step \in TopUpUnchecked
  PROVE  Lawful(w, r.world, Outcome(step, r.ok, r.failed))
BY LooseClaim, SparedNow DEF Lawful, Loose, Right

LEMMA LawfulAfter ==
  ASSUME NEW v, NEW w, NEW x, NEW how, WorldOK(v), WorldOK(w), AllSpared(v, w),
         GapOf(w) = GapOf(v), Lawful(w, x, how)
  PROVE  Lawful(v, x, how)
BY SparedFirst DEF Lawful, PegClaim

LEMMA LostPhoneOK ==
  ASSUME NEW w, WorldOK(w)
  PROVE  LET x == LostPhone(w).world
         IN WorldOK(x) /\ SparedBefore(w, x) /\ GapOf(x) = GapOf(w)
<1> DEFINE r1 == loseDevice(w, "amina")
           r2 == signTicket(r1.world, "amina", "amina", 99)
           r == IF r1.ok THEN r2 ELSE r1
           q == restoreFromSeed(r.world, "amina")
<1>1. LostPhone(w) = q
  BY DEF LostPhone, Then
<1>2. Calm(w, r1)
  BY ActorNames, loseDeviceOK
<1> HIDE DEF r1
<1>3. Calm(r1.world, r2)
  <2>1. WorldOK(r1.world) /\ 99 \in Nat
    BY <1>2 DEF Calm, Right
  <2>2. QED BY <2>1, ActorNames, signTicketOK
<1> HIDE DEF r2
<1>4. Calm(w, r)
  BY <1>2, <1>3, CalmThen
<1> HIDE DEF r
<1>5. WorldOK(r.world) /\ AllSpared(w, r.world) /\ GapOf(r.world) = GapOf(w)
  BY <1>4, GapSame DEF Calm, Right
<1>6. WorldOK(q.world) /\ PegSame(r.world, q.world) /\ Only(r.world, q.world, {"devices"})
  BY <1>5, ActorNames, restoreFromSeedOK
<1> HIDE DEF q
<1>7. GapOf(q.world) = GapOf(w)
  BY <1>5, <1>6, GapSame
<1>8. SparedBefore(w, q.world)
  BY <1>5, <1>6 DEF SparedBefore, WorldOK
<1>9. QED BY <1>1, <1>6, <1>7, <1>8

LEMMA RogueBridgeOK ==
  ASSUME NEW w, WorldOK(w)
  PROVE  Right(w, RogueBridge(w))
<1> DEFINE info == Window(w, "kiosk")
           left == info.cap - info.minted
           r == bridgeMint(w, "kiosk", "mallory", left)
           r2 == bridgeMint(r.world, "kiosk", "mallory", kes(1))
           r3 == setBridge(r2.world, "owner", "kiosk", FALSE, 0)
<1>1. RogueBridge(w) = Verdict(r3.world, ~r2.ok)
  BY DEF RogueBridge
<1>2. left \in Int /\ kes(1) \in Int /\ kes(1) >= 0
  <2>1. info \in Bridge
    BY ActorNames, WindowType
  <2>2. kes(1) \in Nat
    BY kesType
  <2> HIDE DEF info
  <2>3. QED BY <2>1, <2>2 DEF Bridge
<1> HIDE DEF left
<1>3. Right(w, r)
  BY <1>2, ActorNames, bridgeMintOK
<1> HIDE DEF r
<1>4. Right(r.world, r2)
  <2>1. WorldOK(r.world)
    BY <1>3 DEF Right
  <2>2. QED BY <1>2, <2>1, ActorNames, bridgeMintOK
<1> HIDE DEF r2
<1>5. Right(r2.world, r3)
  <2>1. WorldOK(r2.world) /\ FALSE \in BOOLEAN /\ 0 \in Int
    BY <1>4 DEF Right
  <2>2. QED BY <2>1, ActorNames, setBridgeOK DEF Calm
<1> HIDE DEF r3
<1>6. WorldOK(r3.world) /\ AllSpared(w, r3.world)
  <2>1. AllSpared(w, r2.world)
    BY <1>3, <1>4, SparedTwice DEF Right, WorldOK
  <2>2. QED BY <1>4, <1>5, <2>1, SparedTwice DEF Right, WorldOK
<1>7. Verdict(r3.world, ~r2.ok).world = r3.world /\ Verdict(r3.world, ~r2.ok).ok \in BOOLEAN
  BY DEF Verdict
<1>8. QED BY <1>1, <1>6, <1>7 DEF Right

\* The top-up that a drill makes without looking at its result.
LEMMA ToppedUp ==
  ASSUME NEW w, WorldOK(w), w.deployed, NEW bought \in {w, buy(w, "amina", kes(20), FALSE).world}
  PROVE  /\ WorldOK(bought) /\ AllSpared(w, bought) /\ bought.deployed
         /\ \/ GapOf(bought) = GapOf(w)
            \/ GapOf(bought) = GapOf(w) + kes(20) /\ bought.float >= kes(20)
<1> DEFINE r == buy(w, "amina", kes(20), FALSE)
<1>1. kes(20) \in Nat /\ FALSE \in BOOLEAN
  BY kesType
<1>2. Fine(w, r)
  BY <1>1, ActorNames, buyOK
<1>3. \/ GapOf(r.world) = GapOf(w)
      \/ GapOf(r.world) = GapOf(w) + kes(20) /\ r.world.float >= kes(20)
  BY <1>1, ActorNames, buyOK
<1>4. r.world.deployed = w.deployed
  BY <1>1, ActorNames, buyStays DEF Stays
<1> HIDE DEF r
<1>5. CASE bought = w
  BY <1>5, SparedSelf
<1>6. CASE bought = r.world
  BY <1>2, <1>3, <1>4, <1>6 DEF Fine, Right
<1>7. QED BY <1>5, <1>6 DEF r

LEMMA PayoutFailsOK ==
  ASSUME NEW w, WorldOK(w), w.deployed
  PROVE  Loose(w, PayoutFails(w))
<1> DEFINE x == IF w.bal["amina"] < kes(10) THEN buy(w, "amina", kes(20), FALSE).world ELSE w
           c == cashOut(x, "amina", kes(10), TRUE)
           y == c.world
           r == PayAndBurn(y, "amina", kes(10), FALSE)
<1>1. PayoutFails(w) = r
  BY DEF PayoutFails, retryPayout
<1>2. kes(10) \in Nat /\ kes(20) \in Nat /\ kes(10) <= kes(20)
  BY DemoConstants DEF kes
<1>3. /\ WorldOK(x) /\ AllSpared(w, x)
      /\ \/ GapOf(x) = GapOf(w)
         \/ GapOf(x) = GapOf(w) + kes(20) /\ x.float >= kes(20)
  BY ToppedUp
<1> HIDE DEF x
<1>4. Right(x, c) /\ GapOf(y) = GapOf(x) /\ y.float = x.float
  <2>1. \A fail \in BOOLEAN : fail => GapOf(cashOut(x, "amina", kes(10), fail).world) = GapOf(x)
                                   /\ cashOut(x, "amina", kes(10), fail).world.float = x.float
    BY <1>2, <1>3, ActorNames, cashOutOK
  <2>2. \A fail \in BOOLEAN : Right(x, cashOut(x, "amina", kes(10), fail))
    BY <1>2, <1>3, ActorNames, cashOutOK DEF Fine
  <2>3. QED BY <2>1, <2>2
<1> HIDE DEF c
<1>5. WorldOK(y) /\ AllSpared(x, y)
  BY <1>4 DEF Right
<1> HIDE DEF y
<1>6. Fine(y, r) /\ (r.failed = "b2cPayout" => r.world = y /\ y.float < kes(10))
  <2>1. \A fail \in BOOLEAN : Fine(y, PayAndBurn(y, "amina", kes(10), fail))
    BY <1>2, <1>5, ActorNames, PayAndBurnOK
  <2>2. \A fail \in BOOLEAN : PayAndBurn(y, "amina", kes(10), fail).failed = "b2cPayout" =>
            PayAndBurn(y, "amina", kes(10), fail).world = y /\ (fail \/ y.float < kes(10))
    BY <1>2, <1>5, ActorNames, PayAndBurnOK
  <2>3. QED BY <2>1, <2>2
<1> HIDE DEF r
<1>7. Right(w, r)
  <2>1. AllSpared(w, y)
    BY <1>3, <1>5, SparedTwice DEF WorldOK
  <2>2. AllSpared(w, r.world)
    BY <1>5, <1>6, <2>1, SparedTwice DEF WorldOK, Fine, Right
  <2>3. QED BY <1>6, <2>2 DEF Fine, Right
<1>8. /\ GapOf(w) \in Int /\ GapOf(x) \in Int /\ GapOf(y) \in Int /\ GapOf(r.world) \in Int
      /\ x.float \in Int
  BY <1>3, <1>5, <1>7, GapType DEF Right
<1>9. r.failed = "b2cPayout" => GapOf(r.world) = GapOf(w)
  BY <1>2, <1>3, <1>4, <1>6, <1>8
<1>10. GapOf(r.world) < GapOf(w) => r.failed = "bridgeBurn"
  <2>1. GapOf(r.world) < GapOf(y) => r.failed = "bridgeBurn"
    BY <1>6 DEF Fine
  <2>2. QED BY <1>2, <1>3, <1>4, <1>8, <2>1
<1>11. QED BY <1>1, <1>7, <1>9, <1>10 DEF Loose

LEMMA OfflineOK ==
  ASSUME NEW w, WorldOK(w), w.deployed
  PROVE  Loose(w, Offline(w))
<1> DEFINE x == IF w.vouchers["amina"] = NoVoucher THEN buy(w, "amina", kes(20), FALSE).world ELSE w
           o == openSession(x, "amina", 8, TRUE)
           y == serve(o.world, 8)
           r == IF o.ok THEN Ok(y) ELSE o
<1>1. Offline(w) = r
  BY DEF Offline
<1>2. /\ WorldOK(x) /\ AllSpared(w, x) /\ x.deployed
      /\ GapOf(x) = GapOf(w) \/ GapOf(x) = GapOf(w) + kes(20)
  BY ToppedUp
<1> HIDE DEF x
<1>3. Calm(x, o) /\ o.failed # "b2cPayout" /\ o.failed # "bridgeBurn"
  <2>1. 8 \in Nat \ {0} /\ TRUE \in BOOLEAN
    OBVIOUS
  <2>2. QED BY <1>2, <2>1, ActorNames, openSessionOK
<1> HIDE DEF o
<1>4. Still(o.world, y)
  <2>1. WorldOK(o.world) /\ 8 \in Nat
    BY <1>3 DEF Calm, Right
  <2>2. QED BY <2>1, serveOK DEF Still
<1> HIDE DEF y
<1>5. Ok(y).ok = TRUE /\ Ok(y).world = y /\ Ok(y).failed = None
  BY DEF Ok, Done
<1>6. Still(x, r.world) /\ r.ok \in BOOLEAN
  <2>1. Still(x, o.world) /\ o.ok \in BOOLEAN
    BY <1>3, CalmStill
  <2>2. Still(x, y)
    BY <1>2, <1>4, <2>1, StillTwice
  <2>3. CASE o.ok
    BY <1>5, <2>2, <2>3
  <2>4. CASE ~o.ok
    BY <2>1, <2>4
  <2>5. QED BY <2>3, <2>4
<1>7. r.failed # "b2cPayout" /\ r.failed # "bridgeBurn"
  <2>1. CASE o.ok
    BY <1>5, <2>1 DEF None
  <2>2. CASE ~o.ok
    BY <1>3, <2>2
  <2>3. QED BY <2>1, <2>2
<1> HIDE DEF r
<1>8. Right(w, r)
  BY <1>2, <1>6, SparedTwice DEF Right, Still, WorldOK
<1>9. ~(GapOf(r.world) < GapOf(w))
  <2>1. GapOf(r.world) = GapOf(x)
    BY <1>6, GapSame DEF Still
  <2>2. GapOf(w) \in Int /\ GapOf(x) \in Int /\ kes(20) \in Nat
    BY <1>2, GapType, kesType
  <2>3. QED BY <1>2, <2>1, <2>2
<1>10. QED BY <1>1, <1>7, <1>8, <1>9 DEF Loose

LEMMA SameLawful ==
  ASSUME NEW w, NEW x, WorldOK(w), WorldOK(x), SparedBefore(w, x), GapOf(x) = GapOf(w), NEW how
  PROVE  Lawful(w, x, how)
<1>1. GapOf(w) \in Int
  BY GapType
<1>2. QED BY <1>1 DEF Lawful, PegClaim

\* Each drill, in a world that is ready for it.
LEMMA RunDrillOK ==
  ASSUME NEW w, WorldOK(w), w.deployed, NEW id \in DRILLS, ~Unsigned(w, id)
  PROVE  LET r == RunDrill(w, id) IN Lawful(w, r.world, Outcome(id, r.ok, r.failed))
<1> DEFINE r == RunDrill(w, id)
<1>1. \A q : Calm(w, q) => Lawful(w, q.world, Outcome(id, q.ok, q.failed))
  BY CalmFine, FineLawful
<1>2. id \in {"lost-tickets", "replay", "expired", "drain", "redirect", "front-run-permit"} =>
          w.devices["amina"]
  BY DEF Unsigned, NeedsPhone
<1>3. id = "forged" => w.devices["node"]
  BY DEF Unsigned
<1>4. CASE id = "lost-tickets"
  <2>1. r = LostTickets(w)
    BY <1>4 DEF RunDrill
  <2>2. Calm(w, LostTickets(w))
    BY <1>2, <1>4, LostTicketsOK
  <2> HIDE DEF r
  <2>3. Lawful(w, r.world, Outcome(id, r.ok, r.failed))
    BY <1>1, <2>1, <2>2
  <2>4. QED BY <2>3 DEF r
<1>5. CASE id = "replay"
  <2>1. r = Replayed(w)
    BY <1>5 DEF RunDrill
  <2>2. Calm(w, Replayed(w))
    BY <1>2, <1>5, ReplayedOK
  <2> HIDE DEF r
  <2>3. Lawful(w, r.world, Outcome(id, r.ok, r.failed))
    BY <1>1, <2>1, <2>2
  <2>4. QED BY <2>3 DEF r
<1>6. CASE id = "forged"
  <2>1. r = Forged(w)
    BY <1>6 DEF RunDrill
  <2>2. Calm(w, Forged(w))
    BY <1>3, <1>6, ForgedOK
  <2> HIDE DEF r
  <2>3. Lawful(w, r.world, Outcome(id, r.ok, r.failed))
    BY <1>1, <2>1, <2>2
  <2>4. QED BY <2>3 DEF r
<1>7. CASE id = "expired"
  <2>1. r = Expired(w)
    BY <1>7 DEF RunDrill
  <2>2. Calm(w, Expired(w))
    BY <1>2, <1>7, ExpiredOK
  <2> HIDE DEF r
  <2>3. Lawful(w, r.world, Outcome(id, r.ok, r.failed))
    BY <1>1, <2>1, <2>2
  <2>4. QED BY <2>3 DEF r
<1>8. CASE id = "drain"
  <2>1. r = Drain(w)
    BY <1>8 DEF RunDrill
  <2>2. Calm(w, Drain(w))
    BY <1>2, <1>8, DrainOK
  <2> HIDE DEF r
  <2>3. Lawful(w, r.world, Outcome(id, r.ok, r.failed))
    BY <1>1, <2>1, <2>2
  <2>4. QED BY <2>3 DEF r
<1>9. CASE id = "redirect"
  <2>1. r = Redirect(w)
    BY <1>9 DEF RunDrill
  <2>2. Calm(w, Redirect(w))
    BY <1>2, <1>9, RedirectOK
  <2> HIDE DEF r
  <2>3. Lawful(w, r.world, Outcome(id, r.ok, r.failed))
    BY <1>1, <2>1, <2>2
  <2>4. QED BY <2>3 DEF r
<1>10. CASE id = "stolen-owner"
  <2>1. r = StolenOwner(w)
    BY <1>10 DEF RunDrill
  <2>2. Calm(w, StolenOwner(w))
    BY <1>10, StolenOwnerOK
  <2> HIDE DEF r
  <2>3. Lawful(w, r.world, Outcome(id, r.ok, r.failed))
    BY <1>1, <2>1, <2>2
  <2>4. QED BY <2>3 DEF r
<1>11. CASE id = "front-run-permit"
  <2>1. r = FrontRunPermit(w)
    BY <1>11 DEF RunDrill
  <2>2. Calm(w, FrontRunPermit(w))
    BY <1>2, <1>11, FrontRunPermitOK
  <2> HIDE DEF r
  <2>3. Lawful(w, r.world, Outcome(id, r.ok, r.failed))
    BY <1>1, <2>1, <2>2
  <2>4. QED BY <2>3 DEF r
<1>12. CASE id = "payout-fails"
  <2>1. r = PayoutFails(w)
    BY <1>12 DEF RunDrill
  <2>2. Loose(w, PayoutFails(w)) /\ id \in TopUpUnchecked
    BY <1>12, PayoutFailsOK DEF TopUpUnchecked
  <2> HIDE DEF r
  <2>3. Lawful(w, r.world, Outcome(id, r.ok, r.failed))
    BY <2>1, <2>2, LooseLawful
  <2>4. QED BY <2>3 DEF r
<1>13. CASE id = "offline"
  <2>1. r = Offline(w)
    BY <1>13 DEF RunDrill
  <2>2. Loose(w, Offline(w)) /\ id \in TopUpUnchecked
    BY <1>13, OfflineOK DEF TopUpUnchecked
  <2> HIDE DEF r
  <2>3. Lawful(w, r.world, Outcome(id, r.ok, r.failed))
    BY <2>1, <2>2, LooseLawful
  <2>4. QED BY <2>3 DEF r
<1>14. CASE id = "lost-phone"
  <2>1. r = LostPhone(w)
    BY <1>14 DEF RunDrill
  <2> HIDE DEF r
  <2>2. WorldOK(r.world) /\ SparedBefore(w, r.world) /\ GapOf(r.world) = GapOf(w)
    BY <2>1, LostPhoneOK
  <2>3. Lawful(w, r.world, Outcome(id, r.ok, r.failed))
    BY <2>2, SameLawful
  <2>4. QED BY <2>3 DEF r
<1>15. CASE id = "rogue-bridge"
  <2>1. r = RogueBridge(w)
    BY <1>15 DEF RunDrill
  <2> HIDE DEF r
  <2>2. Right(w, r)
    BY <2>1, RogueBridgeOK
  <2>3. Outcome(id, r.ok, r.failed) = "manual"
    <3>1. id \in Manual
      BY <1>15 DEF Manual
    <3>2. QED BY <2>2, <3>1, OutcomeIs DEF Right
  <2>4. PegClaim(w, r.world, "manual")
    BY DEF PegClaim
  <2>5. Lawful(w, r.world, Outcome(id, r.ok, r.failed))
    BY <2>2, <2>3, <2>4, SparedNow DEF Lawful, Right
  <2>6. QED BY <2>5 DEF r
<1>16. QED BY <1>4, <1>5, <1>6, <1>7, <1>8, <1>9, <1>10, <1>11, <1>12, <1>13, <1>14, <1>15 DEF DRILLS

-----------------------------------------------------------------------------
(* The buttons, and the calls of the console. *)

\* The button of each step but browsing.
LEMMA runOK ==
  ASSUME NEW w, WorldOK(w), NEW id \in StepIds \ {"browse", "whatif"}, NEW f \in FormTypes[id]
  PROVE  Fine(w, run(w, id, f))
<1> DEFINE r == run(w, id, f)
<1>1. id \in {"setup", "topup", "fill", "settle", "nodeout", "fee", "send", "unlock", "cashout"}
  BY DEF StepIds, STEPS
<1>2. \A q : Calm(w, q) => Fine(w, q)
  BY CalmFine
<1>3. \A who \in Clients : who \in ACTORS /\ Other(who) \in Clients
  BY DEF Other, Clients, ACTORS
<1>4. CASE id = "setup"
  <2>1. f.price \in Price /\ f.fee \in Fee
    BY <1>4 DEF FormTypes
  <2> DEFINE x == [w EXCEPT !.params.price = f.price, !.params.fee = f.fee]
  <2>2. r = setupNetwork(x)
    BY <1>4 DEF run
  <2>3. Still(w, x)
    BY <2>1, setupParamsOK, Zenon DEF Still
  <2> HIDE DEF x, r
  <2>4. Calm(x, r)
    BY <2>2, <2>3, setupNetworkOK DEF Still
  <2>5. Fine(w, r)
    BY <1>2, <2>3, <2>4, StillCalm
  <2>6. QED BY <2>5 DEF r
<1>5. CASE id = "topup"
  <2>1. f.who \in Clients /\ kes(f.amount) \in Nat /\ f.fail \in BOOLEAN
    BY <1>5, kesType DEF FormTypes
  <2>2. r = buy(w, f.who, kes(f.amount), f.fail)
    BY <1>5 DEF run
  <2> HIDE DEF r
  <2>3. Fine(w, r)
    BY <2>1, <2>2, buyOK
  <2>4. QED BY <2>3 DEF r
<1>6. CASE id = "fill"
  <2>1. f.who \in Clients /\ kes(f.amount) \in Nat
    BY <1>6, kesType DEF FormTypes
  <2>2. r = depositGasless(w, f.who, kes(f.amount))
    BY <1>6 DEF run
  <2> HIDE DEF r
  <2>3. Fine(w, r)
    BY <1>2, <2>1, <2>2, depositGaslessOK
  <2>4. QED BY <2>3 DEF r
<1>7. CASE id = "settle"
  <2>1. TRUE
    BY <1>7, kesType DEF FormTypes
  <2>2. r = relayBatch(w)
    BY <1>7 DEF run
  <2> HIDE DEF r
  <2>3. Fine(w, r)
    BY <1>2, <2>2, relayBatchOK
  <2>4. QED BY <2>3 DEF r
<1>8. CASE id = "nodeout"
  <2>1. f.mode \in {"claim", "both"}
    BY <1>8, kesType DEF FormTypes
  <2>2. r = NodeOut(w, f.mode)
    BY <1>8 DEF run
  <2> HIDE DEF r
  <2>3. Fine(w, r)
    BY <2>1, <2>2, NodeOutOK
  <2>4. QED BY <2>3 DEF r
<1>9. CASE id = "fee"
  <2>1. f.by \in ACTORS
    BY <1>9, kesType DEF FormTypes
  <2>2. r = sweepFees(w, f.by)
    BY <1>9 DEF run
  <2> HIDE DEF r
  <2>3. Fine(w, r)
    BY <1>2, <2>1, <2>2, claimOK DEF sweepFees
  <2>4. QED BY <2>3 DEF r
<1>10. CASE id = "send"
  <2>1. f.who \in Clients /\ kes(f.amount) \in Nat
    BY <1>10, kesType DEF FormTypes
  <2>2. r \in {sendEscrow(w, f.who, Other(f.who), kes(f.amount)),
              throughKiosk(w, f.who, Other(f.who), kes(f.amount))}
    BY <1>10 DEF run, send
  <2> HIDE DEF r
  <2>3. Calm(w, sendEscrow(w, f.who, Other(f.who), kes(f.amount)))
    BY <1>3, <2>1, sendEscrowOK
  <2>4. Calm(w, throughKiosk(w, f.who, Other(f.who), kes(f.amount)))
    BY <1>3, <2>1, throughKioskOK
  <2>5. Fine(w, r)
    BY <1>2, <2>2, <2>3, <2>4
  <2>6. QED BY <2>5 DEF r
<1>11. CASE id = "unlock"
  <2>1. f.who \in Clients /\ kes(f.amount) \in Nat
    BY <1>11, kesType DEF FormTypes
  <2>2. r \in {withdraw(w, f.who, kes(f.amount)), withdrawGasless(w, f.who, kes(f.amount))}
    BY <1>11 DEF run
  <2> HIDE DEF r
  <2>3. Calm(w, withdraw(w, f.who, kes(f.amount)))
    BY <1>3, <2>1, withdrawDepositOK DEF withdraw
  <2>4. Calm(w, withdrawGasless(w, f.who, kes(f.amount)))
    BY <2>1, withdrawGaslessOK
  <2>5. Fine(w, r)
    BY <1>2, <2>2, <2>3, <2>4
  <2>6. QED BY <2>5 DEF r
<1>12. CASE id = "cashout"
  <2>1. f.who \in Clients /\ kes(f.amount) \in Nat /\ f.fail \in BOOLEAN
    BY <1>12, kesType DEF FormTypes
  <2>2. r = cashOut(w, f.who, kes(f.amount), f.fail)
    BY <1>12 DEF run
  <2> HIDE DEF r
  <2>3. Fine(w, r)
    BY <2>1, <2>2, cashOutOK
  <2>4. QED BY <2>3 DEF r
<1>13. QED BY <1>1, <1>4, <1>5, <1>6, <1>7, <1>8, <1>9, <1>10, <1>11, <1>12

LEMMA RightCharges ==
  ASSUME NEW w, WorldOK(w), NEW r, Right(w, r)
  PROVE  WorldOK(r.world) /\ ChargesOnly(w, r.world)
BY SparedNow, SparedCharges DEF Right

\* A call of the console, whoever makes it.
LEMMA PrimsOK ==
  ASSUME NEW w, WorldOK(w), NEW f \in CallForms
  PROVE  LET r == PRIMS(w, f)
         IN r.ok \in BOOLEAN /\ WorldOK(r.world) /\ ChargesOnly(w, r.world)
<1> DEFINE r == PRIMS(w, f)
           Fits(q) == q.ok \in BOOLEAN /\ WorldOK(q.world) /\ ChargesOnly(w, q.world)
           sum == kes(f.amount)
           from == f.caller  by == f.owner  to == f.to
<1>1. /\ f.fn \in CallNames /\ from \in ACTORS /\ by \in ACTORS /\ to \in ACTORS
      /\ f.spender \in SPENDERS /\ f.contract \in CONTRACTS /\ f.allowed \in BOOLEAN
      /\ f.amount \in Nat
  BY DEF CallForms
<1>2. sum \in Nat /\ sum \in Int /\ sum >= 0
  <2>1. sum \in Nat
    BY <1>1, kesType
  <2> HIDE DEF sum
  <2>2. QED BY <2>1
<1>3. FALSE \in BOOLEAN
  OBVIOUS
<1>4. \A q : Right(w, q) => Fits(q)
  BY RightCharges DEF Right
<1>5. \A q : Calm(w, q) => Fits(q)
  BY <1>4 DEF Calm
<1> SUFFICES Fits(r)
  OBVIOUS
<1> HIDE DEF sum, from, by, to, Fits
<1>6. CASE f.fn = "setBridge"
  <2>1. r = setBridge(w, from, to, f.allowed, sum)
    BY <1>6 DEF PRIMS, sum, from, by, to
  <2> HIDE DEF r
  <2>2. Calm(w, r)
    BY <1>1, <1>2, <1>3, <2>1, setBridgeOK
  <2>3. QED BY <1>5, <2>2
<1>7. CASE f.fn = "bridgeMint"
  <2>1. r = bridgeMint(w, from, to, sum)
    BY <1>7 DEF PRIMS, sum, from, by, to
  <2> HIDE DEF r
  <2>2. Right(w, r)
    BY <1>1, <1>2, <1>3, <2>1, bridgeMintOK
  <2>3. QED BY <1>4, <2>2
<1>8. CASE f.fn = "bridgeBurn"
  <2>1. r = bridgeBurn(w, from, sum)
    BY <1>8 DEF PRIMS, sum, from, by, to
  <2> HIDE DEF r
  <2>2. Right(w, r)
    BY <1>1, <1>2, <1>3, <2>1, bridgeBurnOK
  <2>3. QED BY <1>4, <2>2
<1>9. CASE f.fn = "approve"
  <2>1. r = approve(w, from, f.spender, sum)
    BY <1>9 DEF PRIMS, sum, from, by, to
  <2> HIDE DEF r
  <2>2. Calm(w, r)
    BY <1>1, <1>2, <1>3, <2>1, approveOK
  <2>3. QED BY <1>5, <2>2
<1>10. CASE f.fn = "transfer"
  <2>1. r = transfer(w, from, to, sum)
    BY <1>10 DEF PRIMS, sum, from, by, to
  <2> HIDE DEF r
  <2>2. Calm(w, r)
    BY <1>1, <1>2, <1>3, <2>1, transferOK
  <2>3. QED BY <1>5, <2>2
<1>11. CASE f.fn = "transferFrom"
  <2>1. r = transferFrom(w, from, by, to, sum)
    BY <1>11 DEF PRIMS, sum, from, by, to
  <2> HIDE DEF r
  <2>2. Calm(w, r)
    BY <1>1, <1>2, <1>3, <2>1, transferFromOK
  <2>3. QED BY <1>5, <2>2
<1>12. CASE f.fn = "permit"
  <2> DEFINE s == signPermit(w, by, f.spender, sum)
             p == s.result
             q == permit(w, from, p)
  <2>0. s.world = w
    BY DEF signPermit, callOff, Done, Failed
  <2>1. r = IF s.ok THEN q ELSE s
    <3>1. r = Then(s, LAMBDA x, a : permit(x, from, a))
      BY <1>12 DEF PRIMS, sum, from, by
    <3>2. QED BY <2>0, <3>1 DEF Then
  <2> HIDE DEF r
  <2>2. Calm(w, s) /\ (s.ok => p \in Permit /\ p.owner = by)
    <3>1. by \in ACTORS /\ "escrow" \in SPENDERS /\ f.spender \in SPENDERS /\ sum \in Nat
      BY <1>1, <1>2, ActorNames
    <3> HIDE DEF sum, by
    <3>2. QED BY <3>1, signPermitOK
  <2>3. s.ok => w.devices[by]
    <3>1. CASE w.devices[by]
      BY <3>1
    <3>2. CASE ~w.devices[by]
      BY <3>2 DEF signPermit, callOff, Failed
    <3>3. QED BY <3>1, <3>2
  <2> HIDE DEF s
  <2>4. s.ok => Calm(w, q)
    <3> SUFFICES ASSUME s.ok PROVE Calm(w, q)
      OBVIOUS
    <3>1. p \in Permit /\ p.owner = by /\ w.devices[by]
      BY <2>2, <2>3
    <3> HIDE DEF p
    <3>2. QED BY <1>1, <1>2, <3>1, permitOK
  <2>5. Calm(w, r)
    BY <2>1, <2>2, <2>4
  <2>6. QED BY <1>5, <2>5
<1>13. CASE f.fn = "deposit"
  <2>1. r = deposit(w, from, sum)
    BY <1>13 DEF PRIMS, sum, from, by, to
  <2> HIDE DEF r
  <2>2. Calm(w, r)
    BY <1>1, <1>2, <1>3, <2>1, depositOK
  <2>3. QED BY <1>5, <2>2
<1>14. CASE f.fn = "depositWithPermit"
  <2> DEFINE s == signPermit(w, by, "escrow", sum)
             p == s.result
             q == depositWithPermit(w, from, by, sum, p)
  <2>0. s.world = w
    BY DEF signPermit, callOff, Done, Failed
  <2>1. r = IF s.ok THEN q ELSE s
    <3>1. r = Then(s, LAMBDA x, a : depositWithPermit(x, from, by, sum, a))
      BY <1>14 DEF PRIMS, sum, from, by
    <3>2. QED BY <2>0, <3>1 DEF Then
  <2> HIDE DEF r
  <2>2. Calm(w, s) /\ (s.ok => p \in Permit /\ p.owner = by)
    <3>1. by \in ACTORS /\ "escrow" \in SPENDERS /\ f.spender \in SPENDERS /\ sum \in Nat
      BY <1>1, <1>2, ActorNames
    <3> HIDE DEF sum, by
    <3>2. QED BY <3>1, signPermitOK
  <2>3. s.ok => w.devices[by]
    <3>1. CASE w.devices[by]
      BY <3>1
    <3>2. CASE ~w.devices[by]
      BY <3>2 DEF signPermit, callOff, Failed
    <3>3. QED BY <3>1, <3>2
  <2> HIDE DEF s
  <2>4. s.ok => Calm(w, q)
    <3> SUFFICES ASSUME s.ok PROVE Calm(w, q)
      OBVIOUS
    <3>1. p \in Permit /\ p.owner = by /\ w.devices[by]
      BY <2>2, <2>3
    <3> HIDE DEF p
    <3>2. QED BY <1>1, <1>2, <3>1, depositWithPermitOK
  <2>5. Calm(w, r)
    BY <2>1, <2>2, <2>4
  <2>6. QED BY <1>5, <2>5
<1>15. CASE f.fn = "withdrawDeposit"
  <2>1. r = withdrawDeposit(w, from, sum)
    BY <1>15 DEF PRIMS, sum, from, by, to
  <2> HIDE DEF r
  <2>2. Calm(w, r)
    BY <1>1, <1>2, <1>3, <2>1, withdrawDepositOK
  <2>3. QED BY <1>5, <2>2
<1>16. CASE f.fn = "settleTicketBatch"
  <2>1. r = settleTicketBatch(w, from, pendingTickets(w))
    BY <1>16 DEF PRIMS, sum, from, by, to
  <2> HIDE DEF r
  <2>2. Calm(w, r)
    BY <1>1, <1>2, <1>3, <2>1, pendingTicketsType, settleTicketBatchOK
  <2>3. QED BY <1>5, <2>2
<1>17. CASE f.fn = "claimEarnings"
  <2>1. r = claimEarnings(w, from, to, sum)
    BY <1>17 DEF PRIMS, sum, from, by, to
  <2> HIDE DEF r
  <2>2. Calm(w, r)
    BY <1>1, <1>2, <1>3, <2>1, claimEarningsOK
  <2>3. QED BY <1>5, <2>2
<1>18. CASE f.fn = "setPricePerUnit"
  <2>1. r = setPricePerUnit(w, from, f.amount)
    BY <1>18 DEF PRIMS, sum, from, by, to
  <2> HIDE DEF r
  <2>2. Calm(w, r)
    BY <1>1, <1>2, <1>3, <2>1, setPricePerUnitOK
  <2>3. QED BY <1>5, <2>2
<1>19. CASE f.fn = "claim"
  <2>1. r = claim(w, from)
    BY <1>19 DEF PRIMS, sum, from, by, to
  <2> HIDE DEF r
  <2>2. Calm(w, r)
    BY <1>1, <1>2, <1>3, <2>1, claimOK
  <2>3. QED BY <1>5, <2>2
<1>20. CASE f.fn = "setFeeBps"
  <2>1. r = setFeeBps(w, from, f.amount)
    BY <1>20 DEF PRIMS, sum, from, by, to
  <2> HIDE DEF r
  <2>2. Calm(w, r)
    BY <1>1, <1>2, <1>3, <2>1, setFeeBpsOK
  <2>3. QED BY <1>5, <2>2
<1>21. CASE f.fn = "queueBeneficiary"
  <2>1. r = queueBeneficiary(w, from, to)
    BY <1>21 DEF PRIMS, sum, from, by, to
  <2> HIDE DEF r
  <2>2. Calm(w, r)
    BY <1>1, <1>2, <1>3, <2>1, queueBeneficiaryOK
  <2>3. QED BY <1>5, <2>2
<1>22. CASE f.fn = "activateBeneficiary"
  <2>1. r = activateBeneficiary(w, from)
    BY <1>22 DEF PRIMS, sum, from, by, to
  <2> HIDE DEF r
  <2>2. Calm(w, r)
    BY <1>1, <1>2, <1>3, <2>1, activateBeneficiaryOK
  <2>3. QED BY <1>5, <2>2
<1>23. CASE f.fn = "cancelBeneficiaryChange"
  <2>1. r = cancelBeneficiaryChange(w, from)
    BY <1>23 DEF PRIMS, sum, from, by, to
  <2> HIDE DEF r
  <2>2. Calm(w, r)
    BY <1>1, <1>2, <1>3, <2>1, cancelBeneficiaryChangeOK
  <2>3. QED BY <1>5, <2>2
<1>24. CASE f.fn = "transferOwnership"
  <2>1. r = transferOwnership(w, from, f.contract, to)
    BY <1>24 DEF PRIMS, sum, from, by, to
  <2> HIDE DEF r
  <2>2. Calm(w, r)
    BY <1>1, <1>2, <1>3, <2>1, transferOwnershipOK
  <2>3. QED BY <1>5, <2>2
<1>25. CASE f.fn = "acceptOwnership"
  <2>1. r = acceptOwnership(w, from, f.contract)
    BY <1>25 DEF PRIMS, sum, from, by, to
  <2> HIDE DEF r
  <2>2. Calm(w, r)
    BY <1>1, <1>2, <1>3, <2>1, acceptOwnershipOK
  <2>3. QED BY <1>5, <2>2
<1>26. CASE f.fn = "signTicket"
  <2>1. r = signTicket(w, "amina", from, f.amount)
    BY <1>26 DEF PRIMS, sum, from, by, to
  <2> HIDE DEF r
  <2>2. Calm(w, r)
    BY <1>1, <1>2, <1>3, <2>1, ActorNames, signTicketOK
  <2>3. QED BY <1>5, <2>2
<1>27. CASE f.fn = "issueVoucher"
  <2>1. r = issueVoucher(w, to, sum)
    BY <1>27 DEF PRIMS, sum, from, by, to
  <2> HIDE DEF r
  <2>2. Calm(w, r)
    BY <1>1, <1>2, <1>3, <2>1, issueVoucherOK
  <2>3. QED BY <1>5, <2>2
<1>28. CASE f.fn = "verifyVoucher"
  <2>1. r = verifyVoucher(w, by)
    BY <1>28 DEF PRIMS, sum, from, by, to
  <2> HIDE DEF r
  <2>2. Calm(w, r)
    BY <1>1, <1>2, <1>3, <2>1, verifyVoucherOK
  <2>3. QED BY <1>5, <2>2
<1>29. CASE f.fn = "stkPush"
  <2>1. r = stkPush(w, from, sum, FALSE)
    BY <1>29 DEF PRIMS, sum, from, by, to
  <2> HIDE DEF r
  <2>2. Right(w, r)
    BY <1>1, <1>2, <1>3, <2>1, stkPushOK
  <2>3. QED BY <1>4, <2>2
<1>30. CASE f.fn = "b2cPayout"
  <2>1. r = b2cPayout(w, to, sum, FALSE)
    BY <1>30 DEF PRIMS, sum, from, by, to
  <2> HIDE DEF r
  <2>2. Right(w, r)
    BY <1>1, <1>2, <1>3, <2>1, b2cPayoutOK
  <2>3. QED BY <1>4, <2>2
<1>31. CASE f.fn = "fundGas"
  <2>1. r = fundGas(w, to, f.amount)
    BY <1>31 DEF PRIMS, to
  <2> HIDE DEF r
  <2>2. r.ok = TRUE /\ WorldOK(r.world) /\ Only(w, r.world, {"eth"})
    BY <1>1, <2>1, fundGasOK
  <2>3. ChargesOnly(w, r.world)
    BY <2>2, GasCharges
  <2>4. QED BY <2>2, <2>3 DEF Fits
<1>32. CASE f.fn = "warp"
  <2>1. r = warp(w, f.amount)
    BY <1>32 DEF PRIMS, sum, from, by, to
  <2> HIDE DEF r
  <2>2. Calm(w, r)
    BY <1>1, <1>2, <1>3, <2>1, warpOK
  <2>3. QED BY <1>5, <2>2
<1>33. CASE f.fn = "loseDevice"
  <2>1. r = loseDevice(w, from)
    BY <1>33 DEF PRIMS, sum, from, by, to
  <2> HIDE DEF r
  <2>2. Calm(w, r)
    BY <1>1, <1>2, <1>3, <2>1, loseDeviceOK
  <2>3. QED BY <1>5, <2>2
<1>34. CASE f.fn = "restoreFromSeed"
  <2>1. r = restoreFromSeed(w, from)
    BY <1>34 DEF PRIMS, from
  <2> HIDE DEF r
  <2>2. r.ok = TRUE /\ WorldOK(r.world) /\ Only(w, r.world, {"devices"})
    BY <1>1, <2>1, restoreFromSeedOK
  <2>3. SparedBefore(w, r.world)
    BY <2>2, SparedSelf DEF SparedBefore, WorldOK
  <2>4. ChargesOnly(w, r.world)
    BY <2>3, SparedCharges
  <2>5. QED BY <2>2, <2>4 DEF Fits
<1> HIDE DEF r
<1>35. Fits(r)
  BY <1>1, <1>6, <1>7, <1>8, <1>9, <1>10, <1>11, <1>12, <1>13, <1>14, <1>15, <1>16, <1>17, <1>18, <1>19, <1>20, <1>21, <1>22, <1>23, <1>24, <1>25, <1>26, <1>27, <1>28, <1>29, <1>30, <1>31, <1>32, <1>33, <1>34 DEF CallNames
<1>36. QED BY <1>35 DEF Fits, r

-----------------------------------------------------------------------------
(* Play all. *)

\* A browse from its session's start to its end.
LEMMA WholeBrowseOK ==
  ASSUME NEW w, WorldOK(w), w.deployed, NEW f \in FormTypes["browse"]
  PROVE  Fine(w, runDefault(w, "browse", f))
<1> DEFINE o == openSession(w, f.who, f.target, f.offline)
           y == Browsed(o.world, f.target)[f.target]
           z == closeSession(y)
           b == y.session.throttled # "phone"
           q == [Ok(z) EXCEPT !.ok = b]
           r == IF o.ok THEN q ELSE o
<1>1. runDefault(w, "browse", f) = r
  BY DEF runDefault, Then
<1>2. f.who \in Clients /\ f.target \in Nat \ {0} /\ f.target \in Nat /\ f.offline \in BOOLEAN
  BY DEF FormTypes
<1>3. Calm(w, o)
  BY <1>2, openSessionOK
<1> HIDE DEF o
<1>4. Still(o.world, y)
  <2>1. WorldOK(o.world)
    BY <1>3 DEF Calm, Right
  <2>2. QED BY <1>2, <2>1, BrowsedOK DEF Still
<1>5. b \in BOOLEAN
  OBVIOUS
<1> HIDE DEF y, b
<1>6. Still(y, z)
  BY <1>4, closeSessionOK DEF Still
<1> HIDE DEF z
<1>7. q.world = z /\ q.ok = b
  BY DEF Ok, Done
<1> HIDE DEF q
<1>8. Calm(o.world, q)
  <2>1. WorldOK(o.world)
    BY <1>3 DEF Calm, Right
  <2>2. Still(o.world, z)
    BY <1>4, <1>6, <2>1, StillTwice
  <2>3. QED BY <1>5, <1>7, <2>2, CalmStill
<1>9. Calm(w, r)
  BY <1>3, <1>8, CalmThen
<1>10. QED BY <1>1, <1>9, CalmFine

\* Nothing is bought and nothing deposited where there are no contracts.
LEMMA DeployedBy ==
  ASSUME NEW w, WorldOK(w), NEW id \in {"setup", "topup", "fill"}, NEW f \in FormTypes[id],
         run(w, id, f).ok
  PROVE  run(w, id, f).world.deployed
<1>1. CASE id = "setup"
  <2>1. f.price \in Price /\ f.fee \in Fee
    BY <1>1 DEF FormTypes
  <2> DEFINE x == [w EXCEPT !.params.price = f.price, !.params.fee = f.fee]
  <2>2. run(w, id, f) = setupNetwork(x)
    BY <1>1 DEF run
  <2>3. WorldOK(x)
    BY <2>1, setupParamsOK, Zenon
  <2> HIDE DEF x
  <2>4. setupNetwork(x).world.deployed = TRUE
    BY <2>3, setupNetworkStays
  <2>5. QED BY <2>2, <2>4
<1>2. CASE id = "topup"
  <2> DEFINE n == kes(f.amount)
             r1 == stkPush(w, f.who, n, f.fail)
             x == r1.world
             info == Window(x, "kiosk")
             r2 == bridgeMint(x, "kiosk", f.who, n)
             s == IF r1.ok THEN r2 ELSE r1
             r == buy(w, f.who, n, f.fail)
  <2>1. f.who \in Clients /\ n \in Nat /\ f.fail \in BOOLEAN
    BY <1>2, kesType DEF FormTypes
  <2>2. run(w, id, f) = r
    BY <1>2 DEF run
  <2>3. r = IF s.ok THEN issueVoucher(s.world, f.who, n) ELSE s
    BY DEF buy, Then
  <2>4. r.world.deployed = w.deployed
    BY <2>1, buyStays DEF Stays
  <2>5. WorldOK(x) /\ x.deployed = w.deployed
    <3>1. f.who \in ACTORS
      BY <2>1, ActorNames
    <3>2. WorldOK(x)
      BY <2>1, <3>1, stkPushOK DEF Right
    <3>3. x.deployed = w.deployed
      BY stkPushStays DEF Stays
    <3>4. QED BY <3>2, <3>3
  <2>6. r1.ok => s = r2
    OBVIOUS
  <2> HIDE DEF r, r1, n
  <2>7. s.ok
    BY <2>2, <2>3
  <2>8. r1.ok /\ r2.ok
    BY <2>7
  <2> HIDE DEF x
  <2>9. info.allowed
    BY <2>8 DEF bridgeMint, call, Done, Failed
  <2>10. x.bridges["kiosk"].allowed
    BY <2>5, <2>9, ActorNames, WindowType
  <2>11. x.deployed
    BY <2>5, <2>10, ActorNames, Deployed
  <2>12. QED BY <2>2, <2>4, <2>5, <2>11
<1>3. CASE id = "fill"
  <2> DEFINE n == kes(f.amount)
             s == signPermit(w, f.who, "escrow", n)
             p == s.result
             x == IF PermitHolds(w, p) THEN applyPermit(w, p) ELSE w
             r2 == depositWithPermit(w, "kiosk", f.who, n, p)
             r == depositGasless(w, f.who, n)
  <2>1. f.who \in Clients /\ f.who \in HOLDERS /\ n \in Nat
    BY <1>3, kesType, ActorNames DEF FormTypes, HOLDERS
  <2>2. run(w, id, f) = r
    BY <1>3 DEF run
  <2>3. r.world.deployed = w.deployed
    BY <2>1, depositGaslessStays DEF Stays
  <2>4. s.world = w
    BY DEF signPermit, callOff, Done, Failed
  <2>5. r = IF s.ok THEN r2 ELSE s
    BY <2>4 DEF depositGasless, Then
  <2>6. x.bal = w.bal
    BY DEF applyPermit
  <2>7. r2 = call(w, "depositWithPermit", "kiosk", CanDeposit(x, f.who, n), Deposited(x, f.who, n))
    BY DEF depositWithPermit
  <2> HIDE DEF r, s, p, x, n, r2
  <2>8. r2.ok
    BY <2>2, <2>5
  <2>9. CanDeposit(x, f.who, n)
    BY <2>7, <2>8 DEF call, Done, Failed
  <2>10. n > 0 /\ w.bal[f.who] >= n
    BY <2>6, <2>9 DEF CanDeposit
  <2>11. w.bal[f.who] # 0
    BY <2>1, <2>10
  <2>12. w.deployed
    BY <2>1, <2>11, Deployed
  <2>13. QED BY <2>2, <2>3, <2>12
<1>4. QED BY <1>1, <1>2, <1>3

\* A history: worlds in order, at least one, and all of them right.
AllOK(ws) == \E S : ws \in Seq(S) /\ ws # << >> /\ \A w \in S : WorldOK(w)

LEMMA AllOKFacts ==
  ASSUME NEW ws, AllOK(ws)
  PROVE  /\ Len(ws) \in Nat \ {0} /\ DOMAIN ws = 1 .. Len(ws) /\ Len(ws) \in 1 .. Len(ws)
         /\ \A i \in 1 .. Len(ws) : WorldOK(ws[i])
         /\ WorldOK(ws[Len(ws)])
<1>1. PICK S : ws \in Seq(S) /\ ws # << >> /\ \A w \in S : WorldOK(w)
  BY DEF AllOK
<1>2. Len(ws) \in Nat \ {0} /\ DOMAIN ws = 1 .. Len(ws) /\ \A i \in 1 .. Len(ws) : ws[i] \in S
  BY <1>1
<1>3. Len(ws) \in 1 .. Len(ws)
  BY <1>2
<1>4. QED BY <1>1, <1>2, <1>3

LEMMA OneOK ==
  ASSUME NEW w, WorldOK(w)
  PROVE  AllOK(<<w>>) /\ <<w>>[Len(<<w>>)] = w
<1> DEFINE ws == <<w>>  S == {w}
<1>1. ws \in Seq(S) /\ ws # << >> /\ \A x \in S : WorldOK(x)
  OBVIOUS
<1>2. Len(ws) = 1 /\ ws[1] = w
  OBVIOUS
<1> HIDE DEF ws, S
<1>3. AllOK(ws) /\ ws[Len(ws)] = w
  BY <1>1, <1>2 DEF AllOK
<1>4. QED BY <1>3 DEF ws

LEMMA CommittedOK ==
  ASSUME NEW ws, AllOK(ws), NEW w, WorldOK(w)
  PROVE  AllOK(Committed(ws, w)) /\ Committed(ws, w)[Len(Committed(ws, w))] = w
<1>1. PICK S : ws \in Seq(S) /\ ws # << >> /\ \A x \in S : WorldOK(x)
  BY DEF AllOK
<1> DEFINE n == Len(ws)
           m == Max2(1, n - MaxHistory + 2)
           kept == SubSeq(ws, m, n)
           T == S \cup {w}
<1>2. Committed(ws, w) = kept \o <<w>>
  BY DEF Committed
<1>3. n \in Nat
  BY <1>1
<1>4. m \in 1 .. n + 1
  <2> HIDE DEF n
  <2>1. MaxHistory \in Nat \ {0}
    BY PlaygroundConstants
  <2>2. QED BY <1>3, <2>1 DEF Max2
<1> HIDE DEF m
<1>5. kept \in Seq(T)
  <2>1. ws \in Seq(T)
    BY <1>1
  <2>2. \A i \in m .. n : ws[i] \in T
    BY <1>4, <2>1
  <2>3. QED BY <1>3, <1>4, <2>1, <2>2, SubSeqProperties
<1> HIDE DEF kept
<1>6. <<w>> \in Seq(T) /\ Len(<<w>>) = 1 /\ <<w>>[1] = w
  OBVIOUS
<1> HIDE DEF T
<1>7. /\ kept \o <<w>> \in Seq(T) /\ Len(kept \o <<w>>) = Len(kept) + 1
      /\ Len(kept) \in Nat
  BY <1>5, <1>6, ConcatProperties, LenProperties
<1>8. (kept \o <<w>>)[Len(kept) + 1] = w
  BY <1>5, <1>6, <1>7, ConcatProperties
<1>9. kept \o <<w>> # << >>
  BY <1>7
<1>10. \A x \in T : WorldOK(x)
  BY <1>1 DEF T
<1>11. QED BY <1>2, <1>7, <1>8, <1>9, <1>10 DEF AllOK

LEMMA ReplacedOK ==
  ASSUME NEW ws, AllOK(ws), NEW w, WorldOK(w)
  PROVE  LET x == [ws EXCEPT ![Len(ws)] = w]
         IN AllOK(x) /\ Len(x) = Len(ws) /\ x[Len(x)] = w
<1>1. PICK S : ws \in Seq(S) /\ ws # << >> /\ \A x \in S : WorldOK(x)
  BY DEF AllOK
<1> DEFINE T == S \cup {w}
           n == Len(ws)
           y == [ws EXCEPT ![n] = w]
<1>2. ws \in Seq(T) /\ w \in T /\ n \in 1 .. n /\ n \in Nat /\ DOMAIN ws = 1 .. n
  BY <1>1
<1>3. \A x \in T : WorldOK(x)
  BY <1>1
<1> HIDE DEF T
<1>4. y \in Seq(T) /\ Len(y) = n /\ y[n] = w
  BY <1>2, ExceptSeq
<1>5. y # << >>
  BY <1>2, <1>4
<1>6. QED BY <1>3, <1>4, <1>5 DEF AllOK

LEMMA UndoneOK ==
  ASSUME NEW ws, AllOK(ws), Len(ws) > 1
  PROVE  AllOK(SubSeq(ws, 1, Len(ws) - 1))
<1>1. PICK S : ws \in Seq(S) /\ ws # << >> /\ \A x \in S : WorldOK(x)
  BY DEF AllOK
<1> DEFINE n == Len(ws)
           x == SubSeq(ws, 1, n - 1)
<1>2. n \in Nat /\ n > 1
  BY <1>1
<1>3. \A i \in 1 .. n - 1 : ws[i] \in S
  BY <1>1, <1>2
<1>4. x \in Seq(S) /\ Len(x) = n - 1
  BY <1>1, <1>2, <1>3, SubSeqProperties
<1> HIDE DEF x, n
<1>5. x # << >>
  BY <1>2, <1>4
<1>6. AllOK(x)
  BY <1>1, <1>4, <1>5 DEF AllOK
<1>7. QED BY <1>6 DEF x, n

PlaysOn(p, start, first) ==
    p = [i \in 0 .. Len(STEPS) - first |->
            IF i = 0 THEN start ELSE More(p[i - 1], STEPS[first + i - 1], first + i - 1)]

LEMMA PlayedStep ==
  ASSUME NEW start, NEW first, first \in 1 .. Len(STEPS) - 1
  PROVE  PlaysOn(Played(start, first), start, first)
<1> DEFINE n_ == Len(STEPS) - first
           Plays(x, i) == More(x, STEPS[first + i - 1], first + i - 1)
           Unfolds(s, k) == s = [i \in 0 .. k |-> IF i = 0 THEN start ELSE Plays(s[i - 1], i)]
           P == {k \in 0 .. n_ : \E s : Unfolds(s, k)}
<1>0. n_ \in Nat
  BY DEF STEPS
<1> HIDE DEF n_, Plays
<1>1. 0 \in P
  <2> DEFINE g == [i \in 0 .. 0 |-> start]
  <2>1. Unfolds(g, 0)
    OBVIOUS
  <2>2. 0 \in 0 .. n_
    BY <1>0
  <2> HIDE DEF Unfolds, g
  <2>3. QED BY <2>1, <2>2
<1>2. ASSUME NEW k \in 0 .. n_, k < n_, k \in P PROVE k + 1 \in P
  <2>1. PICK s : Unfolds(s, k)
    BY <1>2
  <2> DEFINE g == [i \in 0 .. k + 1 |-> IF i = k + 1 THEN Plays(s[k], k + 1) ELSE s[i]]
  <2>2. Unfolds(g, k + 1)
    <3>1. k \in Nat
      BY <1>0, <1>2
    <3>2. /\ g = [i \in 0 .. k + 1 |-> g[i]] /\ g[k + 1] = Plays(s[k], k + 1)
          /\ \A i \in 0 .. k : g[i] = s[i]
      BY <3>1
    <3>3. \A i \in 0 .. k : s[i] = IF i = 0 THEN start ELSE Plays(s[i - 1], i)
      BY <2>1
    <3> HIDE DEF g
    <3>4. \A i \in 1 .. k : g[i] = Plays(g[i - 1], i)
      <4>1. \A i \in 1 .. k : i \in 0 .. k /\ i - 1 \in 0 .. k /\ i # 0
        BY <3>1
      <4>2. QED BY <3>2, <3>3, <4>1
    <3>5. g[0] = start /\ g[k + 1] = Plays(g[(k + 1) - 1], k + 1)
      <4>1. 0 \in 0 .. k /\ k \in 0 .. k /\ (k + 1) - 1 = k
        BY <3>1
      <4>2. QED BY <3>2, <3>3, <4>1
    <3>6. \A i \in 0 .. k + 1 : g[i] = IF i = 0 THEN start ELSE Plays(g[i - 1], i)
      <4>1. \A i \in 0 .. k + 1 : i = 0 \/ i \in 1 .. k \/ i = k + 1
        BY <3>1
      <4>2. \A i \in 1 .. k : i # 0
        BY <3>1
      <4>3. k + 1 # 0
        BY <3>1
      <4>4. QED BY <3>4, <3>5, <4>1, <4>2, <4>3
    <3>7. QED BY <3>2, <3>6
  <2>3. k + 1 \in 0 .. n_
    BY <1>0, <1>2
  <2> HIDE DEF Unfolds
  <2>4. QED BY <2>2, <2>3
<1>3. n_ \in P
  <2> HIDE DEF P
  <2>2. \A k \in 0 .. n_ : k < n_ /\ k \in P => k + 1 \in P
    BY <1>2
  <2>3. n_ \in 0 .. n_
    BY <1>0
  <2>4. \A k \in 0 .. n_ : k \in P
    BY <1>0, <1>1, <2>2, SetInduction
  <2>5. QED BY <2>3, <2>4
<1>4. Played(start, first) = CHOOSE s : Unfolds(s, n_)
  BY DEF Played, n_, Plays
<1>5. \E s : Unfolds(s, n_)
  BY <1>3
<1> HIDE DEF Unfolds
<1>6. Unfolds(Played(start, first), n_)
  BY <1>4, <1>5
<1>7. QED BY <1>6 DEF Unfolds, n_, Plays, PlaysOn

\* How a play-all stands, as the result of a flow.
Ended(s) == [world |-> s.world, ok |-> ~s.stop, result |-> None, failed |-> s.failed]

\* A play-all from the world v and the history old.
PlayOK(v, old, s) ==
    /\ Fine(v, Ended(s))
    /\ AllOK(s.worlds)
    /\ s.worlds = old \/ s.worlds[Len(s.worlds)] = s.world

\* Before its browse step there are contracts.
PlayReady(s, first, i) ==
    ~s.stop /\ first + i <= 4 /\ (i > 0 \/ first = 4) => s.world.deployed

LEMMA MoreOK ==
  ASSUME NEW v, WorldOK(v), NEW old, NEW s, PlayOK(v, old, s), NEW id \in StepIds \ {"whatif"},
         NEW at, id = "browse" /\ ~s.stop => s.world.deployed
  PROVE  PlayOK(v, old, More(s, id, at))
<1> DEFINE m == More(s, id, at)
           w == s.world
           f == DefaultForms[id]
           r == runDefault(w, id, f)
<1>1. CASE s.stop \/ waits(w, id)
  <2>1. m = s
    BY <1>1 DEF More
  <2> HIDE DEF m
  <2>2. PlayOK(v, old, m)
    BY <2>1
  <2>3. QED BY <2>2 DEF m
<1>2. CASE ~(s.stop \/ waits(w, id))
  <2> DEFINE ws == Committed(s.worlds, r.world)  stopped == ~r.ok  failed_ == r.failed  x == r.world
  <2>1. m.world = x /\ m.worlds = ws /\ m.stop = stopped /\ m.failed = failed_
    BY <1>2 DEF More, Advanced
  <2>2. Fine(v, Ended(s)) /\ AllOK(s.worlds)
    BY DEF PlayOK
  <2>3. Ended(s).world = w /\ Ended(s).ok = TRUE
    BY <1>2 DEF Ended
  <2>4. WorldOK(w)
    BY <2>2, <2>3 DEF Fine, Right
  <2>5. f \in FormTypes[id]
    BY PlaygroundConstants
  <2> HIDE DEF f
  <2>6. Fine(w, r)
    <3>1. CASE id = "browse"
      BY <1>2, <2>4, <2>5, <3>1, WholeBrowseOK
    <3>2. CASE id # "browse"
      <4>1. r = run(w, id, f)
        BY <3>2 DEF runDefault
      <4> HIDE DEF r
      <4>2. QED BY <2>4, <2>5, <3>2, <4>1, runOK
    <3>3. QED BY <3>1, <3>2
  <2> HIDE DEF w, r
  <2>7. Fine(v, r)
    <3>1. Fine(v, IF Ended(s).ok THEN r ELSE Ended(s))
      BY <2>2, <2>3, <2>6, FineThen
    <3>2. QED BY <2>3, <3>1
  <2>8. /\ r.ok \in BOOLEAN /\ WorldOK(x) /\ AllSpared(v, x)
        /\ r.ok \/ failed_ = "b2cPayout" => GapOf(x) = GapOf(v)
        /\ GapOf(x) < GapOf(v) => ~r.ok /\ failed_ = "bridgeBurn"
    BY <2>7 DEF Fine, Right
  <2>9. AllOK(ws) /\ ws[Len(ws)] = x
    BY <2>2, <2>8, CommittedOK
  <2>10. stopped \in BOOLEAN /\ (stopped <=> ~r.ok)
    OBVIOUS
  <2> HIDE DEF m, ws, stopped, failed_, x
  <2>11. Ended(m).world = x /\ Ended(m).ok = ~stopped /\ Ended(m).failed = failed_
    BY <2>1 DEF Ended
  <2>12. Fine(v, Ended(m))
    <3> DEFINE e == Ended(m)
    <3>1. e.world = x /\ e.ok = ~stopped /\ e.failed = failed_
      BY <2>11
    <3> HIDE DEF e
    <3>2. e.ok \in BOOLEAN /\ (e.ok <=> ~stopped)
      BY <3>1
    <3>3. Right(v, e)
      BY <2>8, <3>1, <3>2 DEF Right
    <3>4. Fine(v, e)
      BY <2>8, <2>10, <3>1, <3>2, <3>3 DEF Fine
    <3>5. QED BY <3>4 DEF e
  <2>13. PlayOK(v, old, m)
    BY <2>1, <2>9, <2>12 DEF PlayOK
  <2>14. QED BY <2>13 DEF m
<1>3. QED BY <1>1, <1>2

LEMMA MoreReady ==
  ASSUME NEW s, WorldOK(s.world), NEW id \in {"setup", "topup", "fill"}, NEW at
  PROVE  LET m == More(s, id, at) IN ~m.stop => m.world.deployed
<1> DEFINE m == More(s, id, at)
           w == s.world
           f == DefaultForms[id]
           r == run(w, id, f)
<1>1. CASE s.stop
  <2>1. m = s
    BY <1>1 DEF More
  <2> HIDE DEF m
  <2>2. m.stop
    BY <1>1, <2>1
  <2>3. QED BY <2>2 DEF m
<1>2. CASE ~s.stop
  <2>1. ~waits(w, id)
    BY DEF waits
  <2>2. runDefault(w, id, f) = r
    BY Zenon DEF runDefault
  <2>3. f \in FormTypes[id]
    BY PlaygroundConstants DEF StepIds, STEPS
  <2> HIDE DEF f, w
  <2>4. m.world = r.world /\ m.stop = ~r.ok
    BY <1>2, <2>1, <2>2 DEF More, Advanced, w, f
  <2> HIDE DEF m, r
  <2>5. WorldOK(w)
    BY DEF w
  <2>6. r.ok => r.world.deployed
    BY <2>3, <2>5, DeployedBy DEF r
  <2>7. ~m.stop => m.world.deployed
    BY <2>4, <2>6
  <2>8. QED BY <2>7 DEF m
<1>3. QED BY <1>1, <1>2

LEMMA StepAt ==
  ASSUME NEW k \in 1 .. Len(STEPS) - 1
  PROVE  /\ STEPS[k] \in StepIds \ {"whatif"}
         /\ k <= 3 => STEPS[k] \in {"setup", "topup", "fill"}
         /\ STEPS[k] = "browse" <=> k = 4
<1>1. k \in {1, 2, 3, 4, 5, 6, 7, 8, 9, 10} /\ Len(STEPS) = 11
  BY DEF STEPS
<1>2. DOMAIN STEPS = 1 .. 11
  BY DEF STEPS
<1>3. STEPS[k] \in StepIds
  BY <1>1, <1>2 DEF StepIds
<1>4. QED BY <1>1, <1>3 DEF STEPS

LEMMA PlayedOK ==
  ASSUME NEW v, WorldOK(v), NEW old, NEW start, PlayOK(v, old, start),
         NEW first \in 1 .. Len(STEPS) - 1, first = 4 => start.world.deployed
  PROVE  PlayOK(v, old, Played(start, first)[Len(STEPS) - first])
<1> DEFINE n == Len(STEPS) - first
           p == Played(start, first)
           Stands(i, s) == PlayOK(v, old, s) /\ PlayReady(s, first, i)
           P == {i \in 0 .. n : Stands(i, p[i])}
<1>1. Len(STEPS) = 11 /\ first \in 1 .. 10 /\ n = 11 - first /\ n \in Nat
  BY DEF STEPS
<1>2. p = [i \in 0 .. n |-> IF i = 0 THEN start
                            ELSE More(p[i - 1], STEPS[first + i - 1], first + i - 1)]
  <2>1. PlaysOn(p, start, first)
    BY PlayedStep
  <2> HIDE DEF p
  <2>2. QED BY <2>1 DEF PlaysOn
<1> HIDE DEF n, p
<1>3. 0 \in P
  <2>1. p[0] = start /\ 0 \in 0 .. n
    BY <1>1, <1>2
  <2>2. PlayReady(start, first, 0)
    BY <1>1 DEF PlayReady
  <2>3. QED BY <2>1, <2>2
<1>4. ASSUME NEW i \in 0 .. n, i < n, i \in P PROVE i + 1 \in P
  <2> DEFINE s == p[i]  k == first + i  id == STEPS[k]
  <2>1. /\ i + 1 \in 0 .. n /\ i + 1 # 0 /\ (i + 1) - 1 = i /\ first + (i + 1) - 1 = k
        /\ k \in 1 .. 10 /\ i \in Nat /\ first \in Nat
    BY <1>1, <1>4
  <2>2. p[i + 1] = More(s, id, k)
    BY <1>2, <2>1
  <2>3. PlayOK(v, old, s) /\ PlayReady(s, first, i)
    BY <1>4
  <2>4. k = first + i /\ k \in 1 .. Len(STEPS) - 1
    BY <1>1, <2>1
  <2> HIDE DEF s, k
  <2>5. /\ id \in StepIds \ {"whatif"} /\ (k <= 3 => id \in {"setup", "topup", "fill"})
        /\ (id = "browse" <=> k = 4)
    BY <2>4, StepAt
  <2> HIDE DEF id
  <2>6. id = "browse" /\ ~s.stop => s.world.deployed
    BY <2>1, <2>3, <2>4, <2>5 DEF PlayReady
  <2>7. PlayOK(v, old, More(s, id, k))
    BY <2>3, <2>5, <2>6, MoreOK
  <2>8. PlayReady(More(s, id, k), first, i + 1)
    <3>1. CASE k <= 3
      <4>1. WorldOK(s.world)
        BY <2>3 DEF PlayOK, Fine, Right, Ended
      <4>2. id \in {"setup", "topup", "fill"}
        BY <2>5, <3>1
      <4>3. ~More(s, id, k).stop => More(s, id, k).world.deployed
        BY <4>1, <4>2, MoreReady
      <4>4. QED BY <4>3 DEF PlayReady
    <3>2. CASE ~(k <= 3)
      <4>1. ~(first + (i + 1) <= 4)
        BY <2>1, <2>4, <3>2
      <4>2. QED BY <4>1 DEF PlayReady
    <3>3. QED BY <3>1, <3>2
  <2>9. Stands(i + 1, p[i + 1])
    BY <2>2, <2>7, <2>8
  <2> HIDE DEF Stands
  <2>10. QED BY <2>1, <2>9
<1>5. \A i \in 0 .. n : i < n /\ i \in P => i + 1 \in P
  BY <1>4
<1>6. \A i \in P : PlayOK(v, old, p[i])
  OBVIOUS
<1> HIDE DEF P
<1>7. \A i \in 0 .. n : i \in P
  BY <1>1, <1>3, <1>5, SetInduction
<1>8. n \in P
  <2>1. n \in 0 .. n
    BY <1>1
  <2>2. QED BY <1>7, <2>1
<1>9. PlayOK(v, old, p[n])
  BY <1>6, <1>8
<1>10. QED BY <1>9 DEF n, p

-----------------------------------------------------------------------------
(* The page. *)

\* Every world kept is right, and so is the one shown, which differs from the
\* newest in what was served and signed only.
Inv ==
    /\ AllOK(hist)
    /\ WorldOK(shown)
    /\ Only(shown, hist[Len(hist)], {"session", "tickets"})

\* The claims of PegKept and of LostPhoneSpendsNothing about a step.
StepClaims ==
    hist' # hist =>
        /\ PegClaim(shown, hist'[Len(hist')], last')
        /\ last' # "back" => ChargesOnly(shown, hist'[Len(hist')])

StepOK == Inv' /\ StepClaims

LEMMA ClickedSafe ==
  ASSUME NEW worlds, AllOK(worlds), NEW step, NEW ok, NEW at, Clicked(worlds, step, ok, at),
         \/ worlds = hist
         \/ /\ PegClaim(shown, worlds[Len(worlds)], Outcome(step, ok, at))
            /\ \/ Outcome(step, ok, at) = "back"
               \/ ChargesOnly(shown, worlds[Len(worlds)])
  PROVE  StepOK
<1> DEFINE how == Outcome(step, ok, at)
<1>1. hist' = worlds /\ shown' = worlds[Len(worlds)] /\ last' = how
  BY DEF Clicked
<1> HIDE DEF how
<1>2. WorldOK(worlds[Len(worlds)])
  BY AllOKFacts
<1>3. \A w : WorldOK(w) => Only(w, w, {"session", "tickets"})
  BY DEF WorldOK, IsWorld, Only
<1>4. Inv'
  BY <1>1, <1>2, <1>3 DEF Inv
<1>5. StepClaims
  BY <1>1 DEF StepClaims, how
<1>6. QED BY <1>4, <1>5 DEF StepOK

LEMMA CommitSafe ==
  ASSUME Inv, NEW r, NEW step, commit(r, step),
         Lawful(shown, r.world, Outcome(step, r.ok, r.failed))
  PROVE  StepOK
<1> DEFINE worlds == Committed(hist, r.world)
<1>1. Clicked(worlds, step, r.ok, r.failed)
  BY DEF commit
<1>2. AllOK(worlds) /\ worlds[Len(worlds)] = r.world
  BY CommittedOK DEF Inv, Lawful
<1> HIDE DEF worlds
<1>3. ChargesOnly(shown, r.world)
  BY SparedCharges DEF Inv, Lawful
<1>4. PegClaim(shown, r.world, Outcome(step, r.ok, r.failed))
  BY DEF Lawful
<1>5. QED BY <1>1, <1>2, <1>3, <1>4, ClickedSafe

LEMMA ReplaceSafe ==
  ASSUME Inv, NEW w, Still(shown, w), NEW step, NEW ok, NEW at, Clicked(replace(w), step, ok, at)
  PROVE  StepOK
<1> DEFINE worlds == replace(w)
<1>1. AllOK(worlds) /\ worlds[Len(worlds)] = w
  BY ReplacedOK DEF Inv, Still, replace
<1> HIDE DEF worlds
<1>2. Lawful(shown, w, Outcome(step, ok, at))
  <2>1. SparedBefore(shown, w) /\ GapOf(w) = GapOf(shown)
    BY SparedNow, GapSame DEF Still
  <2>2. QED BY <2>1, SameLawful DEF Still, Inv
<1>3. ChargesOnly(shown, w) /\ PegClaim(shown, w, Outcome(step, ok, at))
  BY <1>2, SparedCharges DEF Inv, Lawful
<1>4. QED BY <1>1, <1>3, ClickedSafe DEF worlds

LEMMA RunSafe ==
  ASSUME Inv, NEW id \in StepIds, NEW f \in Forms[id], Run(id, f)
  PROVE  StepOK
<1> DEFINE r == run(shown, id, f)
<1>1. id \notin {"browse", "whatif"} /\ commit(r, id)
  BY DEF Run
<1>2. f \in FormTypes[id]
  BY PlaygroundConstants
<1>3. Fine(shown, r)
  BY <1>1, <1>2, runOK DEF Inv
<1> HIDE DEF r
<1>4. QED BY <1>1, <1>3, FineLawful, CommitSafe

LEMMA RetrySafe ==
  ASSUME Inv, NEW f \in Forms["cashout"], Retry(f)
  PROVE  StepOK
<1> DEFINE n == kes(f.amount)
           r == PayAndBurn(shown, f.who, n, FALSE)
<1>1. commit(r, "retry")
  BY DEF Retry, retryPayout
<1>2. f.who \in ACTORS /\ n \in Nat /\ FALSE \in BOOLEAN
  <2>1. f \in FormTypes["cashout"]
    BY PlaygroundConstants DEF StepIds, STEPS
  <2>2. f.who \in Clients /\ f.amount \in Nat
    BY <2>1 DEF FormTypes
  <2>3. QED BY <2>2, kesType, ActorNames
<1> HIDE DEF n
<1>3. Fine(shown, r)
  BY <1>2, PayAndBurnOK DEF Inv
<1> HIDE DEF r
<1>4. QED BY <1>1, <1>3, FineLawful, CommitSafe

LEMMA DrillSafe ==
  ASSUME Inv, NEW id \in DRILLS, Drill(id)
  PROVE  StepOK
<1> DEFINE prep == ensureReady(shown)
           w == prep.world
           r == RunDrill(w, id)
<1>1. /\ prep.ok => ~Unsigned(w, id)
      /\ IF prep.ok THEN commit(r, id) ELSE commit(prep, id)
  BY DEF Drill
<1>2. Fine(shown, prep) /\ w.deployed = TRUE
  BY ensureReadyOK DEF Inv
<1> HIDE DEF prep
<1>3. CASE prep.ok
  <2>1. WorldOK(w) /\ AllSpared(shown, w) /\ GapOf(w) = GapOf(shown) /\ WorldOK(shown)
    BY <1>2, <1>3 DEF Fine, Right, Inv
  <2> HIDE DEF w
  <2>2. Lawful(w, r.world, Outcome(id, r.ok, r.failed))
    BY <1>1, <1>2, <1>3, <2>1, RunDrillOK
  <2> HIDE DEF r
  <2>3. Lawful(shown, r.world, Outcome(id, r.ok, r.failed))
    BY <2>1, <2>2, LawfulAfter
  <2>4. QED BY <1>1, <1>3, <2>3, CommitSafe
<1>4. CASE ~prep.ok
  BY <1>1, <1>2, <1>4, FineLawful, CommitSafe
<1>5. QED BY <1>3, <1>4

LEMMA ConsoleSafe ==
  ASSUME Inv, NEW f \in ConsoleCalls, Console(f)
  PROVE  StepOK
<1> DEFINE r == PRIMS(shown, f)
           worlds == Committed(hist, r.world)
           how == Outcome(f.fn, r.ok, r.failed)
<1>1. Clicked(worlds, f.fn, r.ok, r.failed)
  BY DEF Console, commit
<1>2. f \in CallForms
  BY PlaygroundConstants
<1>3. r.ok \in BOOLEAN /\ WorldOK(r.world) /\ ChargesOnly(shown, r.world)
  BY <1>2, PrimsOK DEF Inv
<1>4. f.fn \in Manual
  BY <1>2 DEF CallForms, Manual
<1> HIDE DEF r
<1>5. how = "manual"
  BY <1>3, <1>4, OutcomeIs
<1>6. PegClaim(shown, r.world, how)
  BY <1>5 DEF PegClaim
<1>7. AllOK(worlds) /\ worlds[Len(worlds)] = r.world
  BY <1>3, CommittedOK DEF Inv
<1> HIDE DEF worlds
<1>8. QED BY <1>1, <1>3, <1>6, <1>7, ClickedSafe

LEMMA StartSafe ==
  ASSUME Inv, NEW f \in Forms["browse"], Start(f)
  PROVE  StepOK
<1> DEFINE r == openSession(shown, f.who, f.target, f.offline)
<1>1. commit(r, "browse") /\ shown.deployed
  BY DEF Start
<1>2. f.who \in Clients /\ f.target \in Nat \ {0} /\ f.offline \in BOOLEAN
  <2>1. f \in FormTypes["browse"]
    BY PlaygroundConstants DEF StepIds, STEPS
  <2>2. QED BY <2>1 DEF FormTypes
<1>3. Calm(shown, r)
  BY <1>1, <1>2, openSessionOK DEF Inv
<1> HIDE DEF r
<1>4. Fine(shown, r)
  BY <1>3, CalmFine DEF Inv
<1>5. QED BY <1>1, <1>4, FineLawful, CommitSafe

LEMMA UndoSafe ==
  ASSUME Inv, Undo
  PROVE  StepOK
<1> DEFINE worlds == SubSeq(hist, 1, Len(hist) - 1)
<1>1. Len(hist) > 1 /\ Clicked(worlds, "undo", TRUE, None)
  BY DEF Undo
<1>2. AllOK(worlds)
  BY <1>1, UndoneOK DEF Inv
<1>3. Outcome("undo", TRUE, None) = "back"
  BY DEF Outcome
<1> HIDE DEF worlds
<1>4. PegClaim(shown, worlds[Len(worlds)], "back")
  BY DEF PegClaim
<1>5. QED BY <1>1, <1>2, <1>3, <1>4, ClickedSafe

LEMMA ResetSafe ==
  ASSUME Inv, Reset
  PROVE  StepOK
<1> DEFINE worlds == <<createWorld>>
<1>1. Clicked(worlds, "reset", TRUE, None)
  BY DEF Reset
<1>2. AllOK(worlds)
  BY createWorldOK, OneOK
<1>3. Outcome("reset", TRUE, None) = "back"
  BY DEF Outcome
<1> HIDE DEF worlds
<1>4. PegClaim(shown, worlds[Len(worlds)], "back")
  BY DEF PegClaim
<1>5. QED BY <1>1, <1>2, <1>3, <1>4, ClickedSafe

LEMMA BrowseSafe ==
  ASSUME Inv, PlayPause \/ OneMore \/ Skip \/ Close
  PROVE  StepOK
<1>1. CASE PlayPause
  <2>1. Clicked(hist, "pause", TRUE, None) /\ AllOK(hist)
    BY <1>1 DEF PlayPause, Inv
  <2>2. QED BY <2>1, ClickedSafe
<1>2. \A n \in Nat : Still(shown, serve(shown, n))
  BY serveOK DEF Inv, Still
<1>3. CASE OneMore
  <2> DEFINE n == shown.params.receipt  w == serve(shown, n)
  <2>1. Clicked(replace(w), "more", TRUE, None)
    BY <1>3 DEF OneMore
  <2>2. n \in Nat
    <3>1. shown.params \in Params
      BY WorldTypes DEF Inv, WorldOK
    <3>2. QED BY <3>1 DEF Params
  <2>3. Still(shown, w)
    BY <1>2, <2>2
  <2> HIDE DEF w
  <2>4. QED BY <2>1, <2>3, ReplaceSafe, Zenon
<1>4. CASE Skip
  <2> DEFINE n == shown.session.target  w == serve(shown, n)
  <2>1. Clicked(replace(w), "skip", TRUE, None) /\ shown.session.open
    BY <1>4 DEF Skip, Serving
  <2>2. n \in Nat
    <3>1. shown.session \in Session
      BY <2>1, SessionType DEF Inv
    <3>2. QED BY <3>1 DEF Session
  <2>3. Still(shown, w)
    BY <1>2, <2>2
  <2> HIDE DEF w
  <2>4. QED BY <2>1, <2>3, ReplaceSafe, Zenon
<1>5. CASE Close
  <2> DEFINE w == closeSession(shown)
  <2>1. Clicked(replace(w), "close", TRUE, None)
    BY <1>5 DEF Close
  <2>2. Still(shown, w)
    BY closeSessionOK DEF Inv, Still
  <2> HIDE DEF w
  <2>3. QED BY <2>1, <2>2, ReplaceSafe
<1>6. QED BY <1>1, <1>3, <1>4, <1>5

LEMMA PlayAllSafe ==
  ASSUME Inv, NEW first \in PlayFrom, PlayAll(first)
  PROVE  StepOK
<1> DEFINE w == IF shown.session.open THEN closeSession(shown) ELSE shown
           start == [world |-> w, worlds |-> hist, at |-> first, stop |-> FALSE,
                     failed |-> None, payout |-> payoutFailed]
           end == Played(start, first)[Len(STEPS) - first]
           ok == ~end.stop
           how == Outcome("playall", ok, end.failed)
<1>1. /\ browsing <=> STEPS[first] = "browse"
      /\ browsing => shown.deployed
      /\ Clicked(end.worlds, "playall", ok, end.failed)
  BY DEF PlayAll
<1>2. first \in 1 .. Len(STEPS) - 1
  BY PlaygroundConstants
<1>3. Still(shown, w) /\ w.deployed = shown.deployed
  <2>1. Still(shown, shown)
    BY StillSelf DEF Inv
  <2>2. Still(shown, closeSession(shown)) /\ Only(shown, closeSession(shown), {"session", "tickets"})
    BY closeSessionOK DEF Inv, Still
  <2>3. closeSession(shown).deployed = shown.deployed
    BY <2>2, OnlyStays DEF Stays
  <2>4. QED BY <2>1, <2>2, <2>3
<1> HIDE DEF w
<1>4. first = 4 => w.deployed
  <2>1. first = 4 => STEPS[first] = "browse"
    BY <1>2, StepAt
  <2>2. QED BY <1>1, <1>3, <2>1
<1>5. PlayOK(shown, hist, start) /\ start.world = w
  <2>1. start.world = w /\ start.worlds = hist /\ start.stop = FALSE
    OBVIOUS
  <2> HIDE DEF start
  <2>2. Ended(start).world = w /\ Ended(start).ok \in BOOLEAN
    BY <2>1 DEF Ended
  <2>3. Fine(shown, Ended(start))
    BY <1>3, <2>2, CalmStill, CalmFine DEF Inv
  <2>4. QED BY <2>1, <2>3 DEF PlayOK, Inv
<1> HIDE DEF start
<1>6. PlayOK(shown, hist, end)
  BY <1>2, <1>4, <1>5, PlayedOK DEF Inv
<1> HIDE DEF end
<1>7. PegClaim(shown, end.world, how) /\ ChargesOnly(shown, end.world)
  <2> DEFINE e == Ended(end)
  <2>1. e.world = end.world /\ e.ok = ok /\ e.failed = end.failed
    BY DEF Ended
  <2>2. Fine(shown, e)
    BY <1>6 DEF PlayOK
  <2> HIDE DEF e, ok
  <2>3. PegClaim(shown, e.world, Outcome("playall", e.ok, e.failed))
    BY <2>2, FineClaim
  <2>4. ChargesOnly(shown, e.world)
    BY <2>2, RightCharges DEF Fine, Inv
  <2>5. QED BY <2>1, <2>3, <2>4
<1>8. AllOK(end.worlds) /\ (end.worlds = hist \/ end.worlds[Len(end.worlds)] = end.world)
  BY <1>6 DEF PlayOK
<1> HIDE DEF ok
<1>9. QED BY <1>1, <1>7, <1>8, ClickedSafe

LEMMA StaysSafe ==
  ASSUME Inv, hist' = hist, shown' = shown
  PROVE  StepOK
BY DEF Inv, StepOK, StepClaims

LEMMA TickSafe ==
  ASSUME Inv, Tick
  PROVE  StepOK
<1> DEFINE w == serve(shown, 1)
           worlds == replace(w)
<1>1. shown' = shown /\ last' = "done" /\ (hist' = worlds \/ hist' = hist)
  BY DEF Tick
<1>2. Still(shown, w) /\ Only(shown, w, {"session", "tickets"})
  <2>1. 1 \in Nat
    OBVIOUS
  <2>2. QED BY <2>1, serveOK DEF Inv, Still
<1> HIDE DEF w
<1>3. AllOK(worlds) /\ worlds[Len(worlds)] = w
  BY <1>2, ReplacedOK DEF Inv, Still, replace
<1> HIDE DEF worlds
<1>4. CASE hist' = worlds
  <2>1. Inv'
    BY <1>1, <1>2, <1>3, <1>4 DEF Inv
  <2>2. Lawful(shown, w, "done")
    BY <1>2, SparedNow, GapSame, SameLawful DEF Still, Inv
  <2>3. PegClaim(shown, w, "done") /\ ChargesOnly(shown, w)
    BY <2>2, SparedCharges DEF Lawful, Inv
  <2>4. StepClaims
    BY <1>1, <1>3, <1>4, <2>3 DEF StepClaims
  <2>5. QED BY <2>1, <2>4 DEF StepOK
<1>5. CASE hist' = hist
  BY <1>1, <1>5, StaysSafe
<1>6. QED BY <1>1, <1>4, <1>5

LEMMA RenderSafe ==
  ASSUME Inv, Render
  PROVE  StepOK
<1>1. hist' = hist /\ shown' = hist[Len(hist)]
  BY DEF Render
<1>2. WorldOK(hist[Len(hist)])
  BY AllOKFacts DEF Inv
<1>3. Only(hist[Len(hist)], hist[Len(hist)], {"session", "tickets"})
  BY <1>2 DEF WorldOK, IsWorld, Only
<1>4. Inv'
  BY <1>1, <1>2, <1>3 DEF Inv
<1>5. QED BY <1>1, <1>4 DEF StepOK, StepClaims

LEMMA PgGoneSafe ==
  ASSUME PgGone
  PROVE  StepOK
<1>1. hist' = <<createWorld>> /\ shown' = createWorld /\ last' = "back"
  BY DEF PgGone
<1>2. WorldOK(createWorld) /\ AllOK(<<createWorld>>)
  BY createWorldOK, OneOK
<1>3. <<createWorld>>[Len(<<createWorld>>)] = createWorld
  BY <1>2, OneOK
<1>4. Only(createWorld, createWorld, {"session", "tickets"})
  BY <1>2 DEF WorldOK, IsWorld, Only
<1>5. Inv'
  BY <1>1, <1>2, <1>3, <1>4 DEF Inv
<1>6. StepClaims
  BY <1>1 DEF StepClaims, PegClaim
<1>7. QED BY <1>5, <1>6 DEF StepOK

LEMMA NextSafe ==
  ASSUME Inv, [Next]_vars
  PROVE  StepOK
<1>1. CASE OnDemo
  <2>1. PgNext
    BY <1>1 DEF OnDemo
  <2>2. CASE Click
    <3>1. CASE \E id \in StepIds : \E f \in Forms[id] : Run(id, f)
      BY <3>1, RunSafe
    <3>2. CASE \E f \in Forms["cashout"] : Retry(f)
      BY <3>2, RetrySafe
    <3>3. CASE \E id \in DRILLS : Drill(id)
      BY <3>3, DrillSafe
    <3>4. CASE \E f \in ConsoleCalls : Console(f)
      BY <3>4, ConsoleSafe
    <3>5. CASE \E f \in Forms["browse"] : Start(f)
      BY <3>5, StartSafe
    <3>6. CASE Undo \/ Reset
      BY <3>6, UndoSafe, ResetSafe
    <3>7. CASE PlayPause \/ OneMore \/ Skip \/ Close
      BY <3>7, BrowseSafe
    <3>8. CASE \E first \in PlayFrom : PlayAll(first)
      BY <3>8, PlayAllSafe
    <3>9. CASE \E toBrowse \in BOOLEAN : SetActive(toBrowse)
      BY <3>9, StaysSafe DEF SetActive
    <3>10. QED BY <2>2, <3>1, <3>2, <3>3, <3>4, <3>5, <3>6, <3>7, <3>8, <3>9 DEF Click
  <2>3. QED BY <2>1, <2>2, TickSafe, RenderSafe DEF PgNext
<1>2. CASE OnSlides
  BY <1>2, StaysSafe DEF OnSlides, pgVars
<1>3. CASE ToSlides \/ ToDemo
  BY <1>3, PgGoneSafe DEF ToSlides, ToDemo
<1>4. CASE UNCHANGED vars
  BY <1>4, StaysSafe DEF vars, pgVars
<1>5. QED BY <1>1, <1>2, <1>3, <1>4 DEF Next

LEMMA InitSafe == Init => Inv
<1> SUFFICES ASSUME Init PROVE Inv
  OBVIOUS
<1>1. PICK w \in {createWorld, ensureReady(createWorld).world} : hist = <<w>> /\ shown = w
  BY DEF Init, PgInit
<1>2. WorldOK(w)
  <2>1. WorldOK(createWorld)
    BY createWorldOK
  <2>2. WorldOK(ensureReady(createWorld).world)
    BY <2>1, ensureReadyOK DEF Fine, Right
  <2>3. QED BY <2>1, <2>2
<1>3. AllOK(hist) /\ hist[Len(hist)] = w
  BY <1>1, <1>2, OneOK
<1>4. Only(w, w, {"session", "tickets"})
  BY <1>2 DEF WorldOK, IsWorld, Only
<1>5. QED BY <1>1, <1>2, <1>3, <1>4 DEF Inv

-----------------------------------------------------------------------------
(* The theorems.  Inv is inductive, and every step makes its claims.       *)

LEMMA InvHolds == Spec => []Inv
<1>1. Inv /\ [Next]_vars => Inv'
  BY NextSafe DEF StepOK
<1>2. QED BY <1>1, InitSafe, PTL DEF Spec

LEMMA WorldsOK ==
  ASSUME Inv, NEW w \in Worlds
  PROVE  WorldOK(w)
<1>1. PICK i \in DOMAIN hist : w = hist[i]
  BY DEF Worlds
<1>2. QED BY <1>1, AllOKFacts DEF Inv

LEMMA InvBooksBalance == Inv => BooksBalance
<1> SUFFICES ASSUME Inv, NEW w \in Worlds
             PROVE  /\ solvency(w) /\ conservation(w)
                    /\ TotalOf(w.mpesa) + w.float = TotalOf(createWorld.mpesa)
                    /\ \A h \in HOLDERS \ {"mallory"} : w.bal[h] >= 0
                    /\ \A a \in ACTORS : w.deposits[a] >= 0 /\ w.earnings[a] >= 0 /\ w.mpesa[a] >= 0
                    /\ w.float >= 0
  BY DEF BooksBalance
<1>1. IsWorld(w) /\ Money(w)
  BY WorldsOK DEF WorldOK
<1>2. solvency(w) /\ conservation(w) /\ TotalOf(w.mpesa) + w.float = TotalOf(createWorld.mpesa)
  BY <1>1 DEF Money, HeldBy, Phones, solvency, conservation
<1>3. /\ w.bal \in Purses /\ w.float \in Nat
      /\ w.deposits \in [ACTORS -> Nat] /\ w.earnings \in [ACTORS -> Nat]
      /\ w.mpesa \in [ACTORS -> Nat]
  BY <1>1, WorldTypes
<1>4. \A h \in HOLDERS \ {"mallory"} : w.bal[h] >= 0
  BY <1>3 DEF Purses
<1>5. \A a \in ACTORS : w.deposits[a] >= 0 /\ w.earnings[a] >= 0 /\ w.mpesa[a] >= 0
  BY <1>3
<1>6. QED BY <1>2, <1>3, <1>4, <1>5

LEMMA InvShownMoneyIsCurrent == Inv => ShownMoneyIsCurrent
<1> SUFFICES ASSUME Inv PROVE ShownMoneyIsCurrent
  OBVIOUS
<1> DEFINE w == shown
           x == hist[Len(hist)]
<1>1. Shape(w) /\ Only(w, x, {"session", "tickets"})
  BY DEF Inv, WorldOK, IsWorld
<1> HIDE DEF x, w
<1> DEFINE y == [w EXCEPT !.session = NoSession, !.tickets = << >>]
           z == [x EXCEPT !.session = NoSession, !.tickets = << >>]
<1>2. /\ y = [f \in Fields |-> y[f]] /\ z = [f \in Fields |-> z[f]]
      /\ y.session = NoSession /\ z.session = NoSession
      /\ y.tickets = << >> /\ z.tickets = << >>
      /\ \A f \in Fields \ {"session", "tickets"} : y[f] = w[f] /\ z[f] = x[f]
  BY <1>1, FieldNames, Zenon DEF Shape, Only
<1>3. y = z
  <2> HIDE DEF y, z
  <2>1. \A f \in Fields \ {"session", "tickets"} : y[f] = z[f]
    BY <1>1, <1>2 DEF Only
  <2>2. \A f \in Fields : y[f] = z[f]
    BY <1>2, <2>1
  <2>3. QED BY <1>2, <2>2
<1>4. QED BY <1>3 DEF ShownMoneyIsCurrent, w, x

LEMMA InvCreditKept == Inv => CreditKept
<1> SUFFICES ASSUME Inv, NEW w \in Worlds,
                    w.session.open, w.price = w.session.servedPrice
             PROVE  w.session.bytes = 0 \/ sessionCredit(w) >= 0
  BY DEF CreditKept
<1> DEFINE s == w.session
           cost == s.bytes * w.price
<1>1. WorldOK(w)
  BY WorldsOK
<1>2. s \in Session /\ w.price \in Nat
  BY <1>1, SessionType
<1>3. s.bytes = 0 \/ s.unsettledAtStart + cost <= s.limit
  BY <1>1 DEF WorldOK, SessionOK
<1>4. /\ cost \in Int /\ s.limit \in Int /\ s.unsettledAtStart \in Int
      /\ sessionCredit(w) = s.limit - (s.unsettledAtStart + cost)
  <2>1. s.bytes \in Nat /\ s.limit \in Nat /\ s.unsettledAtStart \in Nat
    BY <1>2 DEF Session
  <2>2. sessionCredit(w) = s.limit - (s.unsettledAtStart + cost)
    BY DEF sessionCredit
  <2> HIDE DEF s
  <2>3. cost \in Int
    BY <1>2, <2>1
  <2>4. QED BY <2>1, <2>2, <2>3
<1> HIDE DEF cost, s
<1>5. s.bytes = 0 \/ sessionCredit(w) >= 0
  BY <1>3, <1>4
<1>6. QED BY <1>5 DEF s

LEMMA InvReceiptsKeepUp == Inv => ReceiptsKeepUp
BY WorldsOK DEF ReceiptsKeepUp, WorldOK, SessionOK

(***************************************************************************)
(* engine.js, the invariants the page shows after every call: in every     *)
(* world that is kept, undone to or played to, the escrow holds deposits   *)
(* and earnings, the balances add up to the supply, the shillings of       *)
(* phones and float are those there were at first, and nobody but the      *)
(* thief of a drill is overdrawn.                                          *)
(***************************************************************************)
THEOREM BooksAlwaysBalance == Spec => []BooksBalance
BY InvHolds, InvBooksBalance, PTL

(***************************************************************************)
(* Playground.jsx, the handlers that read the world last rendered while an *)
(* interval replaces the newest one: whatever was served in between, the   *)
(* money a click acts on is that of the newest world.                      *)
(***************************************************************************)
THEOREM ClicksActOnCurrentMoney == Spec => []ShownMoneyIsCurrent
BY InvHolds, InvShownMoneyIsCurrent, PTL

(***************************************************************************)
(* flows.js, openSession and serve: at the price it last served at, no     *)
(* session has been served beyond its credit, with what the channel owed   *)
(* before it, however the price and the settlements went meanwhile.        *)
(***************************************************************************)
THEOREM CreditIsKept == Spec => []CreditKept
BY InvHolds, InvCreditKept, PTL

(***************************************************************************)
(* flows.js, serve: the node has receipts for all but less than one        *)
(* receipt's worth of what it served, and at the end for all of it, unless *)
(* the phone could not sign.                                               *)
(***************************************************************************)
THEOREM ReceiptsAlwaysKeepUp == Spec => []ReceiptsKeepUp
BY InvHolds, InvReceiptsKeepUp, PTL

(***************************************************************************)
(* flows.js, buy, cashOut and retryPayout, through every button, drill and *)
(* play-all: a step that goes through keeps the supply and the float as    *)
(* far apart as they were, the two drills with an unchecked top-up         *)
(* excepted, and so does a cash-out whose payout failed; after any of them *)
(* KES are lost only where a burn failed after its payout.                 *)
(***************************************************************************)
THEOREM StepsKeepThePeg == Spec => PegKept
<1> DEFINE Claim ==
      hist' # hist /\ last' \notin {"manual", "back"} =>
          LET gap == GapOf(hist'[Len(hist')])
          IN /\ last' \in {"done", "b2cPayout"} => gap = GapOf(shown)
             /\ gap < GapOf(shown) => last' = "bridgeBurn"
<1>1. Inv /\ [Next]_vars => Claim
  BY NextSafe DEF StepOK, StepClaims, PegClaim
<1>2. Inv /\ [Next]_vars => [Claim]_pgVars
  BY <1>1
<1> HIDE DEF Claim
<1>3. Spec => [][Claim]_pgVars
  BY <1>2, InvHolds, PTL DEF Spec
<1>4. QED BY <1>3 DEF Claim, PegKept

(***************************************************************************)
(* engine.js, the devices of the clients: whoever calls, whatever drill is *)
(* run, a client without its phone loses nothing but what it signed for    *)
(* before, what it allowed others to take, and its own gas.                *)
(***************************************************************************)
THEOREM NoPhoneNoSpending == Spec => LostPhoneSpendsNothing
<1> DEFINE Claim ==
      \A c \in Clients :
          /\ ~shown.devices[c] /\ hist' # hist
          /\ last' # "back"
          /\ hist'[Len(hist')].channels[c] = shown.channels[c]
          /\ hist'[Len(hist')].eth[c] = shown.eth[c]
          /\ hist'[Len(hist')].allow[c] = shown.allow[c]
          => Holdings(hist'[Len(hist')], c) >= Holdings(shown, c)
<1>1. Inv /\ [Next]_vars => Claim
  BY NextSafe DEF StepOK, StepClaims, ChargesOnly
<1>2. Inv /\ [Next]_vars => [Claim]_pgVars
  BY <1>1
<1> HIDE DEF Claim
<1>3. Spec => [][Claim]_pgVars
  BY <1>2, InvHolds, PTL DEF Spec
<1>4. QED BY <1>3 DEF Claim, LostPhoneSpendsNothing
=============================================================================
