---------------------------- MODULE OnrampProofs ----------------------------
(***************************************************************************)
(* The on-ramp, through crashes, lost answers, reverted mints and repeated *)
(* callbacks: a voucher follows a mint; and, as long as no two purchases   *)
(* share the key of their order, every payment is minted for at most once, *)
(* to the client who paid it, and nothing is minted unpaid.                *)
(***************************************************************************)
EXTENDS Onramp, AccountingProofs, SequenceTheorems

\* The condition the code does not establish for Jenga: its key is made of the
\* client's address and the amount, so two equal purchases of one client share it.
DistinctKeys == \A p, q \in Purchases : KeyOf(p) = KeyOf(q) => p = q

Mint == [ref : Purchases, to : Clients, ok : BOOLEAN]
Voucher == [ref : Purchases, to : Clients]

OnrampTypeOK ==
    /\ request \in [Purchases -> {"none", "pushed", "recorded", "failed"}]
    /\ payment \in [Purchases -> {"none", "asked", "paid", "declined"}]
    /\ mail \subseteq Mail
    /\ orders \in [Keys -> Purchases \cup {NoOrder}]
    /\ \/ api = Idle
       \/ api \in [pc : {"minting", "minted"}, ref : Purchases, order : Purchases]
    /\ mints \in Seq(Mint)
    /\ vouchers \subseteq Voucher
    /\ faults \in Nat

\* An order lies under its own key, and its request is over.
OrdersOK == \A k \in Keys : orders[k] # NoOrder =>
                KeyOf(orders[k]) = k /\ request[orders[k]] = "recorded"

\* The handler holds an order of the same key as the callback it handles, and
\* goes on to the voucher only behind a mint.
HandlerOK ==
    api.pc # "idle" =>
        /\ KeyOf(api.ref) = KeyOf(api.order) /\ request[api.order] = "recorded"
        /\ api.pc = "minted" => \E i \in DOMAIN mints :
                                  mints[i].ref = api.ref /\ mints[i].to = Buyer[api.order]

\* What is confirmed was paid, and only what is confirmed is minted for.
PaidOK ==
    /\ \A p \in Purchases : request[p] = "none" => payment[p] = "none"
    /\ \A m \in mail : m.paid => payment[m.ref] = "paid"
    /\ api.pc # "idle" => payment[api.ref] = "paid"
    /\ \A i \in DOMAIN mints : payment[mints[i].ref] = "paid"

\* Mints go to the buyer of the purchase the callback is for.
ToBuyer == \A i \in DOMAIN mints : mints[i].to = Buyer[mints[i].ref]

OnrampInv == OnrampTypeOK /\ OrdersOK /\ HandlerOK /\ PaidOK /\ ToBuyer /\ VoucherFollowsMint

\* A purchase has left the book once it is minted for or its mint is under way.
Spent(p) == request[p] = "recorded" /\ orders[KeyOf(p)] = NoOrder

OnceInv ==
    /\ \A i \in DOMAIN mints : Spent(mints[i].ref)
    /\ \A i, j \in DOMAIN mints : mints[i].ref = mints[j].ref => i = j
    /\ api.pc # "idle" => Spent(api.ref)
    /\ api.pc = "minting" => \A i \in DOMAIN mints : mints[i].ref # api.ref

-----------------------------------------------------------------------------
\* Purchases of one key are purchases of one client.
LEMMA KeyGivesBuyer ==
  ASSUME NEW p \in Purchases, NEW q \in Purchases, KeyOf(p) = KeyOf(q)
  PROVE  Buyer[p] = Buyer[q]
<1> USE OnrampConstants
<1>1. CASE Rail[p] = "daraja" /\ Rail[q] = "daraja"
  BY <1>1 DEF KeyOf
<1>2. CASE Rail[p] = "daraja" /\ Rail[q] # "daraja"
  BY <1>2 DEF KeyOf
<1>3. CASE Rail[p] # "daraja" /\ Rail[q] = "daraja"
  BY <1>3 DEF KeyOf
<1>4. CASE Rail[p] # "daraja" /\ Rail[q] # "daraja"
  BY <1>4 DEF KeyOf
<1>5. QED BY <1>1, <1>2, <1>3, <1>4

LEMMA KeysHaveOrders == \A p \in Purchases : KeyOf(p) \in Keys
BY DEF Keys

\* What one more mint adds to the list.
LEMMA OneMore ==
  ASSUME mints \in Seq(Mint), NEW m \in Mint, mints' = Append(mints, m)
  PROVE  /\ mints' \in Seq(Mint)
         /\ \A i \in DOMAIN mints' :
              \/ i \in DOMAIN mints /\ mints'[i] = mints[i]
              \/ i = Len(mints) + 1 /\ mints'[i] = m
         /\ \A i \in DOMAIN mints : i \in DOMAIN mints' /\ mints'[i] = mints[i]
         /\ Len(mints) + 1 \in DOMAIN mints' /\ mints'[Len(mints) + 1] = m
<1>1. mints' \in Seq(Mint) /\ Len(mints') = Len(mints) + 1 /\ Len(mints) \in Nat
  BY AppendProperties, LenProperties
<1>2. DOMAIN mints = 1 .. Len(mints) /\ DOMAIN mints' = 1 .. (Len(mints) + 1)
  BY <1>1, LenProperties
<1>3. /\ \A i \in 1 .. Len(mints) : mints'[i] = mints[i]
      /\ mints'[Len(mints) + 1] = m
  BY AppendProperties
<1>4. QED BY <1>1, <1>2, <1>3

LEMMA OnrampInit == Init => OnrampInv /\ OnceInv
<1> SUFFICES ASSUME Init PROVE OnrampInv /\ OnceInv
  OBVIOUS
<1>1. DOMAIN mints = {} /\ mints \in Seq(Mint)
  BY DEF Init
<1>2. OnrampTypeOK
  BY <1>1 DEF Init, OnrampTypeOK, Mail, Voucher
<1>3. QED
  BY <1>1, <1>2 DEF Init, OnrampInv, OnceInv, OrdersOK, HandlerOK, PaidOK, ToBuyer,
                    VoucherFollowsMint, Idle

\* The handler's busy record, taken apart.
LEMMA Busy ==
  ASSUME OnrampTypeOK, api.pc # "idle"
  PROVE  /\ api \in [pc : {"minting", "minted"}, ref : Purchases, order : Purchases]
         /\ api.ref \in Purchases /\ api.order \in Purchases
BY DEF OnrampTypeOK, Idle

LEMMA MintsTyped ==
  ASSUME OnrampTypeOK
  PROVE  \A i \in DOMAIN mints : mints[i] \in Mint /\ mints[i].ref \in Purchases
<1>1. mints \in Seq(Mint)
  BY DEF OnrampTypeOK
<1>2. DOMAIN mints = 1 .. Len(mints)
  BY <1>1, LenProperties
<1>3. \A i \in 1 .. Len(mints) : mints[i] \in Mint
  BY <1>1, ElementOfSeq
<1>4. QED BY <1>2, <1>3 DEF Mint

\* Steps that mint nothing, issue nothing, and leave the handler or end it.
LEMMA QuietStep ==
  ASSUME OnrampInv, OnrampTypeOK', mints' = mints, vouchers' = vouchers,
         api' = api \/ api' = Idle,
         \A p \in Purchases : request[p] = "recorded" => request'[p] = "recorded",
         \A p \in Purchases : payment[p] = "paid" => payment'[p] = "paid",
         \A p \in Purchases : request'[p] = "none" => payment'[p] = "none",
         \A m \in mail' : m.paid => payment'[m.ref] = "paid",
         OrdersOK'
  PROVE  OnrampInv'
<1> USE DEF OnrampInv
<1>1. CASE api' = api
  <2>1. HandlerOK'
    BY <1>1, Busy DEF HandlerOK
  <2>2. PaidOK'
    BY <1>1, Busy, MintsTyped DEF PaidOK
  <2>3. QED BY <2>1, <2>2 DEF ToBuyer, VoucherFollowsMint
<1>2. CASE api' = Idle
  BY <1>2, MintsTyped DEF HandlerOK, PaidOK, Idle, ToBuyer, VoucherFollowsMint
<1>3. QED BY <1>1, <1>2

LEMMA QuietOnce ==
  ASSUME OnrampTypeOK, OnceInv, mints' = mints, api' = api \/ api' = Idle,
         \A p \in Purchases : Spent(p) => Spent(p)'
  PROVE  OnceInv'
<1>1. CASE api' = api
  BY <1>1, Busy, MintsTyped DEF OnceInv
<1>2. CASE api' = Idle
  BY <1>2, MintsTyped DEF OnceInv, Idle
<1>3. QED BY <1>1, <1>2

\* The request and the provider.
LEMMA PurchaseStep ==
  ASSUME OnrampInv, NEW p \in Purchases, BuyGas(p) \/ Provider(p)
  PROVE  OnrampInv' /\ (OnceInv /\ DistinctKeys => OnceInv')
<1> USE DEF OnrampInv, OnrampTypeOK
<1>0. OrdersOK /\ PaidOK
  OBVIOUS
<1>1. CASE PushAccepted(p)
  <2>1. OnrampTypeOK'
    BY <1>1 DEF PushAccepted
  <2>2. payment[p] = "none" /\ OrdersOK'
    BY <1>1 DEF PushAccepted, OrdersOK, PaidOK
  <2>3. \A m \in mail' : m.paid => payment'[m.ref] = "paid"
    BY <1>1, <2>2 DEF PushAccepted, PaidOK, Mail
  <2>4. /\ \A q \in Purchases : request'[q] = "none" => payment'[q] = "none"
        /\ \A q \in Purchases : payment[q] = "paid" => payment'[q] = "paid"
        /\ \A q \in Purchases : request[q] = "recorded" => request'[q] = "recorded"
    BY <1>1, <2>2 DEF PushAccepted, PaidOK
  <2>5. OnrampInv'
    BY <1>1, <2>1, <2>2, <2>3, <2>4, QuietStep DEF PushAccepted
  <2>6. QED BY <1>1, <2>4, <2>5, QuietOnce DEF PushAccepted, Spent
<1>2. CASE PushRejected(p)
  <2>1. OnrampTypeOK' /\ OrdersOK'
    BY <1>2 DEF PushRejected, OrdersOK
  <2>2. \A m \in mail' : m.paid => payment'[m.ref] = "paid"
    BY <1>2 DEF PushRejected, PaidOK, Mail
  <2>3. /\ \A q \in Purchases : request'[q] = "none" => payment'[q] = "none"
        /\ \A q \in Purchases : request[q] = "recorded" => request'[q] = "recorded"
    BY <1>2 DEF PushRejected, PaidOK
  <2>4. OnrampInv'
    BY <1>2, <2>1, <2>2, <2>3, QuietStep DEF PushRejected
  <2>5. QED BY <1>2, <2>3, <2>4, QuietOnce DEF PushRejected, Spent
<1>3. CASE RecordOrder(p)
  <2>0. KeyOf(p) \in Keys
    BY KeysHaveOrders
  <2>1. OnrampTypeOK' /\ OrdersOK'
    BY <1>3, <2>0 DEF RecordOrder, OrdersOK
  <2>2. \A m \in mail' : m.paid => payment'[m.ref] = "paid"
    BY <1>3 DEF RecordOrder, PaidOK, Mail
  <2>3. /\ \A q \in Purchases : request'[q] = "none" => payment'[q] = "none"
        /\ \A q \in Purchases : request[q] = "recorded" => request'[q] = "recorded"
    BY <1>3 DEF RecordOrder, PaidOK
  <2>4. OnrampInv'
    BY <1>3, <2>1, <2>2, <2>3, QuietStep DEF RecordOrder
  <2>5. ASSUME DistinctKeys, NEW q \in Purchases, Spent(q) PROVE Spent(q)'
    <3>1. q # p /\ KeyOf(q) # KeyOf(p)
      BY <1>3, <2>5 DEF RecordOrder, Spent, DistinctKeys
    <3>2. KeyOf(q) \in Keys
      BY KeysHaveOrders
    <3>3. QED BY <1>3, <2>0, <2>5, <3>1, <3>2 DEF RecordOrder, Spent
  <2>6. QED BY <1>3, <2>4, <2>5, QuietOnce DEF RecordOrder
<1>4. ASSUME NEW to \in {"paid", "declined"}, Decide(p, to)
      PROVE  OnrampInv' /\ (OnceInv /\ DistinctKeys => OnceInv')
  <2> DEFINE new == [ref |-> p, paid |-> to = "paid"]
  <2>1. /\ payment' = [payment EXCEPT ![p] = to] /\ payment[p] = "asked"
        /\ mail' = mail \cup {new}
        /\ request' = request /\ orders' = orders /\ api' = api /\ mints' = mints
        /\ vouchers' = vouchers /\ faults' = faults
    BY <1>4 DEF Decide
  <2>2. (to = "paid") \in BOOLEAN
    OBVIOUS
  <2>3. new \in Mail /\ new.ref = p /\ (new.paid <=> to = "paid")
    BY <2>2, Zenon DEF Mail
  <2> HIDE DEF new
  <2>4. mail' \subseteq Mail /\ payment' \in [Purchases -> {"none", "asked", "paid", "declined"}]
    BY <2>1, <2>3
  <2>5. OnrampTypeOK' /\ OrdersOK'
    BY <2>1, <2>4 DEF OrdersOK
  <2>6. /\ \A q \in Purchases : request'[q] = "none" => payment'[q] = "none"
        /\ \A q \in Purchases : payment[q] = "paid" => payment'[q] = "paid"
    BY <2>1 DEF PaidOK
  <2>7. \A m \in mail' : m.paid => payment'[m.ref] = "paid"
    <3>1. ASSUME NEW m \in mail, m.paid PROVE payment'[m.ref] = "paid"
      <4>1. m.ref \in Purchases /\ payment[m.ref] = "paid"
        BY <3>1 DEF PaidOK, Mail
      <4>2. QED BY <2>6, <4>1
    <3>2. new.paid => payment'[new.ref] = "paid"
      BY <2>1, <2>3
    <3>3. QED BY <2>1, <3>1, <3>2
  <2>8. OnrampInv'
    BY <2>1, <2>5, <2>6, <2>7, QuietStep
  <2>9. QED BY <2>1, <2>8, QuietOnce DEF Spent
<1>5. QED BY <1>1, <1>2, <1>3, <1>4 DEF BuyGas, Provider

\* The callback: it drops an order, finds none, or takes one out of the book.
LEMMA CallbackStep ==
  ASSUME OnrampInv, NEW m \in mail, Callback(m)
  PROVE  OnrampInv' /\ (OnceInv /\ DistinctKeys => OnceInv')
<1> USE DEF OnrampInv, OnrampTypeOK
<1>0. /\ m.ref \in Purchases /\ KeyOf(m.ref) \in Keys /\ NoOrder \notin Purchases
      /\ PaidOK /\ OrdersOK
  BY KeysHaveOrders, OnrampConstants DEF Mail
<1>1. mail' \subseteq mail
  BY DEF Callback, DropOrder, UnknownOrder, TakeOrder, Received
<1>2. ASSUME payment' = payment
      PROVE  \A n \in mail' : n.paid => payment'[n.ref] = "paid"
  BY <1>1, <1>2 DEF PaidOK
<1>3. ASSUME orders' = [orders EXCEPT ![KeyOf(m.ref)] = NoOrder], request' = request
      PROVE  OrdersOK' /\ \A q \in Purchases : Spent(q) => Spent(q)'
  BY <1>0, <1>3, KeysHaveOrders DEF OrdersOK, Spent
<1>4. CASE DropOrder(m)
  <2>1. /\ orders' = [orders EXCEPT ![KeyOf(m.ref)] = NoOrder]
        /\ request' = request /\ payment' = payment /\ api' = api /\ mints' = mints
        /\ vouchers' = vouchers /\ faults' = faults
    BY <1>4 DEF DropOrder
  <2>2. OnrampTypeOK'
    BY <1>0, <1>1, <2>1
  <2>3. OnrampInv'
    BY <1>2, <1>3, <2>1, <2>2, QuietStep DEF PaidOK
  <2>4. QED BY <1>3, <2>1, <2>3, QuietOnce
<1>5. CASE UnknownOrder(m)
  <2>1. /\ orders' = orders
        /\ request' = request /\ payment' = payment /\ api' = api /\ mints' = mints
        /\ vouchers' = vouchers /\ faults' = faults
    BY <1>5 DEF UnknownOrder
  <2>2. OnrampTypeOK' /\ OrdersOK'
    BY <1>1, <2>1 DEF OrdersOK
  <2>3. OnrampInv'
    BY <1>2, <2>1, <2>2, QuietStep DEF PaidOK
  <2>4. QED BY <2>1, <2>3, QuietOnce DEF Spent
<1>6. CASE TakeOrder(m)
  <2> DEFINE o == orders[KeyOf(m.ref)]
             busy == [pc |-> "minting", ref |-> m.ref, order |-> o]
  <2>1. /\ m.paid /\ o # NoOrder /\ api' = busy
        /\ orders' = [orders EXCEPT ![KeyOf(m.ref)] = NoOrder]
        /\ request' = request /\ payment' = payment /\ mints' = mints
        /\ vouchers' = vouchers /\ faults' = faults
    BY <1>6 DEF TakeOrder, Confirmed
  <2>2. o \in Purchases /\ KeyOf(o) = KeyOf(m.ref) /\ request[o] = "recorded"
    BY <1>0, <2>1 DEF OrdersOK
  <2>3. /\ api' \in [pc : {"minting", "minted"}, ref : Purchases, order : Purchases]
        /\ api'.pc = "minting" /\ api'.ref = m.ref /\ api'.order = o
    BY <1>0, <2>1, <2>2
  <2>4. OnrampTypeOK'
    BY <1>0, <1>1, <2>1, <2>3
  <2>5. OrdersOK'
    BY <1>3, <2>1
  <2>6. HandlerOK'
    BY <2>1, <2>2, <2>3 DEF HandlerOK
  <2>7. PaidOK'
    BY <1>0, <1>2, <2>1, <2>3 DEF PaidOK
  <2>8. ToBuyer' /\ VoucherFollowsMint'
    BY <2>1 DEF ToBuyer, VoucherFollowsMint
  <2>9. ASSUME OnceInv, DistinctKeys PROVE OnceInv'
    <3>1. o = m.ref
      BY <1>0, <2>2, <2>9 DEF DistinctKeys
    <3>2. Spent(m.ref)' /\ ~Spent(m.ref)
      BY <1>0, <2>1, <2>2, <3>1 DEF Spent
    <3>3. \A i \in DOMAIN mints : mints[i].ref # m.ref
      BY <2>9, <3>2 DEF OnceInv
    <3>4. \A i \in DOMAIN mints : Spent(mints[i].ref)'
      BY <1>3, <2>1, <2>9, MintsTyped DEF OnceInv
    <3>5. QED BY <2>1, <2>3, <2>9, <3>2, <3>3, <3>4 DEF OnceInv
  <2>10. QED BY <2>4, <2>5, <2>6, <2>7, <2>8, <2>9
<1>7. QED BY <1>4, <1>5, <1>6 DEF Callback

\* The mint is mined, whether it succeeds or reverts.
LEMMA MinedStep ==
  ASSUME OnrampInv, api.pc = "minting", NEW ok \in BOOLEAN,
         mints' = Append(mints, MintOf(api, ok)), api' = [api EXCEPT !.pc = "minted"],
         UNCHANGED <<request, payment, mail, orders, vouchers>>, faults' \in Nat
  PROVE  OnrampInv' /\ (OnceInv /\ DistinctKeys => OnceInv')
<1> DEFINE m == MintOf(api, ok)
<1> USE DEF OnrampInv
<1>1. /\ api \in [pc : {"minting", "minted"}, ref : Purchases, order : Purchases]
      /\ api.ref \in Purchases /\ api.order \in Purchases
      /\ KeyOf(api.ref) = KeyOf(api.order) /\ request[api.order] = "recorded"
      /\ payment[api.ref] = "paid"
  BY Busy DEF HandlerOK, PaidOK
<1>2. /\ m.ref = api.ref /\ m.to = Buyer[api.order] /\ m.to = Buyer[api.ref]
      /\ m \in Mint
  BY <1>1, KeyGivesBuyer DEF MintOf, Mint, Clients
<1> HIDE DEF m
<1>3. /\ mints' \in Seq(Mint)
      /\ \A i \in DOMAIN mints' :
           \/ i \in DOMAIN mints /\ mints'[i] = mints[i]
           \/ i = Len(mints) + 1 /\ mints'[i] = m
      /\ \A i \in DOMAIN mints : i \in DOMAIN mints' /\ mints'[i] = mints[i]
      /\ Len(mints) + 1 \in DOMAIN mints' /\ mints'[Len(mints) + 1] = m
  BY <1>2, OneMore DEF OnrampTypeOK, m
<1>4. /\ api' \in [pc : {"minting", "minted"}, ref : Purchases, order : Purchases]
      /\ api'.pc = "minted" /\ api'.ref = api.ref /\ api'.order = api.order
  BY <1>1
<1>5. OnrampTypeOK'
  BY <1>3, <1>4 DEF OnrampTypeOK
<1>6. OrdersOK'
  BY DEF OrdersOK
<1>7. HandlerOK'
  BY <1>1, <1>2, <1>3, <1>4 DEF HandlerOK
<1>8. PaidOK'
  BY <1>1, <1>2, <1>3, <1>4 DEF PaidOK
<1>9. ToBuyer'
  BY <1>2, <1>3 DEF ToBuyer
<1>10. VoucherFollowsMint'
  BY <1>3 DEF VoucherFollowsMint
<1>11. ASSUME OnceInv PROVE OnceInv'
  <2>1. Spent(api.ref) /\ \A i \in DOMAIN mints : mints[i].ref # api.ref
    BY <1>11 DEF OnceInv
  <2>2. \A q : Spent(q)' <=> Spent(q)
    BY DEF Spent
  <2>3. QED BY <1>2, <1>3, <1>4, <1>11, <2>1, <2>2 DEF OnceInv
<1>12. QED BY <1>5, <1>6, <1>7, <1>8, <1>9, <1>10, <1>11

\* The voucher of a mint that is there.
LEMMA VoucherStep ==
  ASSUME OnrampInv, IssueVoucher
  PROVE  OnrampInv' /\ (OnceInv => OnceInv')
<1> DEFINE v == [ref |-> api.ref, to |-> Buyer[api.order]]
<1> USE DEF OnrampInv
<1>1. /\ api.pc = "minted" /\ vouchers' = vouchers \cup {v} /\ api' = Idle
      /\ request' = request /\ payment' = payment /\ mail' = mail /\ orders' = orders
      /\ mints' = mints /\ faults' = faults
  BY DEF IssueVoucher
<1>2. api.ref \in Purchases /\ api.order \in Purchases
  BY <1>1, Busy
<1>3. v \in Voucher
  BY <1>2 DEF Voucher, Clients
<1>4. OnrampTypeOK'
  BY <1>1, <1>3 DEF OnrampTypeOK
<1>5. \E i \in DOMAIN mints : mints[i].ref = v.ref /\ mints[i].to = v.to
  BY <1>1 DEF HandlerOK
<1> HIDE DEF v
<1>6. VoucherFollowsMint'
  BY <1>1, <1>5 DEF VoucherFollowsMint
<1>7. OrdersOK' /\ HandlerOK' /\ PaidOK' /\ ToBuyer'
  BY <1>1 DEF OrdersOK, HandlerOK, PaidOK, ToBuyer, Idle
<1>8. OnceInv => OnceInv'
  BY <1>1, <1>4, QuietOnce DEF Spent
<1>9. QED BY <1>4, <1>6, <1>7, <1>8

\* Faults lose orders, answers, mints and vouchers, and gain none.
LEMMA FaultStep ==
  ASSUME OnrampInv, Fault
  PROVE  OnrampInv' /\ (OnceInv /\ DistinctKeys => OnceInv')
<1> USE DEF OnrampInv
<1>0. OnrampTypeOK /\ faults + 1 \in Nat
  BY DEF OnrampTypeOK
<1>1. CASE MintReverts
  BY <1>0, <1>1, MinedStep DEF MintReverts
<1>2. CASE MintRaises \/ ReceiptTimesOut
  <2>1. /\ api' = Idle /\ faults' = faults + 1
        /\ UNCHANGED <<request, payment, mail, orders, mints, vouchers>>
    BY <1>2 DEF MintRaises, ReceiptTimesOut
  <2>2. OnrampTypeOK' /\ OrdersOK'
    BY <1>0, <2>1 DEF OnrampTypeOK, OrdersOK
  <2>3. OnrampInv'
    BY <2>1, <2>2, QuietStep DEF PaidOK
  <2>4. QED BY <2>1, <2>3, QuietOnce DEF Spent
<1>3. ASSUME NEW p \in Purchases, AnswerLost(p)
      PROVE  OnrampInv' /\ (OnceInv => OnceInv')
  <2>1. /\ request[p] = "pushed" /\ request' = [request EXCEPT ![p] = "failed"]
        /\ faults' = faults + 1
        /\ UNCHANGED <<payment, mail, orders, api, mints, vouchers>>
    BY <1>3 DEF AnswerLost
  <2>2. request \in [Purchases -> {"none", "pushed", "recorded", "failed"}]
    BY DEF OnrampTypeOK
  <2>3. OnrampTypeOK' /\ OrdersOK'
    BY <1>0, <2>1 DEF OnrampTypeOK, OrdersOK
  <2>4. /\ \A q \in Purchases : request[q] = "recorded" => request'[q] = "recorded"
        /\ \A q \in Purchases : request'[q] = "none" => payment'[q] = "none"
    BY <2>1, <2>2 DEF PaidOK
  <2>5. OnrampInv'
    BY <2>1, <2>3, <2>4, QuietStep DEF PaidOK
  <2>6. QED BY <2>1, <2>4, <2>5, QuietOnce DEF Spent
<1>4. CASE Restart
  <2>1. /\ request' = [p \in Purchases |->
                         IF request[p] = "pushed" THEN "failed" ELSE request[p]]
        /\ orders' = [k \in Keys |-> NoOrder] /\ api' = Idle /\ faults' = faults + 1
        /\ UNCHANGED <<payment, mail, mints, vouchers>>
    BY <1>4 DEF Restart
  <2>2. OnrampTypeOK' /\ OrdersOK'
    BY <1>0, <2>1 DEF OnrampTypeOK, OrdersOK
  <2>3. /\ \A q \in Purchases : request[q] = "recorded" => request'[q] = "recorded"
        /\ \A q \in Purchases : request'[q] = "none" => payment'[q] = "none"
    BY <2>1 DEF PaidOK
  <2>4. OnrampInv'
    BY <2>1, <2>2, <2>3, QuietStep DEF PaidOK
  <2>5. \A q \in Purchases : Spent(q) => Spent(q)'
    BY <2>1, <2>3, KeysHaveOrders DEF Spent
  <2>6. QED BY <2>1, <2>4, <2>5, QuietOnce
<1>5. QED BY <1>1, <1>2, <1>3, <1>4 DEF Fault

LEMMA OnrampStep ==
  ASSUME OnrampInv, [Next]_vars
  PROVE  OnrampInv' /\ (OnceInv /\ DistinctKeys => OnceInv')
<1>1. CASE MintForFiat
  <2>1. faults' \in Nat
    BY <1>1 DEF MintForFiat, OnrampInv, OnrampTypeOK
  <2>2. QED BY <1>1, <2>1, MinedStep DEF MintForFiat
<1>2. CASE IssueVoucher
  BY <1>2, VoucherStep
<1>3. CASE UNCHANGED vars
  <2>1. OnrampTypeOK' /\ OrdersOK'
    BY <1>3 DEF vars, OnrampInv, OnrampTypeOK, OrdersOK
  <2>2. OnrampInv'
    BY <1>3, <2>1, QuietStep DEF vars, OnrampInv, PaidOK
  <2>3. QED BY <1>3, <2>2, QuietOnce DEF vars, OnrampInv, Spent
<1>4. QED
  BY <1>1, <1>2, <1>3, PurchaseStep, CallbackStep, FaultStep DEF Next, Fulfil

-----------------------------------------------------------------------------
\* A voucher is issued only behind a mint for the same payment and client,
\* wherever the process dies and whatever raises; keys may be shared.
THEOREM VoucherBehindMint == Spec => []VoucherFollowsMint
<1>1. OnrampInv => VoucherFollowsMint
  BY DEF OnrampInv
<1>2. QED BY <1>1, OnrampInit, OnrampStep, PTL DEF Spec

\* With keys of their own, no payment is minted for twice, however often its
\* callback is repeated, and every mint goes to the client who paid.
THEOREM MintedOncePerPayment ==
  ASSUME DistinctKeys
  PROVE  Spec => []MintedOnce
<1>1. OnrampInv /\ OnceInv => MintedOnce
  BY DEF OnrampInv, OnceInv, MintedOnce, ToBuyer
<1>2. OnrampInv /\ OnceInv /\ [Next]_vars => OnrampInv' /\ OnceInv'
  BY OnrampStep
<1>3. QED BY <1>1, <1>2, OnrampInit, PTL DEF Spec

\* Every mint that succeeded has a paid purchase of its own, of the same amount.
LEMMA BackedByPayments ==
  ASSUME OnrampInv, OnceInv, NEW c \in Clients
  PROVE  MintedTo(c) <= PaidBy(c)
<1> DEFINE P == {p \in Purchases : Buyer[p] = c /\ payment[p] = "paid"}
           I == {i \in DOMAIN mints : mints[i].ok /\ mints[i].to = c}
           f == [p \in P |-> Kes[p]]
           g == [i \in I |-> Kes[mints[i].ref]]
           h == [i \in I |-> mints[i].ref]
<1>1. IsFiniteSet(P)
  BY OnrampConstants, FS_Subset
<1>2. \A i \in I : mints[i].ref \in P
  BY MintsTyped DEF OnrampInv, PaidOK, ToBuyer
<1>3. \A p \in Purchases : Kes[p] \in Nat
  BY OnrampConstants
<1>4. f \in [P -> Nat] /\ g \in [I -> Nat] /\ h \in [I -> P]
  BY <1>2, <1>3
<1>5. \A i, j \in I : h[i] = h[j] => i = j
  BY DEF OnceInv
<1>6. \A i \in I : g[i] <= f[h[i]]
  BY <1>2, <1>3
<1> HIDE DEF P, I, f, g, h
<1>7. Total(g) <= Total(f)
  BY <1>1, <1>4, <1>5, <1>6, TotalCovered
<1>8. QED BY <1>7 DEF MintedTo, PaidBy, P, I, f, g

\* With keys of their own, no client is minted more than it paid.
THEOREM MintsBacked ==
  ASSUME DistinctKeys
  PROVE  Spec => []MintsAreBacked
<1>1. OnrampInv /\ OnceInv => MintsAreBacked
  BY BackedByPayments DEF MintsAreBacked
<1>2. OnrampInv /\ OnceInv /\ [Next]_vars => OnrampInv' /\ OnceInv'
  BY OnrampStep
<1>3. QED BY <1>1, <1>2, OnrampInit, PTL DEF Spec
=============================================================================
