------------------------------- MODULE Onramp -------------------------------
(***************************************************************************)
(* gateway-api/app/main.py: KES in, XKN and a voucher out.  One process    *)
(* serves the buyer's request and the provider's callback.  Its handlers   *)
(* interleave only where they await: a request awaits the answer of the    *)
(* provider (Daraja or Jenga); a callback is handled without an await, but *)
(* the process may die, or a call may raise, between any two of its steps. *)
(* Orders are kept in memory, under a key the provider's callback repeats. *)
(***************************************************************************)
EXTENDS Accounting, Sequences

CONSTANTS
    Purchases,      \* requests to /buy-gas
    Buyer,          \* the client address each of them names
    Prefix,         \* the first eight digits of an address: taken to tell them apart
    Kes,            \* the amount each of them is for
    Rail,           \* "daraja" or "jenga"
    NoOrder,
    Overtaking,     \* purchases whose callback may come before the answer is handled
    Redelivers,     \* providers repeat callbacks
    MaxFaults,      \* bound: crashes, lost answers, calls that raise
    MaxMints        \* bound: mint transactions

ASSUME OnrampConstants ==
    /\ IsFiniteSet(Purchases) /\ DOMAIN Buyer = Purchases
    /\ \A p, q \in Purchases : Prefix[Buyer[p]] = Prefix[Buyer[q]] => Buyer[p] = Buyer[q]
    /\ \A p \in Purchases : Prefix[Buyer[p]] # "checkout"   \* the rails' keys differ
    /\ Kes \in [Purchases -> Nat \ {0}]
    /\ Rail \in [Purchases -> {"daraja", "jenga"}]
    /\ NoOrder \notin Purchases
    /\ Overtaking \subseteq Purchases
    /\ Redelivers \in BOOLEAN
    /\ MaxFaults \in Nat /\ MaxMints \in Nat

VARIABLES
    request,    \* where the request of each purchase is
    payment,    \* what the provider knows of it
    mail,       \* callbacks the provider has to deliver
    orders,     \* PENDING_ORDERS: key -> the purchase whose order it holds
    api,        \* where the callback handler is
    mints,      \* history: bridgeMint transactions mined
    vouchers,   \* history: vouchers issued
    faults      \* history: faults so far

vars == <<request, payment, mail, orders, api, mints, vouchers, faults>>

\* Wrong: the reference names no client.
KeyOfAmount(p) == IF Rail[p] = "daraja" THEN <<"checkout", p>> ELSE <<"XK", Kes[p]>>

\* Daraja makes a key for each push; Jenga's is made of the address and the amount.
KeyOf(p) ==
    IF Rail[p] = "daraja" THEN <<"checkout", p>> ELSE <<Prefix[Buyer[p]], Kes[p]>>

Keys == {KeyOf(p) : p \in Purchases}
Idle == [pc |-> "idle", ref |-> NoOrder, order |-> NoOrder]

Init ==
    /\ request = [p \in Purchases |-> "none"]
    /\ payment = [p \in Purchases |-> "none"]
    /\ mail = {}
    /\ orders = [k \in Keys |-> NoOrder]
    /\ api = Idle
    /\ mints = << >>
    /\ vouchers = {}
    /\ faults = 0

-----------------------------------------------------------------------------
\* The provider takes the push; its answer is on the way back.
PushAccepted(p) ==
    /\ request[p] = "none"
    /\ request' = [request EXCEPT ![p] = "pushed"]
    /\ payment' = [payment EXCEPT ![p] = "asked"]
    /\ UNCHANGED <<mail, orders, api, mints, vouchers, faults>>

\* The provider refuses it: the request ends with an error.
PushRejected(p) ==
    /\ request[p] = "none"
    /\ request' = [request EXCEPT ![p] = "failed"]
    /\ UNCHANGED <<payment, mail, orders, api, mints, vouchers, faults>>

\* The answer is there, and no other handler runs: the order is written.
RecordOrder(p) ==
    /\ request[p] = "pushed"
    /\ api.pc = "idle"
    /\ orders' = [orders EXCEPT ![KeyOf(p)] = p]
    /\ request' = [request EXCEPT ![p] = "recorded"]
    /\ UNCHANGED <<payment, mail, api, mints, vouchers, faults>>

\* The buyer pays or declines, and the provider calls back.
Decide(p, to) ==
    /\ payment[p] = "asked"
    /\ request[p] = "pushed" => p \in Overtaking
    /\ payment' = [payment EXCEPT ![p] = to]
    /\ mail' = mail \cup {[ref |-> p, paid |-> to = "paid"]}
    /\ UNCHANGED <<request, orders, api, mints, vouchers, faults>>

-----------------------------------------------------------------------------
Received(m) == mail' = IF Redelivers THEN mail ELSE mail \ {m}

\* Wrong: the result code, or the status, is not looked at.
ConfirmedAny(m) == TRUE

Confirmed(m) == m.paid

\* A push that failed: its order, if there is one, is dropped.
DropOrder(m) ==
    /\ api.pc = "idle"
    /\ ~Confirmed(m)
    /\ orders' = [orders EXCEPT ![KeyOf(m.ref)] = NoOrder]
    /\ Received(m)
    /\ UNCHANGED <<request, payment, api, mints, vouchers, faults>>

\* A payment for which there is no order: answered 404.
UnknownOrder(m) ==
    /\ api.pc = "idle"
    /\ Confirmed(m)
    /\ orders[KeyOf(m.ref)] = NoOrder
    /\ Received(m)
    /\ UNCHANGED <<request, payment, orders, api, mints, vouchers, faults>>

\* Wrong: the order is read, and stays.
TakeOrderKeeps(m) ==
    /\ api.pc = "idle"
    /\ Confirmed(m)
    /\ orders[KeyOf(m.ref)] # NoOrder
    /\ api' = [pc |-> "minting", ref |-> m.ref, order |-> orders[KeyOf(m.ref)]]
    /\ Received(m)
    /\ UNCHANGED <<request, payment, orders, mints, vouchers, faults>>

\* A confirmed payment: first the order is taken out of the book ...
TakeOrder(m) ==
    /\ api.pc = "idle"
    /\ Confirmed(m)
    /\ orders[KeyOf(m.ref)] # NoOrder
    /\ orders' = [orders EXCEPT ![KeyOf(m.ref)] = NoOrder]
    /\ api' = [pc |-> "minting", ref |-> m.ref, order |-> orders[KeyOf(m.ref)]]
    /\ Received(m)
    /\ UNCHANGED <<request, payment, mints, vouchers, faults>>

\* The bridgeMint transaction of a payment, and whether it succeeded.
MintOf(a, ok) == [ref |-> a.ref, to |-> Buyer[a.order], ok |-> ok]

\* ... the amount paid is minted to the client of the order ...
MintForFiat ==
    /\ api.pc = "minting"
    /\ Len(mints) < MaxMints
    /\ mints' = Append(mints, MintOf(api, TRUE))
    /\ api' = [api EXCEPT !.pc = "minted"]
    /\ UNCHANGED <<request, payment, mail, orders, vouchers, faults>>

\* ... or is mined and reverts: the receipt's status is passed on, not checked ...
MintReverts ==
    /\ api.pc = "minting"
    /\ Len(mints) < MaxMints /\ faults < MaxFaults
    /\ faults' = faults + 1
    /\ mints' = Append(mints, MintOf(api, FALSE))
    /\ api' = [api EXCEPT !.pc = "minted"]
    /\ UNCHANGED <<request, payment, mail, orders, vouchers>>

\* Wrong: a mint that raises is logged, and the handler goes on.
MintRaisesOn ==
    /\ api.pc = "minting"
    /\ faults < MaxFaults
    /\ faults' = faults + 1
    /\ api' = [api EXCEPT !.pc = "minted"]
    /\ UNCHANGED <<request, payment, mail, orders, mints, vouchers>>

\* ... or the mint raises (the daily cap is reached, the node is not there) ...
MintRaises ==
    /\ api.pc = "minting"
    /\ faults < MaxFaults
    /\ faults' = faults + 1
    /\ api' = Idle
    /\ UNCHANGED <<request, payment, mail, orders, mints, vouchers>>

\* ... and a voucher for the same client is issued.
IssueVoucher ==
    /\ api.pc = "minted"
    /\ vouchers' = vouchers \cup {[ref |-> api.ref, to |-> Buyer[api.order]]}
    /\ api' = Idle
    /\ UNCHANGED <<request, payment, mail, orders, mints, faults>>

\* Waiting for the mint's receipt times out: no voucher.
ReceiptTimesOut ==
    /\ api.pc = "minted"
    /\ faults < MaxFaults
    /\ faults' = faults + 1
    /\ api' = Idle
    /\ UNCHANGED <<request, payment, mail, orders, mints, vouchers>>

\* The provider took the push, but its answer does not arrive.
AnswerLost(p) ==
    /\ request[p] = "pushed"
    /\ faults < MaxFaults
    /\ faults' = faults + 1
    /\ request' = [request EXCEPT ![p] = "failed"]
    /\ UNCHANGED <<payment, mail, orders, api, mints, vouchers>>

\* The process dies and starts again: its memory is gone.
Restart ==
    /\ faults < MaxFaults
    /\ faults' = faults + 1
    /\ request' = [p \in Purchases |-> IF request[p] = "pushed" THEN "failed" ELSE request[p]]
    /\ orders' = [k \in Keys |-> NoOrder]
    /\ api' = Idle
    /\ UNCHANGED <<payment, mail, mints, vouchers>>

-----------------------------------------------------------------------------
BuyGas(p) == PushAccepted(p) \/ PushRejected(p) \/ RecordOrder(p)
Provider(p) == Decide(p, "paid") \/ Decide(p, "declined")
Callback(m) == DropOrder(m) \/ UnknownOrder(m) \/ TakeOrder(m)
Fulfil == MintForFiat \/ IssueVoucher
Fault == MintReverts \/ MintRaises \/ ReceiptTimesOut \/ Restart \/ \E p \in Purchases : AnswerLost(p)

Next ==
    \/ \E p \in Purchases : BuyGas(p) \/ Provider(p)
    \/ \E m \in mail : Callback(m)
    \/ Fulfil
    \/ Fault

Spec == Init /\ [][Next]_vars

Mail == [ref : Purchases, paid : BOOLEAN]

(***************************************************************************)
(* Fairness: the await of a request ends, a handler that began goes on,    *)
(* and a callback is delivered.  Buyers need not pay, faults need not be.  *)
(***************************************************************************)
FairSpec ==
    /\ Spec
    /\ WF_vars(Fulfil)
    /\ \A p \in Purchases : WF_vars(RecordOrder(p))
    /\ \A m \in Mail : WF_vars(m \in mail /\ Callback(m))

-----------------------------------------------------------------------------
Clients == {Buyer[p] : p \in Purchases}

\* KES c paid, and XKN minted to c: the callback names the amount of the purchase.
PaidBy(c) == Total([p \in {p \in Purchases : Buyer[p] = c /\ payment[p] = "paid"} |-> Kes[p]])
MintedTo(c) == Total([i \in {i \in DOMAIN mints : mints[i].ok /\ mints[i].to = c}
                        |-> Kes[mints[i].ref]])

\* Every mint stands for a payment of its own, by the client it goes to: no
\* receipt is minted for twice, and nothing is minted to anybody else.
MintedOnce ==
    /\ \A i, j \in DOMAIN mints : mints[i].ref = mints[j].ref => i = j
    /\ \A i \in DOMAIN mints : mints[i].to = Buyer[mints[i].ref]

\* Every XKN was minted against a confirmed payment: no client holds more of
\* them than the KES it paid.
MintsAreBacked == \A c \in Clients : MintedTo(c) <= PaidBy(c)

\* A voucher is issued only for a payment whose mint was mined, and to the same
\* client: never for one that raised, or after a receipt that did not come.
VoucherFollowsMint ==
    \A v \in vouchers :
        \E i \in DOMAIN mints : mints[i].ref = v.ref /\ mints[i].to = v.to

\* The callback of p waits for the answer, and no other purchase of the same
\* client and amount goes over Jenga: what the handlers alone can be held to.
Unshared(p) ==
    /\ p \notin Overtaking
    /\ \A q \in Purchases \ {p} :
         Rail[p] = "daraja" \/ Rail[q] = "daraja" \/ Buyer[p] # Buyer[q] \/ Kes[p] # Kes[q]

\* A paid purchase is minted to its buyer in the end, unless something failed.
EveryPaymentMinted ==
    \A p \in Purchases :
        payment[p] = "paid" /\ Unshared(p) ~>
            faults > 0 \/ \E i \in DOMAIN mints : mints[i].ref = p /\ mints[i].to = Buyer[p]
=============================================================================
