----------------------------- MODULE DemoWorld ------------------------------
(***************************************************************************)
(* web/src/demo/engine.js: the world of the web site's playground, plain   *)
(* data, and its primitives.  A primitive takes a world and returns a new  *)
(* one and whether the call went through.  The world holds what the three  *)
(* contracts hold, and what wallets, kiosk, M-Pesa and the node hold.      *)
(*                                                                         *)
(* Abstracted: a signature is the record of what was signed and by whom;   *)
(* gas is counted, in calls, for the clients only (the others' purses are  *)
(* taken to last); the two seconds a block takes are left out, so that     *)
(* time moves in warps; the channels are those of the one node; bytes come *)
(* in chunks, the least the page serves at once, and are priced so.        *)
(***************************************************************************)
EXTENDS Integers, Sequences

CONSTANTS
    DEFAULT_PARAMS, \* prices, caps, times
    Wealth,         \* the clients' M-Pesa balances at first
    UKES            \* units of the balances in a shilling

Clients == {"amina", "baraka"}
ACTORS == {"owner", "kiosk", "relayer", "node", "founder", "mallory"} \cup Clients
HOLDERS == ACTORS \cup {"escrow", "treasury"}
\* Those an allowance may name.
SPENDERS == ACTORS \cup {"escrow"}
CONTRACTS == {"token", "escrow", "treasury"}
None == "none"
DAY == 24
NoSession == [open |-> FALSE]
NoVoucher == [amount |-> 0, expires |-> -1]
NoChannel == [seq |-> 0, units |-> 0]

\* What the parameters may be: a free unit would be credit without end, and a
\* fee is a percentage.
Price == Nat \ {0}
Fee == 0 .. 100
Params == [price : Price, fee : Fee, band : SUBSET Price, mintCap : Nat, receipt : Nat \ {0},
           onlineCap : Nat, offlineCap : Nat, epoch : Nat, voucher : Nat]

ASSUME DemoConstants ==
    /\ DEFAULT_PARAMS \in Params
    /\ Wealth \in [Clients -> Nat]
    /\ UKES \in Nat

kes(n) == n * UKES

createWorld == [
    t |-> 100, deployed |-> FALSE, params |-> DEFAULT_PARAMS,
    supply |-> 0, bal |-> [h \in HOLDERS |-> 0], allow |-> [o \in ACTORS |-> [s \in SPENDERS |-> 0]],
    nonces |-> [a \in ACTORS |-> 0],
    bridges |-> [a \in ACTORS |-> [allowed |-> FALSE, cap |-> 0, minted |-> 0, windowStart |-> 0]],
    owner |-> [c \in CONTRACTS |-> None], pendingOwner |-> [c \in CONTRACTS |-> None],
    deposits |-> [a \in ACTORS |-> 0], earnings |-> [a \in ACTORS |-> 0],
    channels |-> [c \in Clients |-> NoChannel], authNonces |-> [a \in ACTORS |-> 0],
    price |-> 0, lastPriceChange |-> 0,
    fee |-> 0, beneficiary |-> None, pending |-> None, activation |-> 0,
    mpesa |-> [a \in ACTORS |-> IF a \in Clients THEN Wealth[a] ELSE 0], float |-> 0,
    eth |-> [c \in Clients |-> 0], devices |-> [a \in ACTORS |-> TRUE],
    tickets |-> [c \in Clients |-> << >>], vouchers |-> [a \in ACTORS |-> NoVoucher],
    session |-> NoSession]

-----------------------------------------------------------------------------
\* What a call returns: the world after it, and the name of the call that failed.
Done(w, result) == [world |-> w, ok |-> TRUE, result |-> result, failed |-> None]
Failed(w, fn) == [world |-> w, ok |-> FALSE, result |-> None, failed |-> fn]

burnGas(w, payer) == IF payer \in Clients THEN [w EXCEPT !.eth[payer] = @ - 1] ELSE w

\* On chain: a call that reverts leaves the state and burns gas; one whose gas
\* cannot be paid does not reach the chain.
call(w, fn, payer, needs, after) ==
    IF payer \in Clients /\ w.eth[payer] = 0 THEN Failed(w, fn)
    ELSE IF needs THEN Done(burnGas(after, payer), None)
    ELSE Failed(burnGas(w, payer), fn)

\* Off chain.
callOff(w, fn, needs, after, result) == IF needs THEN Done(after, result) ELSE Failed(w, fn)

OnlyOwner(w, contract, from) == w.owner[contract] = from

Moved(f, from, to, amount) == [[f EXCEPT ![from] = @ - amount] EXCEPT ![to] = @ + amount]
Transferred(w, from, to, amount) == [w EXCEPT !.bal = Moved(@, from, to, amount)]

-----------------------------------------------------------------------------
\* deploy: the three contracts, with the fee and the price of the parameters.
deploy(w) ==
    [w EXCEPT !.deployed = TRUE, !.owner = [c \in CONTRACTS |-> "owner"],
              !.fee = w.params.fee, !.beneficiary = "founder",
              !.price = w.params.price, !.lastPriceChange = w.t]

setBridge(w, from, bridge, allowed, cap) ==
    call(w, "setBridge", from, OnlyOwner(w, "token", from),
         [w EXCEPT !.bridges[bridge] = [@ EXCEPT !.allowed = allowed, !.cap = cap]])

\* The bridge's window, started anew when the last one is a day old.
Window(w, bridge) ==
    LET info == w.bridges[bridge]
    IN IF w.t >= info.windowStart + DAY THEN [info EXCEPT !.windowStart = w.t, !.minted = 0] ELSE info

bridgeMint(w, from, to, amount) ==
    LET info == Window(w, from)
    IN call(w, "bridgeMint", from, info.allowed /\ info.minted + amount <= info.cap,
            [w EXCEPT !.bridges[from] = [info EXCEPT !.minted = @ + amount],
                      !.supply = @ + amount, !.bal[to] = @ + amount])

bridgeBurn(w, from, amount) ==
    call(w, "bridgeBurn", from, w.bridges[from].allowed /\ w.bal[from] >= amount,
         [w EXCEPT !.bal[from] = @ - amount, !.supply = @ - amount])

approve(w, from, spender, amount) ==
    call(w, "approve", from, TRUE, [w EXCEPT !.allow[from][spender] = amount])

transfer(w, from, to, amount) ==
    call(w, "transfer", from, w.bal[from] >= amount, Transferred(w, from, to, amount))

transferFrom(w, from, owner, to, amount) ==
    call(w, "transferFrom", from, w.allow[owner][from] >= amount /\ w.bal[owner] >= amount,
         Transferred([w EXCEPT !.allow[owner][from] = @ - amount], owner, to, amount))

\* A permit is good until its deadline, and once: for the owner's present nonce.
PermitHolds(w, p) == w.t <= p.deadline /\ p.nonce = w.nonces[p.owner] /\ p.signedBy = p.owner

applyPermit(w, p) ==
    [w EXCEPT !.nonces[p.owner] = @ + 1, !.allow[p.owner][p.spender] = p.value]

permit(w, from, p) == call(w, "permit", from, PermitHolds(w, p), applyPermit(w, p))

-----------------------------------------------------------------------------
CanDeposit(w, client, amount) ==
    amount > 0 /\ w.allow[client]["escrow"] >= amount /\ w.bal[client] >= amount

Deposited(w, client, amount) ==
    Transferred([w EXCEPT !.allow[client]["escrow"] = @ - amount, !.deposits[client] = @ + amount],
                client, "escrow", amount)

deposit(w, from, amount) ==
    call(w, "deposit", from, CanDeposit(w, from, amount), Deposited(w, from, amount))

\* A permit that fails is caught: the deposit goes on with the allowance there is.
depositWithPermit(w, from, client, amount, p) ==
    LET x == IF PermitHolds(w, p) THEN applyPermit(w, p) ELSE w
    IN call(w, "depositWithPermit", from, CanDeposit(x, client, amount),
            Deposited(x, client, amount))

Withdrawn(w, client, to, amount) ==
    Transferred([w EXCEPT !.deposits[client] = @ - amount], "escrow", to, amount)

withdrawDeposit(w, from, amount) ==
    call(w, "withdrawDeposit", from, amount > 0 /\ w.deposits[from] >= amount,
         Withdrawn(w, from, from, amount))

\* An authorisation holds for what was signed, at the present nonce.
AuthHolds(w, kind, auth, to) ==
    /\ auth.amount > 0 /\ w.t <= auth.deadline /\ auth.kind = kind /\ auth.to = to
    /\ auth.nonce = w.authNonces[auth.from] /\ w.deposits[auth.from] >= auth.amount

Used(w, auth) == [w EXCEPT !.authNonces[auth.from] = @ + 1]

withdrawWithSig(w, from, auth, to) ==
    call(w, "withdrawWithSig", from, AuthHolds(w, "withdraw", auth, to),
         Withdrawn(Used(w, auth), auth.from, to, auth.amount))

transferDeposit(w, from, auth, to) ==
    call(w, "transferDeposit", from, AuthHolds(w, "transfer", auth, to),
         [Used(w, auth) EXCEPT !.deposits = Moved(@, auth.from, to, auth.amount)])

TicketHolds(w, t) ==
    /\ t.expiry >= w.t
    /\ t.seq > w.channels[t.client].seq /\ t.units > w.channels[t.client].units
    /\ t.signedBy = t.client

Newest(list) == list[Len(list)]
Min2(a, b) == IF a <= b THEN a ELSE b
Max2(a, b) == IF a >= b THEN a ELSE b

\* One ticket of a batch: what it owes is paid as far as the deposit goes.
SettleTicket(b, t) ==
    LET w == b.world
        paid == Min2((t.units - w.channels[t.client].units) * w.price, w.deposits[t.client])
        fee == (paid * w.fee) \div 100
    IN IF ~b.ok \/ ~TicketHolds(w, t) THEN [b EXCEPT !.ok = FALSE]
       ELSE [ok |-> TRUE, gross |-> b.gross + paid, fee |-> b.fee + fee,
             world |-> [w EXCEPT !.channels[t.client] = [seq |-> t.seq, units |-> t.units],
                                 !.deposits[t.client] = @ - paid,
                                 !.earnings["node"] = @ + paid - fee]]

\* The batch after each of its tickets.
Settled(w, tickets) ==
    LET batch[i \in 0 .. Len(tickets)] ==
            IF i = 0 THEN [ok |-> TRUE, world |-> w, gross |-> 0, fee |-> 0]
            ELSE SettleTicket(batch[i - 1], tickets[i])
    IN batch

\* Wrong: the fee stays with the escrow.
settleTicketBatchKeepsFee(w, from, tickets) ==
    LET b == Settled(w, tickets)[Len(tickets)]
    IN call(w, "settleTicketBatch", from, tickets # << >> /\ b.ok /\ b.gross > 0, b.world)

\* All tickets of the batch hold, and something is paid, or nothing happens.
settleTicketBatch(w, from, tickets) ==
    LET b == Settled(w, tickets)[Len(tickets)]
    IN call(w, "settleTicketBatch", from, tickets # << >> /\ b.ok /\ b.gross > 0,
            Transferred(b.world, "escrow", "treasury", b.fee))

claimEarnings(w, from, to, amount) ==
    call(w, "claimEarnings", from, amount > 0 /\ w.earnings[from] >= amount,
         Transferred([w EXCEPT !.earnings[from] = @ - amount], "escrow", to, amount))

setPricePerUnit(w, from, newPrice) ==
    call(w, "setPricePerUnit", from,
         OnlyOwner(w, "escrow", from) /\ newPrice \in w.params.band /\ w.t >= w.lastPriceChange + DAY,
         [w EXCEPT !.price = newPrice, !.lastPriceChange = w.t])

-----------------------------------------------------------------------------
claim(w, from) ==
    call(w, "claim", from, w.bal["treasury"] > 0,
         Transferred(w, "treasury", w.beneficiary, w.bal["treasury"]))

setFeeBps(w, from, fee) ==
    call(w, "setFeeBps", from, OnlyOwner(w, "treasury", from) /\ fee <= 10, [w EXCEPT !.fee = fee])

queueBeneficiary(w, from, next) ==
    call(w, "queueBeneficiary", from, OnlyOwner(w, "treasury", from),
         [w EXCEPT !.pending = next, !.activation = w.t + 7 * DAY])

activateBeneficiary(w, from) ==
    call(w, "activateBeneficiary", from, w.pending # None /\ w.t >= w.activation,
         [w EXCEPT !.beneficiary = w.pending, !.pending = None, !.activation = 0])

cancelBeneficiaryChange(w, from) ==
    call(w, "cancelBeneficiaryChange", from,
         from \in {w.owner["treasury"], w.beneficiary} /\ w.pending # None,
         [w EXCEPT !.pending = None, !.activation = 0])

transferOwnership(w, from, contract, next) ==
    call(w, "transferOwnership", from, OnlyOwner(w, contract, from),
         [w EXCEPT !.pendingOwner[contract] = next])

acceptOwnership(w, from, contract) ==
    call(w, "acceptOwnership", from, w.pendingOwner[contract] = from,
         [w EXCEPT !.owner[contract] = from, !.pendingOwner[contract] = None])

-----------------------------------------------------------------------------
\* The wallet: a ticket takes the sequence after the newest, signed or settled.
signTicket(w, client, signer, units) ==
    LET list == w.tickets[client]
        newest == IF list = << >> THEN 0 ELSE Newest(list).seq
        ticket == [client |-> client, seq |-> Max2(w.channels[client].seq, newest) + 1, units |-> units,
                   expiry |-> w.t + w.params.epoch, signedBy |-> signer]
    IN callOff(w, "signTicket", w.devices[signer],
               [w EXCEPT !.tickets[client] = Append(@, ticket)], ticket)

signPermit(w, owner, spender, value) ==
    callOff(w, "signPermit", w.devices[owner], w,
            [owner |-> owner, spender |-> spender, value |-> value, nonce |-> w.nonces[owner],
             deadline |-> w.t + 1, signedBy |-> owner])

\* Wrong: signed without the phone.
signAuthAnyway(w, kind, owner, to, amount) ==
    callOff(w, "signAuth", TRUE, w,
            [kind |-> kind, from |-> owner, to |-> to, amount |-> amount,
             nonce |-> w.authNonces[owner], deadline |-> w.t + 1])

signAuth(w, kind, owner, to, amount) ==
    callOff(w, "signAuth", w.devices[owner], w,
            [kind |-> kind, from |-> owner, to |-> to, amount |-> amount,
             nonce |-> w.authNonces[owner], deadline |-> w.t + 1])

\* M-Pesa: the customer pays the kiosk; the kiosk pays out.
stkPush(w, client, amount, fail) ==
    callOff(w, "stkPush", ~fail /\ w.mpesa[client] >= amount,
            [w EXCEPT !.mpesa[client] = @ - amount, !.float = @ + amount], None)

b2cPayout(w, to, amount, fail) ==
    callOff(w, "b2cPayout", ~fail /\ w.float >= amount,
            [w EXCEPT !.float = @ - amount, !.mpesa[to] = @ + amount], None)

\* The newest voucher of a client is the one the node looks at.
issueVoucher(w, to, amount) ==
    callOff(w, "issueVoucher", TRUE,
            [w EXCEPT !.vouchers[to] = [amount |-> amount, expires |-> w.t + w.params.voucher]], None)

verifyVoucher(w, who) ==
    callOff(w, "verifyVoucher", w.vouchers[who] # NoVoucher /\ w.t <= w.vouchers[who].expires,
            w, w.vouchers[who])

warp(w, hours) == callOff(w, "warp", TRUE, [w EXCEPT !.t = @ + hours], None)
loseDevice(w, who) == callOff(w, "loseDevice", TRUE, [w EXCEPT !.devices[who] = FALSE], None)
restoreFromSeed(w, who) == callOff(w, "restoreFromSeed", TRUE, [w EXCEPT !.devices[who] = TRUE], None)

\* The kiosk sends a client gas for some calls.
fundGas(w, to, calls) ==
    call(w, "ethTransfer", "kiosk", TRUE,
         IF to \in Clients THEN [w EXCEPT !.eth[to] = @ + calls] ELSE w)

-----------------------------------------------------------------------------
\* The newest ticket of each channel, where it is newer than what was settled.
pendingTickets(w) ==
    LET waiting(c) ==
            /\ w.tickets[c] # << >>
            /\ Newest(w.tickets[c]).seq > w.channels[c].seq
            /\ Newest(w.tickets[c]).units > w.channels[c].units
        offer(c) == IF waiting(c) THEN <<Newest(w.tickets[c])>> ELSE << >>
    IN offer("amina") \o offer("baraka")

\* The sum of f over the actors.
TotalOf(f) ==
    f["owner"] + f["kiosk"] + f["relayer"] + f["node"] + f["founder"] + f["mallory"]
        + f["amina"] + f["baraka"]

\* The rules the page checks after every call.
solvency(w) == w.bal["escrow"] = TotalOf(w.deposits) + TotalOf(w.earnings)
conservation(w) == TotalOf(w.bal) + w.bal["escrow"] + w.bal["treasury"] = w.supply
peg(w) == w.supply = w.float
=============================================================================
