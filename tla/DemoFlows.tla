----------------------------- MODULE DemoFlows ------------------------------
(***************************************************************************)
(* web/src/demo/flows.js: what the buttons of the playground do, composed  *)
(* of the primitives.  A flow stops at its first failure and keeps what    *)
(* was done before it.  The amounts of the page's own flows are in KES.    *)
(***************************************************************************)
EXTENDS DemoWorld

Ok(w) == Done(w, None)

\* runSteps: the next step, unless one failed.
Then(r, Step(_, _)) == IF r.ok THEN Step(r.world, r.result) ELSE r

-----------------------------------------------------------------------------
setupNetwork(w) ==
    LET x == IF w.deployed THEN w ELSE deploy(w)
    IN setBridge(x, "owner", "kiosk", TRUE, x.params.mintCap)

buy(world, client, amount, failStk) ==
    Then(Then(stkPush(world, client, amount, failStk),
              LAMBDA w, receipt : bridgeMint(w, "kiosk", client, amount)),
         LAMBDA w, prev : issueVoucher(w, client, amount))

depositGasless(world, client, amount) ==
    Then(signPermit(world, client, "escrow", amount),
         LAMBDA w, p : depositWithPermit(w, "kiosk", client, amount, p))

withdraw(world, client, amount) == withdrawDeposit(world, client, amount)

withdrawGasless(world, client, amount) ==
    Then(signAuth(world, "withdraw", client, client, amount),
         LAMBDA w, auth : withdrawWithSig(w, "kiosk", auth, auth.to))

sendEscrow(world, from, to, amount) ==
    Then(signAuth(world, "transfer", from, to, amount),
         LAMBDA w, auth : transferDeposit(w, "kiosk", auth, auth.to))

\* A permit to the kiosk, and the kiosk takes the amount.
throughKiosk(world, from, to, amount) ==
    Then(Then(signPermit(world, from, "kiosk", amount), LAMBDA w, p : permit(w, "kiosk", p)),
         LAMBDA w, prev : transferFrom(w, "kiosk", from, to, amount))

send(world, from, to, amount) == throughKiosk(world, from, to, amount)

\* Wrong: the burn does not wait for the payout.
PayAndBurnAnyway(world, to, amount, fail) ==
    bridgeBurn(b2cPayout(world, to, amount, fail).world, "kiosk", amount)

\* The payout, and only after its success the burn.
PayAndBurn(world, to, amount, fail) ==
    Then(b2cPayout(world, to, amount, fail), LAMBDA w, id : bridgeBurn(w, "kiosk", amount))

cashOut(world, client, amount, failPayout) ==
    Then(throughKiosk(world, client, "kiosk", amount),
         LAMBDA w, prev : PayAndBurn(w, client, amount, failPayout))

retryPayout(world, client, amount) == PayAndBurn(world, client, amount, FALSE)

relayBatch(world) == settleTicketBatch(world, "relayer", pendingTickets(world))

nodeClaim(world) == claimEarnings(world, "node", "node", world.earnings["node"])

nodeCashOut(world) ==
    LET amount == world.bal["node"]
    IN Then(transfer(world, "node", "kiosk", amount),
            LAMBDA w, prev : PayAndBurn(w, "node", amount, FALSE))

sweepFees(world, from) == claim(world, from)

-----------------------------------------------------------------------------
\* The units a client signed for, or that were settled if there are more.
BaseUnits(w, client) ==
    LET signed == IF w.tickets[client] = << >> THEN 0 ELSE Newest(w.tickets[client]).units
    IN Max2(signed, w.channels[client].units)

\* openSession: credit up to the deposit, or offline to the voucher, and a cap.
\* (The price last served at is kept with the session for the properties only.)
openSession(world, client, target, offline) ==
    Then(IF offline THEN verifyVoucher(world, client) ELSE Ok(world),
         LAMBDA w, voucher :
            LET base == BaseUnits(w, client)
                limit == IF offline THEN Min2(voucher.amount, kes(w.params.offlineCap))
                         ELSE Min2(w.deposits[client], kes(w.params.onlineCap))
            IN Ok([w EXCEPT !.session =
                 [open |-> TRUE, client |-> client, target |-> target, bytes |-> 0, base |-> base,
                  unsettledAtStart |-> (base - w.channels[client].units) * w.price, limit |-> limit,
                  lastReceipt |-> 0, done |-> FALSE, throttled |-> None, servedPrice |-> w.price]]))

sessionCredit(w) ==
    IF w.session.open
    THEN w.session.limit - (w.session.unsettledAtStart + w.session.bytes * w.price)
    ELSE 0

\* Wrong: what the channel owed when the session was opened is forgotten.
maxBytesFresh(w) == Max2(0, w.session.limit \div w.price)

\* What the credit allows, in whole units.
maxBytes(w) == Max2(0, (w.session.limit - w.session.unsettledAtStart) \div w.price)

\* Wrong: a receipt is signed only when the session ends.
boundariesAtEnd(s, receipt, next, finished) ==
    IF finished /\ s.lastReceipt < next THEN <<next>> ELSE << >>

\* Receipts are due every so many bytes, and where the session ends.
boundaries(s, receipt, next, finished) ==
    LET n == Max2(0, (next - s.lastReceipt) \div receipt)
        full == [i \in 1 .. n |-> s.lastReceipt + i * receipt]
        last == IF n = 0 THEN s.lastReceipt ELSE full[n]
    IN IF finished /\ last < next THEN Append(full, next) ELSE full

\* One receipt, unless an earlier one could not be signed.
Receipt(r, b) ==
    Then(r, LAMBDA w, prev :
            Then(signTicket(w, w.session.client, w.session.client, w.session.base + b),
                 LAMBDA x, ticket : Ok([x EXCEPT !.session.lastReceipt = b])))

\* The receipts of one serving, after each of them.
Receipts(w, due) ==
    LET signed[i \in 0 .. Len(due)] ==
            IF i = 0 THEN Ok(w) ELSE Receipt(signed[i - 1], due[i])
    IN signed

\* serve: up to chunk more bytes; the node stops at the credit limit, or when
\* the client cannot sign.
serve(w, chunk) ==
    LET s == w.session
        wanted == Min2(s.bytes + chunk, s.target)
        next == Min2(wanted, maxBytes(w))
        finished == next >= s.target \/ next < wanted
        due == boundaries(s, w.params.receipt, next, finished)
        r == Receipts([w EXCEPT !.session.bytes = next, !.session.servedPrice = w.price], due)[Len(due)]
    IN IF ~s.open \/ s.done THEN w
       ELSE [r.world EXCEPT !.session.done = finished \/ ~r.ok,
                            !.session.throttled = IF ~r.ok THEN "phone"
                                                  ELSE IF next < wanted THEN "credit" ELSE None]

closeSession(w) == [w EXCEPT !.session = NoSession]

-----------------------------------------------------------------------------
\* ensureReady: deployed, the kiosk a bridge, and something in Amina's meter.
ensureReady(world) ==
    LET listed == IF ~world.deployed \/ ~world.bridges["kiosk"].allowed
                  THEN setupNetwork(world) ELSE Ok(world)
        bought == Then(listed, LAMBDA w, prev :
                       IF w.deposits["amina"] < kes(20) /\ w.bal["amina"] < kes(50)
                       THEN buy(w, "amina", kes(100), FALSE) ELSE Ok(w))
    IN Then(bought, LAMBDA w, prev :
            IF w.deposits["amina"] < kes(20) THEN depositGasless(w, "amina", kes(50)) ELSE Ok(w))

\* signN: tickets signed at equal steps, after the newest or, without one, the
\* settled units.  A wallet that cannot sign ends the drill with an exception.
signN(w, n, step) ==
    LET base == IF w.tickets["amina"] = << >> THEN w.channels["amina"].units
                ELSE Newest(w.tickets["amina"]).units
        signed[i \in 0 .. n] ==
            IF i = 0 THEN w ELSE signTicket(signed[i - 1], "amina", "amina", base + i * step).world
    IN signed[n]

\* The newest tickets of Amina, at most n.
NewTickets(w, n) ==
    SubSeq(w.tickets["amina"], Max2(1, Len(w.tickets["amina"]) - n + 1), Len(w.tickets["amina"]))

\* The tickets of a list that are good, after each of the list.
Filtered(list, good) ==
    LET kept[i \in 0 .. Len(list)] ==
            IF i = 0 THEN << >>
            ELSE IF list[i] \in good THEN Append(kept[i - 1], list[i]) ELSE kept[i - 1]
    IN kept

\* The node's store after a drill: Amina's tickets that are good.
Kept(w, good) == [w EXCEPT !.tickets["amina"] = Filtered(@, good)[Len(@)]]

Store(w) == {w.tickets["amina"][i] : i \in 1 .. Len(w.tickets["amina"])}

Verdict(w, ok) == [world |-> w, ok |-> ok, result |-> None, failed |-> None]

LostTickets(world) ==
    LET w == signN(world, 3, 1) IN settleTicketBatch(w, "relayer", <<Newest(w.tickets["amina"])>>)

Replayed(world) ==
    LET w == signN(world, 2, 1)
        two == NewTickets(w, 2)
        r1 == settleTicketBatch(w, "relayer", <<two[2]>>)
        r2 == settleTicketBatch(r1.world, "mallory", <<two[1]>>)
    IN Verdict(r2.world, ~r2.ok)

Forged(world) ==
    LET r0 == signTicket(world, "amina", "node", BaseUnits(world, "amina") + 2)
        r == settleTicketBatch(r0.world, "relayer", <<r0.result>>)
    IN Verdict(Kept(r.world, {t \in Store(r.world) : t.signedBy = "amina"}), ~r.ok)

Expired(world) ==
    LET w == signN(world, 1, 1)
        late == warp(w, w.params.epoch + 1).world
        r == settleTicketBatch(late, "relayer", <<Newest(w.tickets["amina"])>>)
    IN Verdict(Kept(r.world, {t \in Store(r.world) : t.expiry >= r.world.t}), ~r.ok)

Drain(world) ==
    LET w == signN(world, 1, 2)
        left == w.deposits["amina"]
        out == withdrawGasless(w, "amina", left - Min2(kes(1), left))
        r == settleTicketBatch(out.world, "relayer", <<Newest(w.tickets["amina"])>>)
    IN Verdict(r.world, out.ok /\ r.ok)

Redirect(world) ==
    LET s == signAuth(world, "withdraw", "amina", "amina", kes(5))
        r == withdrawWithSig(s.world, "mallory", s.result, "mallory")
    IN Verdict(r.world, ~r.ok)

LostPhone(world) ==
    LET r == Then(loseDevice(world, "amina"),
                  LAMBDA w, prev : signTicket(w, "amina", "amina", 99))
    IN restoreFromSeed(r.world, "amina")

RogueBridge(world) ==
    LET info == Window(world, "kiosk")
        r == bridgeMint(world, "kiosk", "mallory", info.cap - info.minted)
        r2 == bridgeMint(r.world, "kiosk", "mallory", kes(1))
        r3 == setBridge(r2.world, "owner", "kiosk", FALSE, 0)
    IN Verdict(r3.world, ~r2.ok)

StolenOwner(world) ==
    LET w1 == setFeeBps(world, "owner", 50).world
        w2 == setPricePerUnit(w1, "owner", 1000000).world
        w3 == queueBeneficiary(w2, "owner", "mallory").world
        w4 == activateBeneficiary(w3, "mallory").world
        w5 == cancelBeneficiaryChange(w4, "founder").world
    IN Verdict(w5, w5.beneficiary = "founder")

FrontRunPermit(world) ==
    LET s == signPermit(world, "amina", "escrow", kes(5))
    IN Then(permit(s.world, "mallory", s.result),
            LAMBDA w, prev : depositWithPermit(w, "kiosk", "amina", kes(5), s.result))

PayoutFails(world) ==
    LET w == IF world.bal["amina"] < kes(10) THEN buy(world, "amina", kes(20), FALSE).world ELSE world
    IN retryPayout(cashOut(w, "amina", kes(10), TRUE).world, "amina", kes(10))

Offline(world) ==
    LET w == IF world.vouchers["amina"] = NoVoucher THEN buy(world, "amina", kes(20), FALSE).world
             ELSE world
        o == openSession(w, "amina", 8, TRUE)
    IN IF o.ok THEN Ok(serve(o.world, 8)) ELSE o

\* The drills that cannot do without a signature, of Amina's phone or the
\* node's; without it they throw.
NeedsPhone == {"lost-tickets", "replay", "expired", "drain", "redirect", "front-run-permit"}
Unsigned(w, id) ==
    \/ id \in NeedsPhone /\ ~w.devices["amina"]
    \/ id = "forged" /\ ~w.devices["node"]

DRILLS == {"lost-tickets", "replay", "forged", "expired", "drain", "redirect", "lost-phone",
           "rogue-bridge", "stolen-owner", "front-run-permit", "payout-fails", "offline"}

RunDrill(w, id) ==
    CASE id = "lost-tickets" -> LostTickets(w)
      [] id = "replay" -> Replayed(w)
      [] id = "forged" -> Forged(w)
      [] id = "expired" -> Expired(w)
      [] id = "drain" -> Drain(w)
      [] id = "redirect" -> Redirect(w)
      [] id = "lost-phone" -> LostPhone(w)
      [] id = "rogue-bridge" -> RogueBridge(w)
      [] id = "stolen-owner" -> StolenOwner(w)
      [] id = "front-run-permit" -> FrontRunPermit(w)
      [] id = "payout-fails" -> PayoutFails(w)
      [] id = "offline" -> Offline(w)
=============================================================================
