---------------------------- MODULE Playground ------------------------------
(***************************************************************************)
(* web/src/demo/ui: the playground.  It keeps every world since the start  *)
(* (undo drops the newest), shows the newest, and computes what a click    *)
(* does from the world it shows.  While somebody browses, an interval      *)
(* serves from the last world shown and replaces the newest with the       *)
(* result; the page shows it only when it renders.  A click renders before *)
(* anything else runs; what an interval set is rendered later.             *)
(* One step of the list is open at a time, and the browse step's interval  *)
(* lives as long as it is the open one.                                    *)
(***************************************************************************)
EXTENDS DemoFlows

CONSTANTS
    Forms,          \* step -> what may be chosen in its form
    DefaultForms,   \* step -> what its form holds at first
    ConsoleCalls,   \* calls made through the overlay "Tools"
    PlayFrom,       \* bound: the steps that play-all is tried from
    MaxHistory,     \* worlds kept
    MaxClicks       \* bound: clicks that change the world

\* In the order of the page; the twelve drills are the last step.
STEPS == <<"setup", "topup", "fill", "browse", "settle", "nodeout", "fee", "send", "unlock",
           "cashout", "whatif">>
StepIds == {STEPS[i] : i \in DOMAIN STEPS}

\* What the forms of the steps hold.
FormTypes == [
    setup |-> [price : Price, fee : Fee],
    topup |-> [who : Clients, amount : Nat, fail : BOOLEAN],
    fill |-> [who : Clients, amount : Nat],
    browse |-> [who : Clients, target : Nat \ {0}, offline : BOOLEAN],
    settle |-> {<< >>},
    nodeout |-> [mode : {"claim", "both"}],
    fee |-> [by : ACTORS],
    send |-> [who : Clients, amount : Nat, from : {"wallet", "meter"}],
    unlock |-> [who : Clients, amount : Nat, old : BOOLEAN],
    cashout |-> [who : Clients, amount : Nat, fail : BOOLEAN],
    whatif |-> {<< >>}]

\* The calls of the console, and what their forms hold.  Its number fields take
\* a negative number as well, which the engine does not refuse: left out.
CallNames == {
    "setBridge", "bridgeMint", "bridgeBurn", "approve", "transfer", "transferFrom", "permit",
    "deposit", "depositWithPermit", "withdrawDeposit", "settleTicketBatch", "claimEarnings",
    "setPricePerUnit", "claim", "setFeeBps", "queueBeneficiary", "activateBeneficiary",
    "cancelBeneficiaryChange", "transferOwnership", "acceptOwnership", "signTicket",
    "issueVoucher", "verifyVoucher", "stkPush", "b2cPayout", "fundGas", "warp", "loseDevice",
    "restoreFromSeed"}

CallForms == [fn : CallNames, caller : ACTORS, owner : ACTORS, to : ACTORS, spender : SPENDERS,
              contract : CONTRACTS, allowed : BOOLEAN, amount : Nat]

ASSUME PlaygroundConstants ==
    /\ DOMAIN Forms = StepIds
    /\ \A id \in StepIds : Forms[id] \subseteq FormTypes[id] /\ DefaultForms[id] \in FormTypes[id]
    /\ ConsoleCalls \subseteq CallForms
    /\ PlayFrom \subseteq 1 .. Len(STEPS) - 1
    /\ MaxHistory \in Nat \ {0} /\ MaxClicks \in Nat

VARIABLES
    hist,       \* hist.worlds, oldest first
    shown,      \* the world last rendered: what the handlers and the interval read
    browsing,   \* the browse step is the open one
    playing,    \* its interval runs
    payoutFailed,   \* results.cashout: it stopped at the payout
    clicks,     \* history: clicks so far
    last        \* history: how the last click, or tick, ended

pgVars == <<hist, shown, browsing, playing, payoutFailed, clicks, last>>

-----------------------------------------------------------------------------
Other(who) == IF who = "amina" THEN "baraka" ELSE "amina"

\* A step that there is nothing to do for, and one whose button works.
waits(w, id) ==
    CASE id = "settle" -> pendingTickets(w) = << >>
      [] id = "nodeout" -> w.earnings["node"] = 0 /\ w.bal["node"] = 0
      [] id = "fee" -> w.bal["treasury"] = 0
      [] OTHER -> FALSE

ready(w, id) == ~waits(w, id) /\ (w.deployed \/ id = "setup")

\* The node claims, if there is anything to, and then perhaps cashes out.
NodeOut(w, mode) ==
    Then(IF w.earnings["node"] > 0 THEN nodeClaim(w) ELSE Ok(w),
         LAMBDA x, prev : IF mode = "claim" THEN Ok(x) ELSE nodeCashOut(x))

run(w, id, f) ==
    CASE id = "setup" -> setupNetwork([w EXCEPT !.params.price = f.price, !.params.fee = f.fee])
      [] id = "topup" -> buy(w, f.who, kes(f.amount), f.fail)
      [] id = "fill" -> depositGasless(w, f.who, kes(f.amount))
      [] id = "settle" -> relayBatch(w)
      [] id = "nodeout" -> NodeOut(w, f.mode)
      [] id = "fee" -> sweepFees(w, f.by)
      [] id = "send" -> IF f.from = "meter" THEN sendEscrow(w, f.who, Other(f.who), kes(f.amount))
                        ELSE send(w, f.who, Other(f.who), kes(f.amount))
      [] id = "unlock" -> IF f.old THEN withdraw(w, f.who, kes(f.amount))
                          ELSE withdrawGasless(w, f.who, kes(f.amount))
      [] id = "cashout" -> cashOut(w, f.who, kes(f.amount), f.fail)

\* The world after each of n servings of four chunks.
Browsed(w, n) ==
    LET served[i \in 0 .. n] == IF i = 0 THEN w ELSE serve(served[i - 1], 4)
    IN served

\* A step run to its end, a whole browse included.
runDefault(w, id, f) ==
    IF id = "browse"
    THEN Then(openSession(w, f.who, f.target, f.offline),
              LAMBDA x, prev :
                 LET y == Browsed(x, f.target)[f.target]
                 IN [Ok(closeSession(y)) EXCEPT !.ok = y.session.throttled # "phone"])
    ELSE run(w, id, f)

\* PRIMS of the console: one call of the engine, by whoever the form names.
PRIMS(w, f) ==
    CASE f.fn = "setBridge" -> setBridge(w, f.caller, f.to, f.allowed, kes(f.amount))
      [] f.fn = "bridgeMint" -> bridgeMint(w, f.caller, f.to, kes(f.amount))
      [] f.fn = "bridgeBurn" -> bridgeBurn(w, f.caller, kes(f.amount))
      [] f.fn = "approve" -> approve(w, f.caller, f.spender, kes(f.amount))
      [] f.fn = "transfer" -> transfer(w, f.caller, f.to, kes(f.amount))
      [] f.fn = "transferFrom" -> transferFrom(w, f.caller, f.owner, f.to, kes(f.amount))
      [] f.fn = "permit" -> Then(signPermit(w, f.owner, f.spender, kes(f.amount)),
                                 LAMBDA x, p : permit(x, f.caller, p))
      [] f.fn = "deposit" -> deposit(w, f.caller, kes(f.amount))
      [] f.fn = "depositWithPermit" ->
            Then(signPermit(w, f.owner, "escrow", kes(f.amount)),
                 LAMBDA x, p : depositWithPermit(x, f.caller, f.owner, kes(f.amount), p))
      [] f.fn = "withdrawDeposit" -> withdrawDeposit(w, f.caller, kes(f.amount))
      [] f.fn = "settleTicketBatch" -> settleTicketBatch(w, f.caller, pendingTickets(w))
      [] f.fn = "claimEarnings" -> claimEarnings(w, f.caller, f.to, kes(f.amount))
      [] f.fn = "setPricePerUnit" -> setPricePerUnit(w, f.caller, f.amount)
      [] f.fn = "claim" -> claim(w, f.caller)
      [] f.fn = "setFeeBps" -> setFeeBps(w, f.caller, f.amount)
      [] f.fn = "queueBeneficiary" -> queueBeneficiary(w, f.caller, f.to)
      [] f.fn = "activateBeneficiary" -> activateBeneficiary(w, f.caller)
      [] f.fn = "cancelBeneficiaryChange" -> cancelBeneficiaryChange(w, f.caller)
      [] f.fn = "transferOwnership" -> transferOwnership(w, f.caller, f.contract, f.to)
      [] f.fn = "acceptOwnership" -> acceptOwnership(w, f.caller, f.contract)
      [] f.fn = "signTicket" -> signTicket(w, "amina", f.caller, f.amount)
      [] f.fn = "issueVoucher" -> issueVoucher(w, f.to, kes(f.amount))
      [] f.fn = "verifyVoucher" -> verifyVoucher(w, f.owner)
      [] f.fn = "stkPush" -> stkPush(w, f.caller, kes(f.amount), FALSE)
      [] f.fn = "b2cPayout" -> b2cPayout(w, f.to, kes(f.amount), FALSE)
      [] f.fn = "fundGas" -> fundGas(w, f.to, f.amount)
      [] f.fn = "warp" -> warp(w, f.amount)
      [] f.fn = "loseDevice" -> loseDevice(w, f.caller)
      [] f.fn = "restoreFromSeed" -> restoreFromSeed(w, f.caller)

-----------------------------------------------------------------------------
PgInit ==
    /\ \E w \in {createWorld, ensureReady(createWorld).world} : hist = <<w>> /\ shown = w
    /\ browsing = FALSE
    /\ playing = FALSE
    /\ payoutFailed = FALSE
    /\ clicks = 0
    /\ last = "done"

\* The history with one more world; the oldest falls off its end.
Committed(worlds, w) ==
    SubSeq(worlds, Max2(1, Len(worlds) - MaxHistory + 2), Len(worlds)) \o <<w>>

\* Calls and drills that may move the peg: they are there to show it move.
Manual == CallNames \cup {"rogue-bridge"}

\* Drills that make a top-up first and do not look whether it went through.
TopUpUnchecked == {"payout-fails", "offline"}

\* What the properties tell apart of how a click ended.
Outcome(step, ok, at) ==
    IF step \in {"undo", "reset"} THEN "back"
    ELSE IF step \in Manual THEN "manual"
    ELSE IF ok /\ step \notin TopUpUnchecked THEN "done"
    ELSE IF at \in {"b2cPayout", "bridgeBurn"} THEN at
    ELSE "elsewhere"

\* Wrong: a click is rendered as late as a tick.
ClickedLater(worlds, step, ok, at) ==
    /\ clicks < MaxClicks /\ clicks' = clicks + 1
    /\ hist' = worlds /\ shown' = shown
    /\ last' = Outcome(step, ok, at)

\* A click leaves these worlds, and they are shown at once.
Clicked(worlds, step, ok, at) ==
    /\ clicks < MaxClicks /\ clicks' = clicks + 1
    /\ hist' = worlds /\ shown' = worlds[Len(worlds)]
    /\ last' = Outcome(step, ok, at)

\* commit: what a flow returned becomes the newest world, done or not.
commit(r, step) == Clicked(Committed(hist, r.world), step, r.ok, r.failed)

\* replace: the newest world only.
replace(w) == [hist EXCEPT ![Len(hist)] = w]

\* The button of an open step.
Run(id, f) ==
    /\ id \notin {"browse", "whatif"} /\ ~browsing
    /\ ready(shown, id)
    /\ LET r == run(shown, id, f)
       IN /\ commit(r, id)
          /\ payoutFailed' = IF id = "cashout" THEN r.failed = "b2cPayout" ELSE payoutFailed
    /\ UNCHANGED <<browsing, playing>>

\* Shown while the last cash-out stopped at its payout; it takes the form as it is now.
Retry(f) ==
    /\ ~browsing /\ payoutFailed
    /\ LET r == retryPayout(shown, f.who, kes(f.amount))
       IN commit(r, "retry") /\ payoutFailed' = (r.failed = "b2cPayout")
    /\ UNCHANGED <<browsing, playing>>

\* A drill, in a world that was made ready for it.
Drill(id) ==
    /\ ~browsing
    /\ LET prep == ensureReady(shown)
       IN /\ prep.ok => ~Unsigned(prep.world, id)
          /\ IF prep.ok THEN commit(RunDrill(prep.world, id), id) ELSE commit(prep, id)
    /\ UNCHANGED <<browsing, playing, payoutFailed>>

\* A call through the overlay; it does not close the open step.
Console(f) ==
    /\ commit(PRIMS(shown, f), f.fn)
    /\ UNCHANGED <<browsing, playing, payoutFailed>>

\* Another step is opened: with the browse step goes its interval.
SetActive(toBrowse) ==
    /\ browsing # toBrowse
    /\ browsing' = toBrowse
    /\ playing' = FALSE
    /\ UNCHANGED <<hist, shown, payoutFailed, clicks, last>>

Undo ==
    /\ Len(hist) > 1
    /\ Clicked(SubSeq(hist, 1, Len(hist) - 1), "undo", TRUE, None)
    /\ UNCHANGED <<browsing, playing, payoutFailed>>

Reset ==
    /\ Clicked(<<createWorld>>, "reset", TRUE, None)
    /\ browsing' = FALSE /\ playing' = FALSE /\ payoutFailed' = FALSE

\* A play-all in which step id, at place at, has ended in r.
Advanced(s, id, at, r) ==
    [world |-> r.world, worlds |-> Committed(s.worlds, r.world), at |-> at,
     stop |-> ~r.ok, failed |-> r.failed,
     payout |-> IF id = "cashout" THEN r.failed = "b2cPayout" ELSE s.payout]

\* The next step of a play-all.
More(s, id, at) ==
    IF s.stop \/ waits(s.world, id) THEN s
    ELSE Advanced(s, id, at, runDefault(s.world, id, DefaultForms[id]))

\* A play-all from step first on, after each of its steps but the drills.
Played(start, first) ==
    LET played[i \in 0 .. Len(STEPS) - first] ==
            IF i = 0 THEN start ELSE More(played[i - 1], STEPS[first + i - 1], first + i - 1)
    IN played

\* Play all: the steps from the open one on, each with its form, up to a failure.
\* Not from the browse step before the contracts are deployed: a unit costs
\* nothing then, and serving a session that has no credit never ends.
PlayAll(first) ==
    LET w == IF shown.session.open THEN closeSession(shown) ELSE shown
        start == [world |-> w, worlds |-> hist, at |-> first, stop |-> FALSE,
                  failed |-> None, payout |-> payoutFailed]
        end == Played(start, first)[Len(STEPS) - first]
    IN /\ browsing <=> STEPS[first] = "browse"
       /\ browsing => shown.deployed
       /\ Clicked(end.worlds, "playall", ~end.stop, end.failed)
       /\ browsing' = (end.at < Len(STEPS) /\ STEPS[end.at + 1] = "browse")
       /\ playing' = (playing /\ browsing')
       /\ payoutFailed' = end.payout

-----------------------------------------------------------------------------
\* Browse: a session is opened, and its interval started.
Start(f) ==
    /\ browsing /\ ~shown.session.open /\ shown.deployed
    /\ LET r == openSession(shown, f.who, f.target, f.offline)
       IN commit(r, "browse") /\ playing' = (playing \/ r.ok)
    /\ UNCHANGED <<browsing, payoutFailed>>

\* Wrong: a session that is done is still served.
ServingOn == browsing /\ shown.session.open

Serving == browsing /\ shown.session.open /\ ~shown.session.done

PlayPause ==
    /\ Serving
    /\ Clicked(hist, "pause", TRUE, None)
    /\ playing' = ~playing
    /\ UNCHANGED <<browsing, payoutFailed>>

\* One receipt's worth at once.
OneMore ==
    /\ Serving
    /\ Clicked(replace(serve(shown, shown.params.receipt)), "more", TRUE, None)
    /\ UNCHANGED <<browsing, playing, payoutFailed>>

Skip ==
    /\ Serving
    /\ Clicked(replace(serve(shown, shown.session.target)), "skip", TRUE, None)
    /\ playing' = FALSE
    /\ UNCHANGED <<browsing, payoutFailed>>

Close ==
    /\ browsing /\ shown.session.open
    /\ Clicked(replace(closeSession(shown)), "close", TRUE, None)
    /\ playing' = FALSE
    /\ UNCHANGED <<browsing, payoutFailed>>

\* The interval: it stops itself, or serves a chunk from the world last shown.
Tick ==
    /\ playing
    /\ UNCHANGED <<clicks, browsing, payoutFailed, shown>>
    /\ IF Serving THEN hist' = replace(serve(shown, 1)) /\ playing' = playing
       ELSE playing' = FALSE /\ hist' = hist
    /\ last' = "done"

\* What a tick set is rendered.
Render ==
    /\ UNCHANGED <<clicks, browsing, playing, payoutFailed, hist, last>>
    /\ shown' = hist[Len(hist)]

Click ==
    \/ \E id \in StepIds : \E f \in Forms[id] : Run(id, f)
    \/ \E f \in Forms["cashout"] : Retry(f)
    \/ \E id \in DRILLS : Drill(id)
    \/ \E f \in ConsoleCalls : Console(f)
    \/ \E f \in Forms["browse"] : Start(f)
    \/ Undo \/ Reset \/ PlayPause \/ OneMore \/ Skip \/ Close
    \/ \E first \in PlayFrom : PlayAll(first)
    \/ \E toBrowse \in BOOLEAN : SetActive(toBrowse)

PgNext == Click \/ Tick \/ Render

-----------------------------------------------------------------------------
Worlds == {hist[i] : i \in DOMAIN hist}

\* Whatever is clicked, done, undone or tried by the wrong caller: in every
\* world the escrow holds what it owes, the balances add up to the supply, no
\* shilling is made or lost between the phones and the float, and nobody but
\* the thief of a drill is overdrawn.
BooksBalance ==
    \A w \in Worlds :
        /\ solvency(w) /\ conservation(w)
        /\ TotalOf(w.mpesa) + w.float = TotalOf(createWorld.mpesa)
        /\ \A h \in HOLDERS \ {"mallory"} : w.bal[h] >= 0
        /\ \A a \in ACTORS : w.deposits[a] >= 0 /\ w.earnings[a] >= 0 /\ w.mpesa[a] >= 0
        /\ w.float >= 0

\* No click acts on money that is out of date: between a tick and its render
\* the world shown and the newest differ in what was served and signed only.
ShownMoneyIsCurrent ==
    [shown EXCEPT !.session = NoSession, !.tickets = << >>]
        = [hist[Len(hist)] EXCEPT !.session = NoSession, !.tickets = << >>]

\* At the price it last served at, a node never has served beyond the credit it
\* granted, what the channel owed before included: it may carry one cap, no more.
CreditKept ==
    \A w \in Worlds :
        w.session.open /\ w.price = w.session.servedPrice =>
            w.session.bytes = 0 \/ sessionCredit(w) >= 0

\* The node has a receipt for all that it served but less than one receipt's
\* worth, and in the end for all of it, unless the phone could not sign.
ReceiptsKeepUp ==
    \A w \in Worlds :
        LET s == w.session
        IN s.open => /\ s.done \/ s.bytes - s.lastReceipt < w.params.receipt
                     /\ s.done /\ s.throttled # "phone" => s.bytes <= s.lastReceipt

GapOf(w) == w.float - w.supply

\* Every step that goes through keeps the peg, and a cash-out keeps it even
\* when the payout fails; the two drills that do not look at their top-up
\* (TopUpUnchecked) are only kept from losing KES.  A top-up that stops after
\* the payment leaves KES with the kiosk and no XKN for them.  KES are lost only where a burn fails
\* after its payout: when the bridge was revoked, or on a retry of a payout
\* that is not waiting any more (after an undo, or with another form).
PegKept ==
    [][hist' # hist /\ last' \notin {"manual", "back"} =>
          LET gap == GapOf(hist'[Len(hist')])
          IN /\ last' \in {"done", "b2cPayout"} => gap = GapOf(shown)
             /\ gap < GapOf(shown) => last' = "bridgeBurn"]_pgVars

Holdings(w, c) == w.bal[c] + w.deposits[c]

\* A client whose phone is lost is charged for what it signed before, receipts
\* (its channel moves), allowances and calls of its own (gas), and for nothing
\* else: no step, drill or stolen key takes anything it holds.
LostPhoneSpendsNothing ==
    [][\A c \in Clients :
          /\ ~shown.devices[c] /\ hist' # hist
          /\ last' # "back"
          /\ hist'[Len(hist')].channels[c] = shown.channels[c]
          /\ hist'[Len(hist')].eth[c] = shown.eth[c]
          /\ hist'[Len(hist')].allow[c] = shown.allow[c]
          => Holdings(hist'[Len(hist')], c) >= Holdings(shown, c)]_pgVars
=============================================================================
