# x-koin: a verification project

TLA+ models of x-koin, checked with TLC, and theorems about them proved with
TLAPS. x-koin sells metered network relaying: clients buy XKN (1 XKN = 1 KES) with
mobile money, deposit it in an escrow contract, and sign cumulative tickets for the
bytes a node relayed; node admins settle the tickets on chain, a protocol fee goes to
a treasury, and the treasury's beneficiary is paid out in KES by a worker.

## 1. The system

| part | code | state | operations |
|---|---|---|---|
| escrow | `contracts/src/xKoinEscrow.sol` | deposits, earnings, channels, nonces, price | deposit (with permit), withdraw (relayed), transfer, settle a batch, claim, set price |
| token | `contracts/src/xKoinToken.sol` and the OpenZeppelin ERC-20 under it | balances, allowances, permit nonces, bridges with a mint window | transfer, approve, permit, set bridge, mint, burn |
| treasury | `contracts/src/xKoinTreasury.sol` | fee, beneficiary, pending beneficiary and its activation time | fee on an amount, set fee, claim, queue, activate, cancel |
| payout worker | `gateway-api/app/payout/worker.py` | SQLite ledger: a row per transfer, a cursor | poll, order a payment, record the answer, retry; result and timeout callbacks; burn |
| on-ramp | `gateway-api/app/main.py`, `daraja/`, `jenga/`, `vouchers.py` | pending orders and vouchers, in memory | order a push payment, fulfil on callback: mint, issue a voucher |
| relay | `escrow_routes.py`, `settlement/chain.py` | none (reads the chain) | pre-check and send authorisations and batches |
| XKP protocol | `protocol/xkp/*.py`, `protocol/run_sim.py` | sessions, receipts, credit | chunk transfer over lossy media, receipts, tickets |
| firmware | `firmware/xkoin-gateway` | medium scores and quarantine, classifier counters, receiver buffer | pick a medium, classify, resynchronise, encode |
| gate | `docker/gate/server.mjs` | failed attempts per address; the sessions are signed cookies | post a password, check a cookie, log out, sweep, restart |
| playground | `web/src/demo` | a history of simulated worlds, the one shown, an open session | primitives, flows, twelve drills, a console; undo, reset, play-all; an interval |
| player, routes | `web/src/player`, `web/src/App.jsx` | scene, clock; the page mounted | frames, keys, a timer; navigation |
| rest of web, hardware, docs, scripts | `web`, `hardware`, `docs`, `scripts` | | presentation, test equipment, text |

How they interact: the on-ramp mints at the token as a bridge; clients deposit in the
escrow (the token moves the tokens); `settleTicketBatch` asks the treasury for the fee
and sends it tokens; the beneficiary sends XKN to the bridge account, the worker sees
the Transfer event, orders KES from Daraja, and the API process burns the XKN when
Daraja calls back. The worker and the API process share the SQLite ledger and nothing
else. On chain, transactions are atomic and totally ordered; off chain every `await`,
callback, crash and lost answer is an interleaving. The web site talks to none of this:
its playground is a simulation of the contracts, the kiosk and M-Pesa in the browser,
with arithmetic and state of its own; nginx asks the gate about each of its requests.

What makes each part correct, and what is hard about it, is listed line by line under
`hazards` in `PROJECT.json`.

## 2. The modules

| module | models | extends |
|---|---|---|
| `Accounting` | totals of a ledger, credit, debit | |
| `XknToken` | token | Accounting |
| `Treasury` | treasury | XknToken |
| `Escrow` | escrow, with the token it holds and the treasury it pays | Treasury |
| `TokenHistory` | the token with a history of its mints, burns and caps | XknToken |
| `TreasuryTimelock` | the treasury with the time of the last announcement, and whether its founder ever slept through a delay | Treasury |
| `FeePayout` | what the payout promises: paid at most once, burned at most once, burned only after paid | |
| `Payout` | worker, callbacks, Daraja | Accounting; `FeePayout` by refinement |
| `Onramp` | orders, provider callbacks, mint and voucher | Accounting |
| `Gate` | password gate, browsers and restarts | Accounting |
| `DemoWorld` | `engine.js`: the simulated world and its primitives | |
| `DemoFlows` | `flows.js`: flows, browse session, drills | DemoWorld |
| `Playground` | the page: history, clicks, interval, render | DemoFlows |
| `Player` | clock and scene player | |
| `Site` | the routes, composing `Playground` and `Player` | both |
| `Xkp` | an upload over XKP: client, server, the mediums between them | Accounting |
| `MCEscrow`, `MCToken`, `MCTreasury`, `MCPayout`, `MCOnramp`, `MCGate`, `MCSite`, `MCXkp` | small instances | |
| `AccountingProofs` | lemmas about totals | Accounting |
| `TreasuryProofs` | lemmas about the steps of token and treasury, theorems about both histories | TokenHistory, TreasuryTimelock |
| `EscrowProofs`, `PayoutProofs`, `OnrampProofs`, `XkpProofs`, `GateProofs`, `SiteProofs` | theorems about the module of that name | |

`Escrow` is the composition of the three contracts: its `Next` is the disjunction of
the escrow's own transactions, the token's and the treasury's, over the union of their
variables.

### Contracts

A transaction is one step and its guard is everything the code requires on its way; a
transaction that reverts changes nothing and is no step. `settleTicketBatch` is the
exception: `SettleOne` is one iteration of its loop, on a working copy `work` of the
escrow's storage, so that a batch may hold any tickets in any order without enumerating
sequences of tickets; `SettleTicketBatch` is the end of the function, which makes
`work` the chain's storage `book` and moves the fee; `RevertBatch` throws `work` away.
Nothing else runs while a batch does (`Idle`). A revert may happen at any ticket that
does not pass, as the next ticket of the batch may be any.

A signature is membership: `SignedTickets`, `SignedAuths` and `SignedPermits` are what
the owners of the keys signed, `Tickets`, `Auths` and `Permits` what anybody may submit.
EIP-712 encoding and ECDSA are thereby assumed to do their job.

`channels[ch].paid` adds up the `paidAmount` of the TicketSettled events of a channel;
it is a history the code emits and does not store.

### Payout

One block holds one transfer: a fee, one below the minimum (`held`) or one of somebody
else (`ignored`), each of one unit. The worker's steps go from one await or ledger write
to the next: `PollOnce`, `HandleTransfer` (insert the row and start the order),
`B2cAccepted` / `B2cRejected` (Daraja's answer), `RecordSent`, `FinishScan` (cursor, then
the retry query), `RetryFailed`, `EndPoll`. `WorkerAborts` is a crash or an exception
that ends the poll: `_fire_b2c` catches DarajaError and OSError, and the exceptions of
httpx are neither. The API process handles a callback in one step up to the burn, then
`BurnForPayout` (or `BurnRefused`, when the gas estimate reverts), then `RecordSettled`;
`ApiAborts` is a crash or a receipt timeout in between. Daraja is external: it accepts or refuses, decides
every accepted order, and calls back once, or repeatedly (`Redelivers`), and may pay
after it reported a timeout (`PaysLate`).

### On-ramp

A request is `PushAccepted` or `PushRejected` (the provider), then `RecordOrder`: the
`await` of the push is where a callback can come in between, for purchases in
`Overtaking`. A callback has no `await` and shuts out every other handler, so it is
`DropOrder`, `UnknownOrder` (404) or `TakeOrder`, and after the last `MintForFiat` and
`IssueVoucher`; `MintRaises`, `MintReverts`, `ReceiptTimesOut`, `AnswerLost` and
`Restart` are what may happen instead. `KeyOf` is the key of the order: Daraja's
CheckoutRequestID, or Jenga's reference, made of eight digits of the address
(`Prefix`, taken to tell clients apart) and the amount. The third callback, Jenga's
M-Pesa notification, does what the second does; no route sends its push.
The amount minted is the one in the callback, taken to be the amount of the purchase.

### Gate

A post is two steps, because `handlePost` awaits the body: `PostAdmitted` or
`PostRefused` (the limit is checked), then `PostFails` or `PostSucceeds`. `CREDENTIALS` is
the list a restart makes of its environment, as a function on the positions of the entries
that are kept (0 is the default's); `verify` and `matchPassword` are the loops over it that
keep the last match, the one at the largest position (`LastOf`). `failures` has, for each
address, how many attempts failed at each time, which is all the code's list of times is
used for. `Restart` takes any environment of `Files`, its passwords and its secret, and keeps nothing of the run before:
`SECRET` is the secret the environment sets or, where it sets none or one too short
(`NoSecret`), the random bytes of this run, which no other run has. Cookies stay with the
browsers, so they meet every later list and every later secret: they die with a random
secret and when a set one is rotated, and live again when theirs is set again. A token is
a record, HMAC and SHA-256 being injective. `guesses` is a history of the failures since
the last success, `opened` of how a browser got its cookie: the password it posted, the
secret that was set then, the run and the time. `Earned` says by these, and by the
environment as it was written, who should be let in; the properties compare `verify` with it.

What the model shows of the code beyond its properties: two names with one password share
a key, and the loop keeps the later one, so that only the later name has sessions
(`server.mjs:20-24` speaks of every name's own); a password or a secret changed and
changed back revives the cookies it signed until they expire, so that a rotation
(`server.mjs:23`) invalidates them for as long as the old secret stays away;
`GuessesBounded` is the limit plus the posts already on the way, and a success starts the
count anew.

### Playground, player, routes

A world is a record and a primitive an operator from a world to a world, so a flow is a
composition of operators (`Then` stops at the first failure and keeps what was done, as
`runSteps`), and a click is one step: `Run`, `Retry`, `Drill`, `Console`, `PlayAll`,
`Start`, `OneMore`, `Skip`, `Close`, `Undo`, `Reset`, `SetActive`. `hist.worlds` is the
history; `shown` is the world last rendered, from which handlers and the interval compute.
React renders a click's state before the next event; what the interval set is rendered
later (`Render`), so that `Tick` and clicks interleave over two versions of the world.
What repeats is a recursive function over its steps: the tickets of a batch (`Settled`), the
receipts of one serving (`Receipts`), the servings of a browse (`Browsed`), the steps of a
play-all (`Played`); each is the list of its intermediate results, and its caller takes the
last. `Player` has `Frame` and the timer `AutoAdvance` beside the keys; in `Site` a page that is
left loses its state and its timers.

Abstracted: signatures are records of who signed what; gas is counted, in calls, for the
clients alone (the other purses last longer than a demo); the two seconds a transaction
takes and the seconds served bytes take are left out, time moves in warps; the channels
are those of the one node, allowances those to escrow, kiosk and mallory; bytes come in
chunks of the interval's size and are priced so; the wording, the trace of blocks and raw
transactions, and the panels are left out. The forms hold what their fields offer
(`FormTypes`, `CallForms`); a negative number typed into a field of the console, which the
engine does not refuse, is left out.

`CreditKept` is about the price a session was last served at (`servedPrice`, a history), not
the price it was opened at: a price that goes down and, a day later, up again while a session
is open leaves it beyond its credit at the price it was opened at, a path longer than three
clicks, which TLC does not reach and the attempt to prove it did.

What the model shows of the code, none of it against a promise the properties make: a
stale "Retry payout" (after an undo, or with another form) and a bridge revoked between
transfer and burn pay KES that are not burned for, against `flows.js:123`; a top-up whose
mint the cap refuses leaves KES without XKN; a price raised in mid-session makes the byte
count go back; an expired pending ticket makes every batch revert (`relayBatch` sends the
newest of each channel); a click made between a tick and its render drops that tick's
service, receipts included; with a lost phone a skip to the end serves the whole target
unsigned, though the message says one receipt interval (`flows.js:258`); the rogue-bridge
drill mints a negative rest after the cap was lowered; drills that need a signature throw
while the phone is lost; play-all from the browse step before the contracts exist loops
for ever on 0/0 (`Playground.jsx:66`; `PlayAll` leaves that case out).

### XKP

`Xkp` is `sim.py` for one client and one server, as scenarios 1 and 2 of `run_sim.py` use
it. `pending` is `Node._pending` with, for each frame, where its last try is: on its way
(`air`), gone (`lost`, the frame or its answer), answered (`answer`), or waiting for a
medium. One such place is enough, because a timeout (line 213) is twice the way of the
frame and more, and the answer does not queue, so that no timer fires while a try or its
answer is under way; the try number the timer compares is read when it fires (line 214),
and would not tell tries apart. A frame tried again keeps its number, and the server its
set of numbers seen.

`Receive` is `_rx` and `_dispatch` of the server with the answer it sends, `JoinAnswered`,
`ChunkAnswered` and `ReceiptAnswered` what an answer makes the client do (start, count,
sign a receipt, fill the window, finish), `Timeout`, `Retry` and `WaitExpires` the timers,
`QuarantineEnds` and `Cut` what happens to a medium. Loss is decided where the code rolls
its dice: when a frame or an answer is sent. `Best` is any live medium, since the score
moves with every loss; bytes are counted in units of the smallest MTU.

What the model shows of the code: Law 3 as the specification has it (`spec.md:76`, twice
the interval, and `spec.md:50`, once) is kept by no line of `sim.py`, whose server goes on
serving while a receipt is lost and repeated, so `ExposureBounded` is about the states in
which the newest receipt has arrived; a final receipt given up after `MAX_TRIES` leaves the
transfer neither done nor failed; a chunk made for 1400 bytes goes as it is over a medium
of 128 (line 63).

## 3. The runs

| run | shows |
|---|---|
| `settle` | three signed series of tickets, one out of order and one expiring, and a forgery; a fee that changes, legal or not, and two prices: `TypeOK`, `ExactlyBacked`, `BatchCanPayItsFee`, `NoUnitPaidTwice`, `SettledUnitsAreSigned`, `CumulativeTicketsCompose` |
| `auth` | permits and authorisations over equal, following, expired and forged nonces, tokens sent to any address: `Solvent`, `FrontRunHarmless`, `NoUnauthorisedDebit` |
| `token` | caps moved and bridges stopped in mid-window: `TwiceCapPerDay`, `SupplyAccounted` |
| `timelock` | an owner who queues and re-queues, a founder who vetoes in time or not: `TimelockTypeOK`, `FounderKeepsSeat`, `AnnouncedInTime`, `FeesReachOnlyBeneficiary` |
| `payout` | two fees, callbacks repeated and in any order, no crash: the ledger against what Daraja saw (`LedgerTellsTheTruth`), liveness (`EveryFeeResolved`) and refinement of `FeePayout` (`PaysOnceBurnsOnce`) |
| `payout_faults` | crashes of both processes, lost answers, late payments: `TypeOK`, and what still holds (`OnlyFeesArePaid`, `BurnFollowsPayment`, `NoTransferSkipped`) |
| `onramp` | two rails, three purchases, callbacks repeated and early, two faults: `MintedOnce`, `MintsAreBacked`, `VoucherFollowsMint`, and without faults `EveryPaymentMinted` |
| `gate` | two browsers behind one address, two restarts among four environments with two secrets or none: `SessionIsEarned`, `OthersKeepTheirSessions`, `GuessesBounded` |
| `site` | three clicks of any kind with ticks and renders between them, a presentation in both modes, and the way from one page to the other: `BooksBalance`, `ShownMoneyIsCurrent`, `CreditKept`, `ReceiptsKeepUp`, `PegKept`, `LostPhoneSpendsNothing`, and liveness (`PlayingEnds`) |
| `xkp` | an upload of four units over a power line and a radio, three losses, every medium cut or not: `CountedOnce`, `ExposureBounded`, `DoneIsProven`, and liveness (`Completes`) |
| `double_pay` | (violation) what a lost answer breaks, against what `worker.py` says of itself |
| `double_mint` | (violation) the same purchase twice over Jenga, and a callback repeated: minted twice with one payment made, against `how-it-works.md:107` |

The violations are real disagreements between a text of the repository and its code;
`findings` in `PROJECT.json` quotes both. Five more that need no run of their own:
`xKoinToken.sol:16-17` speaks of the cap per rolling day, and the code keeps a window
opened by its first mint, two of which can meet in one day (`TwiceCapPerDay` is what holds);
a process that dies between a burn and its ledger write burns again when the callback is
repeated (worker.py:287; `BurnFollowsPayment` is what holds with faults);
`contracts/README.md:46` states solvency as an equality, which holds only while nobody
sends tokens to the escrow's address (`ExactlyBacked` names the condition, `Solvent`
needs none); a first payment order whose answer is lost leaves its row `pending`, which
no retry looks for, and is not counted as an attempt (`LedgerTellsTheTruth`
is checked without faults for that reason); and a callback that
overtakes the answer to its push finds no order (`EveryPaymentMinted` leaves it out).

Bounds, and why they are enough. Two clients and a node admin: a third client adds no
ledger the second does not have, and solvency is proved for any number. Batches of two
tickets (`MaxBatch`): the interesting pairs are a ticket and its successor, a ticket and
one it overtakes, tickets of two clients. `MaxTime` 2 beyond a clock that starts at
`Day` lets a ticket, a permit and an authorisation expire and a price change once.
The base of the fee is 4 instead of 10 000, so that floors of small amounts differ
from the floor of their sum. In `token` a day is two units of time, so that windows can
open in mid-day, over three days. In the payout runs two fees suffice for a stale retry
query and for a burn that takes another fee's XKN, and three kinds of transfer for the
scan; `MaxCalls`, `WorkerFaults` and `ApiFaults` bound orders and faults; `Span` exceeds
the chain, so a first start sees it all. `Later` stands for all blocks after the last
transfer: polls go on for ever. In `onramp` two purchases of one client go over the two
rails and two of one amount over Jenga, so that a key that dropped the client, or the
rail, would collide; two faults let a restart follow a mint that failed. In `gate` the
limit is two, so that two posts on the way at once can pass it; a second restart can bring
back what the first changed, a secret that was rotated or missing in between included; the
environments differ in passwords, order, skipped entries, a shared password and the secret
(one of two, or none). In `site` three clicks (`MaxClicks`) start from a
new world or from one that is deployed and funded, so that a cash-out that fails, an undo
and a retry, or a session, a console call and a play-all, are within reach; two worlds of
history (`MaxHistory`, 81 in the code) let one be undone and the oldest fall off; a chunk
costs 5 KES of a credit of 20, so that both the end of the target and the credit limit
stop a session; one client fills the forms, and the console makes 20 of its 29 calls, those
no button makes by itself, by their default callers. Three scenes of different length and
two presses take the player through every order of pause, seek, key and timer. In `xkp` the
power line carries two units in a frame and the radio one, so that a window of two chunks
changes size with the medium; a receipt falls due in mid-upload and at its end; three
losses are what a frame has tries, and two quarantine a medium, so that a frame can be
given up, and not only by a cut.

Fairness of `Payout!FairSpec` (run `payout`). Weak fairness of the worker
(`run_forever` polls for ever), of new blocks (a poll without one returns before
`retry_failed`), of each callback handler, and of Daraja's decision of each order. In
that run Daraja repeats callbacks: without, one that overtakes `RecordSent` is lost and
its row waits for ever, which is what `hazards` says of worker.py:242. Nothing is
assumed of faults. `Onramp!FairSpec` (run `onramp`): the await of a push ends, a callback
is delivered, a fulfilment that began goes on; buyers need not pay. `Site!FairSpec`
(run `site`): the browser's event loop runs what is due on the open page (intervals,
renders, frames, timers), and nothing is assumed of clicks. `Xkp!Spec`
(run `xkp`): `Sim.run` handles events as long as there are any; a cut is not owed to
anybody. The other runs assume no
fairness.

## 4. The proofs

All theorems hold for every value of the constants that satisfies the `ASSUME`s of the
modules (finitely many users, three distinct contract addresses, fee ceiling at most the
base, Nat-valued amounts), which TLC evaluates in the runs.

`AccountingProofs`: the total of a ledger is a cardinality (of the set of its units), so
what a credit or debit does to it follows from the library's facts on cardinality,
without induction. Of `TreasuryProofs` the first part: moving tokens preserves the total, a
fee is part of what it is taken from, and steps of token and treasury keep types.

`EscrowProofs`:

- `TypeCorrect`: `Spec => []TypeOK`. Amounts being naturals, it says that no subtraction
  of the contracts underflows. `TypeOK` is inductive: each guard pays for its debit, and
  `PaidFacts` for those of a ticket.
- `Solvency`, `Backing`, `BatchSucceeds`: `Solvent`, `ExactlyBacked` and
  `BatchCanPayItsFee` always hold. `Solvent` alone is not inductive: the last step of a
  batch pays the fee out of tokens that back `book`. `SolvencyInv` adds what makes that
  safe, `BatchBalances` (what `work` owes and the fee still unpaid are together what
  `book` owes), `IdleIsClean` (no trace of a batch between transactions), and `SeatOK`
  (the beneficiary is an address that may be named), which `Backing` needs because a
  sweep to the escrow would unbalance it. The single-step transactions go through one
  lemma, `OneStep`, about what they add to both sides.
- `UnitsPaidOnce` (`NoUnitPaidTwice`) and `SettledSigned` (`SettledUnitsAreSigned`), by
  `ChannelsInv`: a channel stands at a signed ticket and was paid at most its units times
  the highest price. It speaks of `work` and of `book`, which a revert brings back.
- `TicketsCompose` (`CumulativeTicketsCompose`): what is owed is linear in the units, and
  a payment capped by the deposit can be made in two parts (`PayAdds`).
- `DebitsAuthorised` (`NoUnauthorisedDebit`), an action property: per action, what it takes
  and by whose word. It needs `OnlySpent` (a batch never adds to a deposit, so that the step
  that reverts one never takes from it).

`TreasuryProofs`, about `TokenHistory` and `TreasuryTimelock`:

- `TwiceTheCap` (`TwiceCapPerDay`) for every sequence of mints, stops and caps. The invariant
  `WindowsInv` says of each bridge that its counter is what was minted in the window, that
  nothing is minted in a window older than a day, and that the day before the window saw at
  most one cap: a stretch of a day then meets at most two. `Day <= MaxTime` is assumed
  because the clock starts at `Day` and is bounded by `MaxTime`.
- `SupplyIsAccounted` (`SupplyAccounted`), by `SupplyInv`: each step adds the same to both
  sides.
- `TimelockTypeCorrect`; `NoSurpriseBeneficiary` (`AnnouncedInTime`, with the
  invariant that the activation time is the announcement plus the delay);
  `FounderCannotBeOusted` (`FounderKeepsSeat`, with the invariant that a pending change is
  never old enough while the founder has not slept); `OnlyBeneficiaryIsPaid`.

`PayoutProofs`, for any number of transfers, orders and faults. `PayoutInv` is `TypeOK`
with three parts that make it inductive: `WorkerOK` (what the worker orders, records or
has to retry is a fee, and a scan stays on the chain), `OrdersOK` (every order is for a fee
and a conversation belongs to the row it is recorded in) and `BurnsOK` (a success is reported
of a paid order only, and what the callback process is about to burn for was paid). One
lemma per process and per part shows that a step keeps it.

- `PayoutTypes`, `NeverRedirected` (`OnlyFeesArePaid`) and `NeverBurnedUnpaid`
  (`BurnFollowsPayment`) follow from it; the last two count orders, so finiteness of
  the orders (`OrdersFinite`) comes from the library's facts on cardinality.
- `NothingSkipped` (`NoTransferSkipped`) needs `ScanOK` besides (the transfers of a scan in
  progress that it has passed have their rows) and `Span >= Later`: that a first start
  looks back to the first block. Without it the claim is false, as `hazards` says.
- `PaidOnce` (`PaidAtMostOnce`, which the run `double_pay` shows broken) under
  `NoLatePayment`: the worker does not abort and Daraja does not pay what it reported as
  expired. Faults of the API, repeated and overtaking callbacks are allowed. `LiveInv` is
  why: a row has at most one order that is not dead (`OneAlive`), bad news is of a dead order
  (`BadNewsOK`), and a payment is ordered, or about to be retried, only when all earlier
  orders for its row are dead (`FreshOK`).
- `PayoutImplementsFeePayout` (`PaysOnceBurnsOnce`, the safety of the refinement) under
  `NoFaults`, which forbids faults of the API as well: a crash between the burn and its ledger
  write burns twice. `BurnedOK` says that what is burned is what the ledger has settled, or
  what the API is about to write.
- `LedgerIsTrue` (`LedgerTellsTheTruth`) under the same, and `MaxAttempts # 0` (5 in
  `config.py`; 0 would order once all the same). `AttemptsOK` relates the orders of a row to
  its attempts at every place of the worker, `RowsInTime` says that only mined transfers have
  rows.


`XkpProofs`, for any mediums, window, interval, tries and losses: `DoneMeansProven`
(`DoneIsProven`) and `OnlySignedIsProven`. `XkpInv` is the types of the link (`TypesOK`:
numbers in use are at most `seq`, so a new frame was never seen), `AnswersOK` (an answer
means that the server has seen the frame, and nothing but the request to join travels
before the client is admitted) and `ReceiptsOK` (a
receipt is over no more than was acknowledged, and one that was seen is proven): together
they say what the server holds when the answer to the final receipt arrives.
`EveryChunkOnce` (`CountedOnce`) and `ExposureIsBounded` (`ExposureBounded`) are about sums
over the frames in flight. `CountInv` adds `LinkOK` (the client signs less than one interval
after its last receipt, a request to join is alone on the link, and `outstanding` counts at
least the chunks that are pending) and `CountsOK` (what the server has seen of the pending
chunks is delivered and not yet acknowledged, the rest is sent and not yet delivered; a chunk
that was given up is missing from both sums).

`OnrampProofs`, through lost answers, reverted mints, restarts and repeated callbacks:
`VoucherBehindMint` (`VoucherFollowsMint`) for all keys, by `OnrampInv` (orders lie under
their keys, the handler works on an order that was paid, and mints go to its buyer);
`MintedOncePerPayment` (`MintedOnce`) and `MintsBacked` (`MintsAreBacked`) under
`DistinctKeys`, that no two purchases share a key, by `OnceInv` (a purchase that was minted
for, or is being, has left the store, and its request is over). Daraja's keys are distinct;
for Jenga the code does not establish it, and the run `double_mint` shows what happens.

`GateProofs`, for any lists of passwords, any number of browsers and addresses and any limits:

- `EarnedSessions` (`SessionIsEarned`) and `KeptSessions` (`OthersKeepTheirSessions`), for any
  restarts with any secrets, by `CookieOK`: the key of a cookie was derived from the password
  posted for it and from the secret of the run that signed it, and it ends after a lifetime.
  Two runs share a secret only if both set it, to the same (`SecretsDiffer`, `SameSecret`). `ListedIsGiven` and `GivenIsListed` say that the list holds what the
  environment gives and nothing else; passwords that differ make the last match the only one.
- `GuessesAreBounded` (`GuessesBounded`), which is inductive with the types: a post that is let
  in finds the limit not reached, so that there is room for it and for every other browser
  of the address; a failure moves one from those on the way to those counted; time and the
  sweep only forget, and forget nothing that a later look would count (`RecentTwice`).

`SiteProofs`, for any parameters, prices and amounts in the forms, any calls of the console
by any caller, any length of history and number of clicks, and a play-all from any step:
`BooksAlwaysBalance` (`BooksBalance`), `ClicksActOnCurrentMoney` (`ShownMoneyIsCurrent`),
`CreditIsKept` (`CreditKept`), `ReceiptsAlwaysKeepUp` (`ReceiptsKeepUp`), and the action
properties `StepsKeepThePeg` (`PegKept`) and `NoPhoneNoSpending` (`LostPhoneSpendsNothing`).

- `WorldOK` is what every world is: `IsWorld` (its fields have their types, and nobody but
  mallory is overdrawn), `Money` (the escrow's balance is what it owes, the balances are the
  supply, phones and float are what there was at first), `Deployment` (before the contracts
  exist there is no money on the chain, and nobody owns them; after, a price and a
  beneficiary) and `SessionOK` (what was served is within the credit at the price it was
  served at, and less than a receipt ahead of the last receipt). `Deployment` is there
  because the page's handlers refuse a world without contracts and the console does not:
  its calls must fail, or move nothing, for want of an owner or of a balance.
- One lemma per primitive, flow and drill says that it takes such a world to such a world,
  whether it succeeds or stops half-way, and adds what it does to the rest: `Spared` (a client
  without its phone is charged for gas, receipts and allowances only) and what becomes
  of the gap between float and supply (`PegSame`, `GapOf`). They compose: `Calm` (the peg stands whatever happens) is kept by `Then`, `Fine`
  adds the flows that may stop between a payment and its mint or burn, and `Lawful` is what a
  drill owes. `Charged` orders gas, channel and allowance, so that the claim, which speaks of
  clients for whom none of these moved, can be carried through a sequence of calls.
- `Inv` is inductive: every world of the history is `WorldOK`, so is the one shown, and the two
  that matter to a click, the shown and the newest, differ in session and tickets only.
  `NextSafe` shows that a step keeps `Inv` and makes the claims of the two action properties
  (`StepClaims`), one lemma per kind of click.
- Batches, receipts, servings and play-alls are recursive functions. The library's rules of
  induction take an operator and cannot be used, but what is to be shown of all `0 .. n` is a
  set, and a set without a least counterexample is all of it: `SetInduction`, from the
  theorem that the naturals are well founded.

That the fields named by a call change and no other is said by `Only(w, x, F)`, which spares
the proofs the expansion of records of 27 fields.

The proof changed the model twice: `Outcome` had cases that overlap, where TLA+ may choose any
and TLC the first, and is now a sequence of conditions; and `CreditKept` is stated as above.

Only model-checked: `FrontRunHarmless`, which is about ENABLED, and liveness under fairness
(`EveryFeeResolved`, `EveryPaymentMinted`, `Completes`, `PlayingEnds`). Both are beyond the
provers at hand.

## 5. Not modelled, and why

In the modelled contracts: ownership transfer (OpenZeppelin's, `Owner` is fixed), claims
of other tokens, the infinite allowance that transferFrom does not decrease, widths
(`uint128` units, `uint64` sequences: Solidity 0.8 reverts on overflow, and a revert is
no step), reentrancy (the token calls nobody), a zero node admin (its earnings can never be claimed).
In the payout: amounts (one unit each, so dust is not counted), the dry-run mode, the
operator's view. In the playground: parameters changed in the cost overlay, negative amounts
in the console, the 0/0 loop named above; calls of the console by other than their default
callers are proved about but not in the run. In the gate: the
parsing of bodies, cookies and forwarded addresses, and a lifetime (`XKOIN_GATE_TTL_HOURS`)
that a restart changes. In the protocol: the heartbeat, other
clients (each has its own numbers and totals), the times of frames beyond their order.

Parts without protocol state: the pin, deployment, codecs, drivers, hardware, scripts.

By lines most of this repository is JavaScript, some 33 000 lines, and most of those are
content: decks and their scenes, price and device tables, blueprints, a glossary, recorded
traces, page layout and styles. There is nothing in them a state machine could say. The
JavaScript that decides anything (the playground's engine, flows, steps and page, the
player, the routes, the gate) is modelled, and that is a few hundred definitions' worth of
lines, well under a third of the whole. The contracts, the payout worker and the on-ramp,
which carry the money, are Solidity and Python.

## 6. Plan

Done: the modules above, and the proofs of section 4. Next, in this order:

1. `EscrowRelay`: pre-check and send of `escrow_routes.py` and `/settlement/relay`
   against a moving chain (composes with Escrow).
2. The relay hop of scenario 3 over two copies of `Xkp`, and the composition of receipts,
   tickets (`settle.py`) and `Escrow`; vouchers at admission.
3. `Medium` (scores and quarantine, 32-bit time), `PlcRx` (resynchronisation of the
   power-line receiver), classifier counters.
4. `DemoChain`: the playground's world shown to refine `Escrow` call by call.
5. Composition of `Treasury` and `Payout`: a beneficiary that changes while the worker
   runs.
