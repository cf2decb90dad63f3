------------------------------- MODULE Payout -------------------------------
(***************************************************************************)
(* gateway-api/app/payout/worker.py: the fee payout.  Three parties share  *)
(* one ledger of rows, one row per Transfer into the bridge:               *)
(*                                                                         *)
(*   worker  the polling process: reads transfers, orders B2C payments     *)
(*           from Daraja, records the answer, retries what failed;         *)
(*   api     the process that serves Daraja's callbacks (app/main.py) and  *)
(*           burns what was paid out;                                      *)
(*   Daraja  the mobile money service: external.                           *)
(*                                                                         *)
(* Each process runs one handler at a time; a step reaches from one await, *)
(* remote call or ledger write that the other process can see to the next. *)
(***************************************************************************)
EXTENDS Accounting, Sequences

CONSTANTS
    N,              \* block b \in 1 .. N holds one transfer into the bridge
    Kind,           \* what it is: "fee", "small" or "foreign"
    Span,           \* blocks scanned by one poll
    MaxAttempts,    \* payout_max_attempts
    NoCursor,       \* the cursor of a new ledger
    Redelivers,     \* Daraja repeats callbacks
    PaysLate,       \* Daraja may pay what it reported as timed out
    WorkerFaults,   \* bound: crashes and uncaught exceptions of the worker
    ApiFaults,      \* bound: crashes and uncaught exceptions of a callback
    MaxCalls        \* bound: payment orders Daraja accepts

Transfers == 1 .. N
Later == N + 1      \* stands for every block after the last transfer
Fees == {k \in Transfers : Kind[k] = "fee"}

ASSUME PayoutConstants ==
    /\ N \in Nat /\ Kind \in [Transfers -> {"fee", "small", "foreign"}]
    /\ Span \in Nat /\ MaxAttempts \in Nat /\ MaxCalls \in Nat
    /\ NoCursor \notin Nat
    /\ Redelivers \in BOOLEAN /\ PaysLate \in BOOLEAN
    /\ WorkerFaults \in Nat /\ ApiFaults \in Nat

VARIABLES
    mined,      \* the confirmed head of the chain
    cursor,     \* ledger: last block scanned
    rows,       \* ledger: the row of each transfer
    worker,     \* where the polling process is
    calls,      \* payment orders Daraja accepted; the index is ConversationID
    mail,       \* callbacks Daraja has to deliver
    api,        \* where the callback handler is
    burned,     \* history: burn transactions mined for each transfer
    faults      \* history: faults so far

ledger == <<cursor, rows>>
vars == <<mined, cursor, rows, worker, calls, mail, api, burned, faults>>

Status == {"none", "ignored", "held", "pending", "b2c_sent", "b2c_failed",
           "b2c_timeout", "exhausted", "settled"}

\* Wrong: an order not yet answered is retried; a timed out one is not.
RetryableInFlight == {"b2c_failed", "b2c_timeout", "b2c_sent"}
RetryableFailedOnly == {"b2c_failed"}

\* The statuses retry_failed looks for.
Retryable == {"b2c_failed", "b2c_timeout"}
NoConversation == 0

Asleep == [pc |-> "sleep", next |-> 0, upto |-> 0, todo |-> {},
           back |-> "scan", key |-> 0, attempts |-> 0, conv |-> NoConversation]
IdleApi == [pc |-> "idle", key |-> 0]

Init ==
    /\ mined = 0
    /\ cursor = NoCursor
    /\ rows = [k \in Transfers |->
                 [status |-> "none", attempts |-> 0, conv |-> NoConversation]]
    /\ worker = Asleep
    /\ calls = << >>
    /\ mail = {}
    /\ api = IdleApi
    /\ burned = [k \in Transfers |-> 0]
    /\ faults = [worker |-> 0, api |-> 0]

-----------------------------------------------------------------------------
\* The chain grows; blocks after the last transfer keep coming for ever.
Mine ==
    /\ mined < Later
    /\ mined' = mined + 1
    /\ UNCHANGED <<ledger, worker, calls, mail, api, burned, faults>>

Lesser(m, n) == IF m <= n THEN m ELSE n

\* Where a poll starts: behind the cursor, or Span blocks back in a new ledger.
Start ==
    IF cursor = NoCursor THEN IF mined > Span THEN mined - Span ELSE 0
                         ELSE Lesser(cursor + 1, Later)

\* Wrong: the cursor is saved before the blocks are scanned.
PollOnceSavesFirst ==
    /\ worker.pc = "sleep"
    /\ mined >= Start
    /\ worker' = [worker EXCEPT !.pc = "scan", !.next = Start,
                                !.upto = Lesser(mined, Start + Span)]
    /\ cursor' = Lesser(mined, Start + Span)
    /\ UNCHANGED <<mined, rows, calls, mail, api, burned, faults>>

PollOnce ==
    /\ worker.pc = "sleep"
    /\ mined >= Start
    /\ worker' = [worker EXCEPT !.pc = "scan", !.next = Start,
                                !.upto = Lesser(mined, Start + Span)]
    /\ UNCHANGED <<mined, ledger, calls, mail, api, burned, faults>>

\* The worker is about to await the payment order of row k's next attempt.
Firing(k, back) ==
    [worker EXCEPT !.pc = "send", !.key = k, !.back = back,
                   !.attempts = rows[k].attempts + 1]

\* Wrong: dust is paid out as well.
PayableDust(k) == Kind[k] \in {"fee", "small"}

\* From the treasury's beneficiary, and enough for a B2C payment.
Payable(k) == Kind[k] = "fee"

\* A transfer already in the ledger is skipped; a new one gets its row.
HandleTransfer ==
    LET k == worker.next
        known == k \notin Transfers \/ rows[k].status # "none"
        next == IF ~known /\ Payable(k) THEN Firing(k, "scan") ELSE worker
        status == IF Payable(k) THEN "pending"
                  ELSE IF Kind[k] = "small" THEN "held" ELSE "ignored"
    IN
    /\ worker.pc = "scan"
    /\ k <= worker.upto
    /\ rows' = IF known THEN rows ELSE [rows EXCEPT ![k].status = status]
    /\ worker' = [next EXCEPT !.next = k + 1]
    /\ UNCHANGED <<mined, cursor, calls, mail, api, burned, faults>>

\* Wrong: the cursor is the next block to scan.
FinishScanPast ==
    /\ worker.pc = "scan"
    /\ worker.next > worker.upto
    /\ cursor' = worker.next
    /\ worker' = [worker EXCEPT !.pc = "retry",
                    !.todo = {k \in Transfers : rows[k].status \in Retryable}]
    /\ UNCHANGED <<mined, rows, calls, mail, api, burned, faults>>

\* All transfers of the poll are handled: the cursor moves, retries begin.
FinishScan ==
    /\ worker.pc = "scan"
    /\ worker.next > worker.upto
    /\ cursor' = worker.upto
    /\ worker' = [worker EXCEPT !.pc = "retry",
                    !.todo = {k \in Transfers : rows[k].status \in Retryable}]
    /\ UNCHANGED <<mined, rows, calls, mail, api, burned, faults>>

\* The rows to retry were read before the first await of the loop.
Oldest(S) == {k \in S : \A l \in S : k <= l}

OutOfAttempts(k) == rows[k].attempts >= MaxAttempts

RetryFailed ==
    /\ worker.pc = "retry"
    /\ \E k \in Oldest(worker.todo) :
         LET over == OutOfAttempts(k)
             next == IF over THEN worker ELSE Firing(k, "retry")
         IN /\ rows' = IF over THEN [rows EXCEPT ![k].status = "exhausted"] ELSE rows
            /\ worker' = [next EXCEPT !.todo = @ \ {k}]
    /\ UNCHANGED <<mined, cursor, calls, mail, api, burned, faults>>

EndPoll ==
    /\ worker.pc = "retry"
    /\ worker.todo = {}
    /\ worker' = Asleep
    /\ UNCHANGED <<mined, ledger, calls, mail, api, burned, faults>>

Resume == [worker EXCEPT !.pc = worker.back]

\* Daraja accepts the order; its acknowledgement is on the way to the worker.
B2cAccepted ==
    /\ worker.pc = "send"
    /\ Len(calls) < MaxCalls
    /\ calls' = Append(calls, [key |-> worker.key, state |-> "accepted"])
    /\ worker' = [worker EXCEPT !.pc = "ack", !.conv = Len(calls) + 1]
    /\ UNCHANGED <<mined, ledger, mail, api, burned, faults>>

\* Daraja refuses the order: DarajaError, caught.
B2cRejected ==
    /\ worker.pc = "send"
    /\ rows' = [rows EXCEPT ![worker.key].status = "b2c_failed",
                            ![worker.key].attempts = worker.attempts]
    /\ worker' = Resume
    /\ UNCHANGED <<mined, cursor, calls, mail, api, burned, faults>>

\* Wrong: an accepted order counts as paid.
RecordSentSettles ==
    /\ worker.pc = "ack"
    /\ rows' = [rows EXCEPT ![worker.key] =
                  [status |-> "settled", attempts |-> worker.attempts,
                   conv |-> worker.conv]]
    /\ worker' = Resume
    /\ UNCHANGED <<mined, cursor, calls, mail, api, burned, faults>>

RecordSent ==
    /\ worker.pc = "ack"
    /\ rows' = [rows EXCEPT ![worker.key] =
                  [status |-> "b2c_sent", attempts |-> worker.attempts,
                   conv |-> worker.conv]]
    /\ worker' = Resume
    /\ UNCHANGED <<mined, cursor, calls, mail, api, burned, faults>>

\* The process dies, or an exception that is neither DarajaError nor OSError
\* (httpx's timeouts and transport errors) ends the poll.
WorkerAborts ==
    /\ worker.pc # "sleep"
    /\ faults.worker < WorkerFaults
    /\ faults' = [faults EXCEPT !.worker = @ + 1]
    /\ worker' = Asleep
    /\ UNCHANGED <<mined, ledger, calls, mail, api, burned>>

-----------------------------------------------------------------------------
\* Daraja decides call c and calls back.
Decide(c, from, to, news) ==
    /\ calls[c].state \in from
    /\ calls' = [calls EXCEPT ![c].state = to]
    /\ mail' = mail \cup {[conv |-> c, news |-> news]}
    /\ UNCHANGED <<mined, ledger, worker, api, burned, faults>>

DarajaPays(c) ==
    Decide(c, IF PaysLate THEN {"accepted", "expired"} ELSE {"accepted"},
           "paid", "success")
DarajaFails(c) == Decide(c, {"accepted"}, "failed", "failure")
DarajaTimesOut(c) == Decide(c, {"accepted"}, "expired", "timeout")

-----------------------------------------------------------------------------
\* The row a callback is about, as by_conversation finds it.
Matches(m, k) == k \in Transfers /\ rows[k].conv = m.conv
Known(m) == \E k \in Transfers : Matches(m, k) /\ rows[k].status # "settled"

Received(m) == mail' = IF Redelivers THEN mail ELSE mail \ {m}

\* No row, or one that is settled: the callback is acknowledged and dropped.
DropCallback(m) ==
    /\ api.pc = "idle"
    /\ ~Known(m)
    /\ Received(m)
    /\ UNCHANGED <<mined, ledger, worker, calls, api, burned, faults>>

\* A failure or a timeout makes the row retryable.
HandleBadNews(m, k) ==
    /\ api.pc = "idle"
    /\ m.news \in {"failure", "timeout"}
    /\ Matches(m, k) /\ rows[k].status # "settled"
    /\ rows' = [rows EXCEPT ![k].status =
                  IF m.news = "failure" THEN "b2c_failed" ELSE "b2c_timeout"]
    /\ Received(m)
    /\ UNCHANGED <<mined, cursor, worker, calls, api, burned, faults>>

\* Wrong: the ResultCode is not looked at.
HandleB2cResultAny(m, k) ==
    /\ api.pc = "idle"
    /\ Matches(m, k) /\ rows[k].status # "settled"
    /\ api' = [pc |-> "burning", key |-> k]
    /\ Received(m)
    /\ UNCHANGED <<mined, ledger, worker, calls, burned, faults>>

\* Success: first the burn goes out ...
HandleB2cResult(m, k) ==
    /\ api.pc = "idle"
    /\ m.news = "success"
    /\ Matches(m, k) /\ rows[k].status # "settled"
    /\ api' = [pc |-> "burning", key |-> k]
    /\ Received(m)
    /\ UNCHANGED <<mined, ledger, worker, calls, burned, faults>>

\* ... it is mined if the bridge holds enough ...
Arrived == Cardinality({k \in Transfers : k <= mined})

BurnForPayout ==
    /\ api.pc = "burning"
    /\ Total(burned) < Arrived
    /\ burned' = Credit(burned, api.key, 1)
    /\ api' = [api EXCEPT !.pc = "burned"]
    /\ UNCHANGED <<mined, ledger, worker, calls, mail, faults>>

\* ... else build_transaction raises at the gas estimate and the handler ends ...
BurnRefused ==
    /\ api.pc = "burning"
    /\ Total(burned) >= Arrived
    /\ api' = IdleApi
    /\ UNCHANGED <<mined, ledger, worker, calls, mail, burned, faults>>

\* ... and then the row is settled.
RecordSettled ==
    /\ api.pc = "burned"
    /\ rows' = [rows EXCEPT ![api.key].status = "settled"]
    /\ api' = IdleApi
    /\ UNCHANGED <<mined, cursor, worker, calls, mail, burned, faults>>

\* The callback process dies, or waiting for the burn's receipt times out.
ApiAborts ==
    /\ api.pc # "idle"
    /\ faults.api < ApiFaults
    /\ faults' = [faults EXCEPT !.api = @ + 1]
    /\ api' = IdleApi
    /\ UNCHANGED <<mined, ledger, worker, calls, mail, burned>>

-----------------------------------------------------------------------------
WorkerStep ==
    \/ PollOnce \/ HandleTransfer \/ FinishScan \/ RetryFailed \/ EndPoll
    \/ B2cAccepted \/ B2cRejected \/ RecordSent

DarajaStep == \E c \in DOMAIN calls : DarajaPays(c) \/ DarajaFails(c) \/ DarajaTimesOut(c)

Handle(m) ==
    DropCallback(m) \/ \E k \in Transfers : HandleBadNews(m, k) \/ HandleB2cResult(m, k)

ApiStep == BurnForPayout \/ BurnRefused \/ RecordSettled

Next ==
    \/ Mine
    \/ WorkerStep
    \/ DarajaStep
    \/ \E m \in mail : Handle(m)
    \/ ApiStep
    \/ WorkerAborts
    \/ ApiAborts

Spec == Init /\ [][Next]_vars

\* Callbacks there can ever be.
Mail == [conv : 1 .. MaxCalls, news : {"success", "failure", "timeout"}]

(***************************************************************************)
(* Fairness: blocks arrive; run_forever polls for ever and every await of  *)
(* the worker ends; Daraja decides each order and delivers each callback;  *)
(* a handler that began goes on.  Nothing is assumed of faults.            *)
(***************************************************************************)
FairSpec ==
    /\ Spec
    /\ WF_vars(Mine) /\ WF_vars(WorkerStep) /\ WF_vars(ApiStep)
    /\ \A c \in 1 .. MaxCalls :
         WF_vars(c \in DOMAIN calls /\ (DarajaPays(c) \/ DarajaFails(c) \/ DarajaTimesOut(c)))
    /\ \A m \in Mail : WF_vars(m \in mail /\ Handle(m))

-----------------------------------------------------------------------------
Row == [status : Status, attempts : Nat, conv : 0 .. MaxCalls]
Worker == [pc : {"sleep", "scan", "send", "ack", "retry"}, next : Nat, upto : Nat,
           todo : SUBSET Transfers, back : {"scan", "retry"},
           key : 0 .. N, attempts : Nat, conv : 0 .. MaxCalls]
Call == [key : Transfers, state : {"accepted", "paid", "failed", "expired"}]

\* The ledger's rows, the processes and Daraja's book have their types.
TypeOK ==
    /\ mined \in 0 .. Later
    /\ cursor \in (0 .. Later) \cup {NoCursor}
    /\ rows \in [Transfers -> Row]
    /\ worker \in Worker
    /\ calls \in Seq(Call) /\ Len(calls) <= MaxCalls
    /\ mail \subseteq Mail
    /\ api \in [pc : {"idle", "burning", "burned"}, key : 0 .. N]
    /\ burned \in [Transfers -> Nat]
    /\ faults \in [worker : Nat, api : Nat]

\* Orders Daraja accepted, and payments it made, for transfer k.
Orders(k) == Cardinality({c \in DOMAIN calls : calls[c].key = k})
Paid(k) == Cardinality({c \in DOMAIN calls :
                          calls[c].key = k /\ calls[c].state = "paid"})

\* Never redirected: KES leave only for transfers the beneficiary made to the
\* bridge, above the minimum, whatever crashes, repeats or comes late.
OnlyFeesArePaid == \A k \in Transfers : Orders(k) > 0 => Kind[k] = "fee"

\* Burn timing: no XKN is burned, or about to be, for a transfer whose KES
\* were not paid out, whatever crashes, repeats or comes late.
BurnFollowsPayment ==
    \A k \in Transfers :
        burned[k] > 0 \/ (api.pc # "idle" /\ api.key = k) => Paid(k) > 0

\* The cursor never runs ahead of the ledger: a transfer the worker will not
\* scan again has its row, through crashes at any point of a poll.
NoTransferSkipped ==
    cursor # NoCursor => \A k \in Transfers : k <= cursor => rows[k].status # "none"

\* A transfer is paid out at most once.
PaidAtMostOnce == \A k \in Transfers : Paid(k) <= 1

\* A settled row says what happened: paid once and burned once.  The attempts
\* counted are never fewer than the orders Daraja got, which max_attempts bounds.
\* The bridge still holds the XKN of every fee that is not settled, and between
\* polls no row is in a state that neither a retry nor a callback takes it out of.
LedgerTellsTheTruth ==
    /\ \A k \in Transfers : rows[k].status = "settled" => Paid(k) = 1 /\ burned[k] = 1
    /\ worker.pc = "sleep" => \A k \in Transfers :
          Orders(k) <= rows[k].attempts /\ rows[k].status # "pending"
    /\ \A k \in Transfers : Orders(k) <= MaxAttempts
    /\ Arrived - Total(burned) >= Cardinality({k \in Fees : k <= mined /\ burned[k] = 0})

\* Every fee that arrives is settled in the end, or given up as exhausted.
EveryFeeResolved ==
    \A k \in Transfers : k \in Fees /\ mined >= k ~> rows[k].status \in {"settled", "exhausted"}

\* Payout, without faults, does what FeePayout promises.
Ideal == INSTANCE FeePayout WITH
    Fees <- Transfers,
    paid <- [k \in Transfers |-> Paid(k)]
PaysOnceBurnsOnce == Ideal!Spec
=============================================================================
