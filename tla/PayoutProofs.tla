---------------------------- MODULE PayoutProofs ----------------------------
(***************************************************************************)
(* What the fee payout guarantees whatever crashes, repeats, is lost or    *)
(* comes late, for any number of transfers, orders and faults; and what it *)
(* guarantees besides when nothing fails: a worker that does not abort and *)
(* a Daraja that does not pay late pay at most once, and without faults of *)
(* the API the payout implements FeePayout and its ledger is true.         *)
(***************************************************************************)
EXTENDS Payout, AccountingProofs, TLAPS

-----------------------------------------------------------------------------
\* What the types do not say of the worker: while it orders or records a
\* payment it does so for a fee, and the fees to retry are fees; and of a scan,
\* that it stays on the chain.
AtOrder == worker.pc \in {"send", "ack"}
Scanning == worker.pc = "scan" \/ (AtOrder /\ worker.back = "scan")

WorkerOK ==
    /\ AtOrder => worker.key \in Fees
    /\ worker.todo \subseteq Fees
    /\ Scanning => worker.upto <= Later

\* Every order is for a fee, and a conversation belongs to the row it is in.
OrdersOK ==
    /\ \A c \in DOMAIN calls : calls[c].key \in Fees
    /\ \A k \in Transfers :
         /\ rows[k].status \in Retryable => k \in Fees
         /\ rows[k].conv # 0 => rows[k].conv \in DOMAIN calls /\ calls[rows[k].conv].key = k
    /\ worker.pc = "ack" =>
         worker.conv \in DOMAIN calls /\ calls[worker.conv].key = worker.key

HasPaid(k) == \E c \in DOMAIN calls : calls[c].key = k /\ calls[c].state = "paid"

\* A success is reported of a paid order only, and burned for such a one only.
BurnsOK ==
    /\ \A m \in mail : m.conv \in DOMAIN calls
    /\ \A m \in mail : m.news = "success" => calls[m.conv].state = "paid"
    /\ api.pc # "idle" => api.key \in Transfers /\ HasPaid(api.key)
    /\ \A k \in Transfers : burned[k] > 0 => HasPaid(k)

PayoutInv == TypeOK /\ WorkerOK /\ OrdersOK /\ BurnsOK

LEMMA PayoutInit == Init => PayoutInv
<1> SUFFICES ASSUME Init PROVE PayoutInv
  OBVIOUS
<1> USE PayoutConstants DEF Init
<1>1. TypeOK
  BY DEF TypeOK, Later, Row, Worker, Status, Asleep, IdleApi, NoConversation, Call, Mail
<1>2. WorkerOK
  BY DEF WorkerOK, AtOrder, Scanning, Asleep
<1>3. OrdersOK
  BY DEF OrdersOK, Asleep, Retryable, NoConversation
<1>4. BurnsOK
  BY DEF BurnsOK, IdleApi
<1>5. QED BY <1>1, <1>2, <1>3, <1>4 DEF PayoutInv

-----------------------------------------------------------------------------
\* A row with another status is a row, and the other rows stay as they are.
LEMMA RowsUpdated ==
  ASSUME rows \in [Transfers -> Row], NEW k, NEW status \in Status,
         rows' = [rows EXCEPT ![k].status = status]
  PROVE  /\ rows' \in [Transfers -> Row]
         /\ \A l \in Transfers :
              /\ rows'[l].attempts = rows[l].attempts /\ rows'[l].conv = rows[l].conv
              /\ rows'[l].status = IF l = k THEN status ELSE rows[l].status
<1>1. ASSUME NEW l \in Transfers
      PROVE  /\ rows'[l] \in Row
             /\ rows'[l].attempts = rows[l].attempts /\ rows'[l].conv = rows[l].conv
             /\ rows'[l].status = IF l = k THEN status ELSE rows[l].status
  BY DEF Row
<1>2. rows' \in [Transfers -> Row]
  BY <1>1
<1>3. QED BY <1>1, <1>2

\* A step that moves the worker and writes rows keeps the types of the rest.
LEMMA OnlyRowsAndWorker ==
  ASSUME TypeOK, UNCHANGED <<mined, cursor, calls, mail, api, burned, faults>>,
         rows' \in [Transfers -> Row], worker' \in Worker
  PROVE  TypeOK'
  BY DEF TypeOK

\* One step of the worker.
LEMMA WorkerTypes ==
  ASSUME PayoutInv, WorkerStep
  PROVE  TypeOK' /\ WorkerOK'
<1> USE PayoutConstants DEF PayoutInv, TypeOK, WorkerOK, AtOrder, Scanning
<1>0. /\ TypeOK /\ worker \in Worker /\ rows \in [Transfers -> Row]
      /\ worker.todo \subseteq Fees
  OBVIOUS
<1>1. CASE PollOnce
  <2>1. Start \in Nat
    BY DEF Start, Lesser, Later
  <2>2. Lesser(mined, Start + Span) \in Nat /\ Lesser(mined, Start + Span) <= Later
    BY <2>1 DEF Lesser, Later
  <2>3. worker' = [worker EXCEPT !.pc = "scan", !.next = Start,
                                 !.upto = Lesser(mined, Start + Span)]
    BY <1>1 DEF PollOnce
  <2>4. /\ worker' \in Worker /\ worker'.pc = "scan" /\ worker'.todo = worker.todo
        /\ worker'.upto <= Later
    BY <2>1, <2>2, <2>3 DEF Worker
  <2>5. QED BY <1>1, <2>4 DEF PollOnce, ledger
<1>2. CASE HandleTransfer
  <2> DEFINE k == worker.next
             known == k \notin Transfers \/ rows[k].status # "none"
             status == IF Payable(k) THEN "pending"
                       ELSE IF Kind[k] = "small" THEN "held" ELSE "ignored"
             next == IF ~known /\ Payable(k) THEN Firing(k, "scan") ELSE worker
  <2>1. /\ UNCHANGED <<mined, cursor, calls, mail, api, burned, faults>>
        /\ rows' = IF known THEN rows ELSE [rows EXCEPT ![k].status = status]
        /\ worker' = [next EXCEPT !.next = k + 1]
        /\ worker.pc = "scan" /\ worker.upto <= Later
    BY <1>2 DEF HandleTransfer
  <2> HIDE DEF PayoutInv, TypeOK, WorkerOK, AtOrder, Scanning
  <2>2. k + 1 \in Nat
    BY <1>0 DEF Worker
  <2>3. rows' \in [Transfers -> Row]
    <3>1. status \in Status
      BY DEF Status
    <3>2. QED BY <1>0, <2>1, <3>1, RowsUpdated
  <2>4. CASE ~known /\ Payable(k)
    <3>1. worker' = [Firing(k, "scan") EXCEPT !.next = k + 1]
      BY <2>1, <2>4
    <3>2. rows[k].attempts + 1 \in Nat /\ k \in 0 .. N /\ k \in Fees
      BY <1>0, <2>4 DEF Row, Transfers, Fees, Payable
    <3>3. worker' \in Worker
      BY <1>0, <2>2, <3>1, <3>2 DEF Worker, Firing
    <3>4. worker'.key = k /\ worker'.todo = worker.todo /\ worker'.upto = worker.upto
      BY <1>0, <3>1 DEF Worker, Firing
    <3>5. WorkerOK'
      BY <1>0, <2>1, <3>2, <3>4 DEF WorkerOK
    <3>6. QED BY <1>0, <2>1, <2>3, <3>3, <3>5, OnlyRowsAndWorker
  <2>5. CASE known \/ ~Payable(k)
    <3>1. worker' = [worker EXCEPT !.next = k + 1]
      BY <2>1, <2>5
    <3>2. worker' \in Worker
      BY <1>0, <2>2, <3>1 DEF Worker
    <3>3. worker'.pc = "scan" /\ worker'.todo = worker.todo /\ worker'.upto = worker.upto
      BY <1>0, <2>1, <3>1 DEF Worker
    <3>4. WorkerOK'
      BY <1>0, <2>1, <3>3 DEF WorkerOK, AtOrder
    <3>5. QED BY <1>0, <2>1, <2>3, <3>2, <3>4, OnlyRowsAndWorker
  <2>6. QED BY <2>4, <2>5
<1>3. CASE FinishScan
  <2> DEFINE due == {k \in Transfers : rows[k].status \in Retryable}
  <2>1. /\ worker' = [worker EXCEPT !.pc = "retry", !.todo = due] /\ cursor' = worker.upto
        /\ UNCHANGED <<mined, rows, calls, mail, api, burned, faults>>
    BY <1>3 DEF FinishScan
  <2>2. due \subseteq Fees /\ due \subseteq Transfers
    BY DEF OrdersOK
  <2>3. worker' \in Worker /\ worker'.pc = "retry" /\ worker'.todo = due
    BY <2>1, <2>2 DEF Worker
  <2>4. worker.upto \in 0 .. Later
    BY <1>3 DEF FinishScan, Worker, Later
  <2>5. QED BY <2>1, <2>2, <2>3, <2>4
<1>4. CASE RetryFailed
  <2>1. PICK k \in Oldest(worker.todo) :
          LET next == IF OutOfAttempts(k) THEN worker ELSE Firing(k, "retry")
          IN /\ rows' = IF OutOfAttempts(k) THEN [rows EXCEPT ![k].status = "exhausted"] ELSE rows
             /\ worker' = [next EXCEPT !.todo = @ \ {k}]
    BY <1>4 DEF RetryFailed
  <2>3. UNCHANGED <<mined, cursor, calls, mail, api, burned, faults>> /\ worker.pc = "retry"
    BY <1>4 DEF RetryFailed
  <2> HIDE DEF PayoutInv, TypeOK, WorkerOK, AtOrder, Scanning
  <2>2. k \in Fees /\ k \in Transfers /\ k \in 0 .. N /\ rows[k].attempts + 1 \in Nat
    <3>1. k \in Fees /\ k \in Transfers
      BY <1>0, <2>1 DEF Oldest, Fees
    <3>2. rows[k] \in Row
      BY <1>0, <3>1
    <3>3. QED BY <3>1, <3>2 DEF Row, Transfers
  <2>4. rows' \in [Transfers -> Row]
    <3>1. "exhausted" \in Status
      BY DEF Status
    <3>2. QED BY <1>0, <2>1, <3>1, RowsUpdated
  <2>5. CASE OutOfAttempts(k)
    <3>1. worker' = [worker EXCEPT !.todo = @ \ {k}]
      BY <2>1, <2>5
    <3>2. worker' \in Worker /\ worker'.pc = "retry" /\ worker'.todo \subseteq Fees
      BY <1>0, <2>3, <3>1 DEF Worker
    <3>3. WorkerOK'
      BY <3>2 DEF WorkerOK, AtOrder, Scanning
    <3>4. QED BY <1>0, <2>3, <2>4, <3>2, <3>3, OnlyRowsAndWorker
  <2>6. CASE ~OutOfAttempts(k)
    <3>1. worker' = [Firing(k, "retry") EXCEPT !.todo = @ \ {k}]
      BY <2>1, <2>6
    <3>2. worker' \in Worker
      BY <1>0, <2>2, <3>1 DEF Worker, Firing
    <3>3. worker'.key = k /\ worker'.back = "retry" /\ worker'.pc = "send"
          /\ worker'.todo \subseteq Fees
      BY <1>0, <3>1 DEF Worker, Firing
    <3>4. WorkerOK'
      BY <2>2, <3>3 DEF WorkerOK, AtOrder, Scanning
    <3>5. QED BY <1>0, <2>3, <2>4, <3>2, <3>4, OnlyRowsAndWorker
  <2>7. QED BY <2>5, <2>6
<1>5. CASE EndPoll
  <2>1. Asleep \in Worker /\ Asleep.pc = "sleep" /\ Asleep.todo = {}
    BY DEF Asleep, Worker, NoConversation
  <2>2. QED BY <1>5, <2>1 DEF EndPoll, ledger
<1>6. CASE B2cAccepted
  <2>1. /\ calls' = Append(calls, [key |-> worker.key, state |-> "accepted"])
        /\ worker' = [worker EXCEPT !.pc = "ack", !.conv = Len(calls) + 1]
        /\ UNCHANGED <<mined, cursor, rows, mail, api, burned, faults>>
        /\ Len(calls) < MaxCalls /\ worker.key \in Fees /\ worker.pc = "send"
    BY <1>6 DEF B2cAccepted, ledger
  <2>2. Len(calls) + 1 \in 0 .. MaxCalls
    BY <2>1
  <2>3. worker' \in Worker
    BY <2>1, <2>2 DEF Worker
  <2>4. [key |-> worker.key, state |-> "accepted"] \in Call
    BY <2>1 DEF Call, Fees
  <2>5. calls' \in Seq(Call) /\ Len(calls') <= MaxCalls
    BY <2>1, <2>4
  <2>6. WorkerOK'
    BY <2>1 DEF Worker
  <2>7. QED BY <2>1, <2>3, <2>5, <2>6
<1>7. CASE B2cRejected
  <2> DEFINE k == worker.key
  <2>1. /\ worker' = [worker EXCEPT !.pc = worker.back]
        /\ UNCHANGED <<mined, cursor, calls, mail, api, burned, faults>>
    BY <1>7 DEF B2cRejected, Resume
  <2>2. rows' \in [Transfers -> Row]
    <3>1. "b2c_failed" \in Status /\ worker.attempts \in Nat /\ k \in Transfers
      BY <1>7 DEF Status, Worker, B2cRejected, Fees
    <3>2. rows' = [rows EXCEPT ![k].status = "b2c_failed", ![k].attempts = worker.attempts]
      BY <1>7 DEF B2cRejected
    <3> HIDE DEF PayoutInv, TypeOK, WorkerOK, AtOrder, Scanning
    <3>3. ASSUME NEW l \in Transfers PROVE rows'[l] \in Row
      <4>1. rows[l] \in Row
        BY <1>0
      <4>2. CASE l = k
        BY <1>0, <3>1, <3>2, <4>1, <4>2 DEF Row
      <4>3. CASE l # k
        BY <1>0, <3>2, <4>1, <4>3
      <4>4. QED BY <4>2, <4>3
    <3>4. QED BY <1>0, <3>2, <3>3
  <2>4. worker' \in Worker
    BY <2>1 DEF Worker
  <2>5. WorkerOK'
    BY <1>7, <2>1 DEF Worker, B2cRejected
  <2>6. QED BY <2>1, <2>2, <2>4, <2>5
<1>8. CASE RecordSent
  BY <1>8 DEF RecordSent, Resume, Worker, Row, Status
<1>9. QED
  BY <1>1, <1>2, <1>3, <1>4, <1>5, <1>6, <1>7, <1>8 DEF WorkerStep

\* One step of anybody else, the faults among them.
LEMMA OtherTypes ==
  ASSUME PayoutInv, Next, ~WorkerStep
  PROVE  TypeOK' /\ WorkerOK'
<1> USE PayoutConstants DEF PayoutInv, TypeOK, WorkerOK, AtOrder, Scanning
<1>1. CASE Mine
  BY <1>1 DEF Mine, ledger, Later
<1>2. ASSUME NEW c \in DOMAIN calls, NEW from, NEW to \in {"paid", "failed", "expired"},
             NEW news \in {"success", "failure", "timeout"}, Decide(c, from, to, news)
      PROVE  TypeOK' /\ WorkerOK'
  <2>1. /\ calls' = [calls EXCEPT ![c].state = to]
        /\ mail' = mail \cup {[conv |-> c, news |-> news]}
        /\ UNCHANGED <<mined, cursor, rows, worker, api, burned, faults>>
    BY <1>2 DEF Decide, ledger
  <2>2. calls' \in Seq(Call) /\ Len(calls') = Len(calls)
    <3>1. /\ calls \in [1 .. Len(calls) -> Call] /\ Len(calls) \in Nat /\ c \in 1 .. Len(calls)
      OBVIOUS
    <3> HIDE DEF PayoutInv, TypeOK, WorkerOK, AtOrder, Scanning
    <3>2. calls' \in [1 .. Len(calls) -> Call]
      <4>1. [calls[c] EXCEPT !.state = to] \in Call
        <5>1. calls[c] \in Call /\ to \in {"accepted", "paid", "failed", "expired"}
          BY <3>1
        <5>2. QED BY <5>1 DEF Call
      <4>2. calls' = [calls EXCEPT ![c] = [calls[c] EXCEPT !.state = to]]
        BY <2>1
      <4>3. QED BY <3>1, <4>1, <4>2
    <3>3. QED BY <3>1, <3>2
  <2>3. [conv |-> c, news |-> news] \in Mail
    BY DEF Mail
  <2>4. QED BY <2>1, <2>2, <2>3
<1>3. ASSUME NEW m \in mail, Handle(m) PROVE TypeOK' /\ WorkerOK'
  <2>1. mail' \subseteq Mail
    BY <1>3 DEF Handle, DropCallback, HandleBadNews, HandleB2cResult, Received
  <2>2. CASE DropCallback(m)
    BY <2>1, <2>2 DEF DropCallback, ledger
  <2>3. ASSUME NEW k \in Transfers, HandleBadNews(m, k) PROVE TypeOK' /\ WorkerOK'
    <3>1. rows' \in [Transfers -> Row]
      <4>1. {"b2c_failed", "b2c_timeout"} \subseteq Status
        BY DEF Status
      <4>2. QED BY <2>3, <4>1, RowsUpdated DEF HandleBadNews
    <3>2. UNCHANGED <<mined, cursor, worker, calls, api, burned, faults>>
      BY <2>3 DEF HandleBadNews
    <3>3. QED BY <2>1, <3>1, <3>2
  <2>4. ASSUME NEW k \in Transfers, HandleB2cResult(m, k) PROVE TypeOK' /\ WorkerOK'
    <3>1. /\ api' = [pc |-> "burning", key |-> k] /\ k \in 0 .. N
          /\ UNCHANGED <<mined, cursor, rows, worker, calls, burned, faults>>
      BY <2>4 DEF HandleB2cResult, ledger, Transfers
    <3>2. QED BY <2>1, <3>1
  <2>5. QED BY <1>3, <2>2, <2>3, <2>4 DEF Handle
<1>4. CASE BurnForPayout
  <2>1. burned' = [burned EXCEPT ![api.key] = @ + 1] /\ api' = [api EXCEPT !.pc = "burned"]
    BY <1>4 DEF BurnForPayout, Credit
  <2>2. api' \in [pc : {"idle", "burning", "burned"}, key : 0 .. N]
    BY <2>1
  <2>3. burned' \in [Transfers -> Nat]
    <3>1. api.key \in Transfers /\ burned[api.key] + 1 \in Nat
      BY <1>4 DEF BurnForPayout, BurnsOK
    <3>2. burned \in [Transfers -> Nat]
      OBVIOUS
    <3> HIDE DEF PayoutInv, TypeOK, WorkerOK, AtOrder, Scanning
    <3>3. QED BY <2>1, <3>1, <3>2
  <2>4. UNCHANGED <<mined, cursor, rows, worker, calls, mail, faults>>
    BY <1>4 DEF BurnForPayout, ledger
  <2>5. QED BY <2>2, <2>3, <2>4
<1>5. CASE BurnRefused
  BY <1>5 DEF BurnRefused, IdleApi, ledger
<1>6. CASE RecordSettled
  <2>1. rows' \in [Transfers -> Row]
    BY <1>6, RowsUpdated DEF RecordSettled, Status
  <2>2. api' = IdleApi /\ UNCHANGED <<mined, cursor, worker, calls, mail, burned, faults>>
    BY <1>6 DEF RecordSettled
  <2>3. QED BY <2>1, <2>2 DEF IdleApi
<1>7. CASE WorkerAborts
  <2>1. Asleep \in Worker /\ Asleep.pc = "sleep" /\ Asleep.todo = {}
    BY DEF Asleep, Worker, NoConversation
  <2>2. faults' \in [worker : Nat, api : Nat]
    <3>1. faults.worker + 1 \in Nat /\ faults' = [faults EXCEPT !.worker = faults.worker + 1]
      BY <1>7 DEF WorkerAborts
    <3>2. QED BY <3>1
  <2>3. worker' = Asleep /\ UNCHANGED <<mined, cursor, rows, calls, mail, api, burned>>
    BY <1>7 DEF WorkerAborts, ledger
  <2>4. QED BY <2>1, <2>2, <2>3
<1>8. CASE ApiAborts
  <2>1. faults' \in [worker : Nat, api : Nat]
    <3>1. faults.api + 1 \in Nat /\ faults' = [faults EXCEPT !.api = faults.api + 1]
      BY <1>8 DEF ApiAborts
    <3>2. QED BY <3>1
  <2>2. api' = IdleApi /\ UNCHANGED <<mined, cursor, rows, worker, calls, mail, burned>>
    BY <1>8 DEF ApiAborts, ledger
  <2>3. QED BY <2>1, <2>2 DEF IdleApi
<1>9. QED
  BY <1>1, <1>2, <1>3, <1>4, <1>5, <1>6, <1>7, <1>8
     DEF Next, DarajaStep, DarajaPays, DarajaFails, DarajaTimesOut, ApiStep

-----------------------------------------------------------------------------
\* The book of orders only grows: an order keeps its key, and a paid one is
\* paid for ever.
BookGrows ==
    \A c \in DOMAIN calls :
        /\ c \in DOMAIN calls' /\ calls'[c].key = calls[c].key
        /\ calls[c].state = "paid" => calls'[c].state = "paid"

LEMMA BookStep ==
  ASSUME PayoutInv, [Next]_vars
  PROVE  BookGrows
<1> USE DEF PayoutInv, TypeOK
<1>1. CASE B2cAccepted
  <2>1. calls' = Append(calls, [key |-> worker.key, state |-> "accepted"])
    BY <1>1 DEF B2cAccepted
  <2>2. \A c \in DOMAIN calls : c \in DOMAIN calls' /\ calls'[c] = calls[c]
    BY <2>1
  <2>3. QED BY <2>2 DEF BookGrows
<1>2. ASSUME NEW c \in DOMAIN calls, NEW from, NEW to, NEW news, "paid" \notin from,
             Decide(c, from, to, news)
      PROVE  BookGrows
  <2>1. calls' = [calls EXCEPT ![c].state = to] /\ calls[c].state # "paid"
    BY <1>2 DEF Decide
  <2>2. DOMAIN calls' = DOMAIN calls
    BY <2>1
  <2>3. \A d \in DOMAIN calls : d # c => calls'[d] = calls[d]
    BY <2>1
  <2>4. calls'[c].key = calls[c].key
    <3>1. calls[c] \in Call /\ calls'[c] = [calls[c] EXCEPT !.state = to]
      BY <2>1
    <3>2. QED BY <3>1 DEF Call
  <2>5. QED BY <2>1, <2>2, <2>3, <2>4 DEF BookGrows
<1>3. CASE UNCHANGED calls
  BY <1>3 DEF BookGrows
<1>4. CASE DarajaStep
  BY <1>2, <1>4 DEF DarajaStep, DarajaPays, DarajaFails, DarajaTimesOut
<1>5. CASE ~B2cAccepted /\ ~DarajaStep
  <2>1. UNCHANGED calls
    BY <1>5 DEF Next, WorkerStep, Mine, PollOnce, HandleTransfer, FinishScan, RetryFailed,
                EndPoll, B2cRejected, RecordSent, Handle, DropCallback, HandleBadNews,
                HandleB2cResult, ApiStep, BurnForPayout, BurnRefused, RecordSettled,
                WorkerAborts, ApiAborts, vars
  <2>2. QED BY <1>3, <2>1
<1>6. QED BY <1>1, <1>4, <1>5

LEMMA PaidStays ==
  ASSUME BookGrows, NEW k, HasPaid(k)
  PROVE  HasPaid(k)'
BY DEF BookGrows, HasPaid

-----------------------------------------------------------------------------
\* What row k says, at most, after a step that does not write it.
RowOK(k) ==
    /\ rows[k].status \in Retryable => k \in Fees
    /\ rows[k].conv # 0 => rows[k].conv \in DOMAIN calls /\ calls[rows[k].conv].key = k

LEMMA RowStays ==
  ASSUME PayoutInv, BookGrows, NEW k \in Transfers, rows'[k].conv = rows[k].conv,
         rows'[k].status \in Retryable => rows[k].status \in Retryable
  PROVE  RowOK(k)'
BY DEF PayoutInv, OrdersOK, RowOK, BookGrows

\* Writing a status that no retry looks for leaves every row in order.
LEMMA StatusWritten ==
  ASSUME PayoutInv, BookGrows, NEW k \in Transfers, NEW l, NEW status,
         status \notin Retryable, rows' = [rows EXCEPT ![l].status = status]
  PROVE  RowOK(k)'
<1>1. rows[k] \in Row /\ DOMAIN rows = Transfers
  BY DEF PayoutInv, TypeOK
<1>2. rows'[k].conv = rows[k].conv /\ (k # l => rows'[k].status = rows[k].status)
  BY <1>1 DEF Row
<1>3. CASE k = l
  <2>1. rows'[k].status = status
    BY <1>1, <1>3 DEF Row
  <2>2. QED BY <1>2, <2>1, RowStays
<1>4. CASE k # l
  BY <1>2, <1>4, RowStays
<1>5. QED BY <1>3, <1>4

LEMMA RowsStep ==
  ASSUME PayoutInv, Next, BookGrows, NEW k \in Transfers
  PROVE  RowOK(k)'
<1> USE DEF PayoutInv, TypeOK
<1>0. rows[k] \in Row /\ DOMAIN rows = Transfers
  OBVIOUS
<1>1. CASE HandleTransfer
  <2>1. rows' = rows \/ \E l \in Transfers, status \in {"pending", "held", "ignored"} :
          rows' = [rows EXCEPT ![l].status = status]
    BY <1>1 DEF HandleTransfer
  <2>2. \A status \in {"pending", "held", "ignored"} : status \notin Retryable
    BY DEF Retryable
  <2>3. CASE rows' = rows
    BY <2>3, RowStays
  <2>4. QED BY <2>1, <2>2, <2>3, StatusWritten
<1>2. CASE RetryFailed
  <2>1. rows' = rows \/ \E l \in Transfers : rows' = [rows EXCEPT ![l].status = "exhausted"]
    BY <1>2 DEF RetryFailed, Oldest, Worker
  <2>2. "exhausted" \notin Retryable
    BY DEF Retryable
  <2>3. CASE rows' = rows
    BY <2>3, RowStays
  <2>4. QED BY <2>1, <2>2, <2>3, StatusWritten
<1>3. CASE B2cRejected
  <2>1. worker.key \in Fees /\ rows' = [rows EXCEPT ![worker.key].status = "b2c_failed",
                                                   ![worker.key].attempts = worker.attempts]
    BY <1>3 DEF B2cRejected, WorkerOK, AtOrder
  <2>2. rows'[k].conv = rows[k].conv /\ (k # worker.key => rows'[k].status = rows[k].status)
    BY <1>0, <2>1 DEF Row
  <2>3. CASE k = worker.key
    <3>1. k \in Fees
      BY <2>1, <2>3
    <3>2. rows[k].conv # 0 => rows[k].conv \in DOMAIN calls /\ calls[rows[k].conv].key = k
      BY DEF OrdersOK
    <3>3. rows'[k].conv # 0 => rows'[k].conv \in DOMAIN calls' /\ calls'[rows'[k].conv].key = k
      BY <2>2, <3>2 DEF BookGrows
    <3>4. QED BY <3>1, <3>3 DEF RowOK
  <2>4. CASE k # worker.key
    BY <2>2, <2>4, RowStays
  <2>5. QED BY <2>3, <2>4
<1>4. CASE RecordSent
  <2>1. rows' = [rows EXCEPT ![worker.key] = [status |-> "b2c_sent", attempts |-> worker.attempts,
                                              conv |-> worker.conv]]
    BY <1>4 DEF RecordSent
  <2>2. CASE k = worker.key
    <3>1. rows'[k].conv = worker.conv /\ rows'[k].status = "b2c_sent"
      BY <1>0, <2>1, <2>2
    <3>2. worker.conv \in DOMAIN calls /\ calls[worker.conv].key = k
      BY <1>4, <2>2 DEF RecordSent, OrdersOK
    <3>3. worker.conv \in DOMAIN calls' /\ calls'[worker.conv].key = k
      BY <3>2 DEF BookGrows
    <3>4. QED BY <3>1, <3>3 DEF RowOK, Retryable
  <2>3. CASE k # worker.key
    BY <1>0, <2>1, <2>3, RowStays
  <2>4. QED BY <2>2, <2>3
<1>5. ASSUME NEW m \in mail, NEW l \in Transfers, HandleBadNews(m, l) PROVE RowOK(k)'
  <2>1. \E status : rows' = [rows EXCEPT ![l].status = status]
    BY <1>5 DEF HandleBadNews
  <2>2. rows'[k].conv = rows[k].conv /\ (k # l => rows'[k].status = rows[k].status)
    BY <1>0, <2>1 DEF Row
  <2>3. l \in Fees
    <3>1. rows[l].conv = m.conv /\ m.conv # 0
      BY <1>5 DEF HandleBadNews, Matches, Mail
    <3>2. QED BY <3>1 DEF OrdersOK
  <2>4. CASE k = l
    <3>1. rows[k].conv # 0 => rows[k].conv \in DOMAIN calls /\ calls[rows[k].conv].key = k
      BY DEF OrdersOK
    <3>2. rows'[k].conv # 0 => rows'[k].conv \in DOMAIN calls' /\ calls'[rows'[k].conv].key = k
      BY <2>2, <3>1 DEF BookGrows
    <3>3. QED BY <2>3, <2>4, <3>2 DEF RowOK
  <2>5. CASE k # l
    BY <2>2, <2>5, RowStays
  <2>6. QED BY <2>4, <2>5
<1>6. CASE RecordSettled
  <2>1. rows' = [rows EXCEPT ![api.key].status = "settled"]
    BY <1>6 DEF RecordSettled
  <2>2. "settled" \notin Retryable
    BY DEF Retryable
  <2>3. QED BY <2>1, <2>2, StatusWritten
<1>7. CASE UNCHANGED rows
  BY <1>7, RowStays
<1>8. QED
  BY <1>1, <1>2, <1>3, <1>4, <1>5, <1>6, <1>7
     DEF Next, WorkerStep, Mine, PollOnce, FinishScan, EndPoll, B2cAccepted, DarajaStep,
         DarajaPays, DarajaFails, DarajaTimesOut, Decide, Handle, DropCallback,
         HandleB2cResult, ApiStep, BurnForPayout, BurnRefused, WorkerAborts, ApiAborts, ledger

LEMMA OrdersStep ==
  ASSUME PayoutInv, Next, BookGrows
  PROVE  OrdersOK'
<1> USE DEF PayoutInv, TypeOK
<1>1. \A k \in Transfers : RowOK(k)'
  BY RowsStep
<1>2. /\ \A c \in DOMAIN calls' : calls'[c].key \in Fees
      /\ worker'.pc = "ack" =>
           worker'.conv \in DOMAIN calls' /\ calls'[worker'.conv].key = worker'.key
  <2>1. CASE B2cAccepted
    <3>1. /\ calls' = Append(calls, [key |-> worker.key, state |-> "accepted"])
          /\ worker' = [worker EXCEPT !.pc = "ack", !.conv = Len(calls) + 1]
          /\ worker.key \in Fees
      BY <2>1 DEF B2cAccepted, WorkerOK, AtOrder
    <3>2. worker'.conv = Len(calls) + 1 /\ worker'.key = worker.key
      BY <3>1 DEF Worker
    <3>3. DOMAIN calls' = 1 .. Len(calls) + 1 /\ calls'[Len(calls) + 1].key = worker.key
      BY <3>1
    <3>4. \A c \in DOMAIN calls' : c = Len(calls) + 1 \/ (c \in DOMAIN calls /\ calls'[c] = calls[c])
      BY <3>1
    <3>5. QED BY <3>1, <3>2, <3>3, <3>4 DEF OrdersOK
  <2>2. CASE ~B2cAccepted
    <3>1. DOMAIN calls' = DOMAIN calls
      BY <2>2 DEF Next, WorkerStep, Mine, PollOnce, HandleTransfer, FinishScan, RetryFailed,
                  EndPoll, B2cRejected, RecordSent, Handle, DropCallback, HandleBadNews,
                  HandleB2cResult, ApiStep, BurnForPayout, BurnRefused, RecordSettled,
                  WorkerAborts, ApiAborts, DarajaStep, DarajaPays, DarajaFails,
                  DarajaTimesOut, Decide
    <3>2. worker'.pc = "ack" => worker' = worker
      <4>1. CASE HandleTransfer
        BY <4>1 DEF HandleTransfer, Firing, Worker
      <4>2. CASE RetryFailed
        BY <4>2 DEF RetryFailed, Firing, Worker
      <4>3. CASE B2cRejected \/ RecordSent
        BY <4>3 DEF B2cRejected, RecordSent, Resume, Worker
      <4>4. CASE PollOnce \/ FinishScan \/ EndPoll \/ WorkerAborts
        <5>1. CASE PollOnce
          BY <5>1 DEF PollOnce, Worker
        <5>2. CASE FinishScan
          BY <5>2 DEF FinishScan, Worker
        <5>3. CASE EndPoll \/ WorkerAborts
          <6>1. worker' = Asleep /\ Asleep.pc = "sleep"
            BY <5>3 DEF EndPoll, WorkerAborts, Asleep
          <6>2. QED BY <6>1
        <5>4. QED BY <4>4, <5>1, <5>2, <5>3
      <4>5. QED
        BY <2>2, <4>1, <4>2, <4>3, <4>4
           DEF Next, WorkerStep, Mine, Handle, DropCallback, HandleBadNews, HandleB2cResult,
               ApiStep, BurnForPayout, BurnRefused, RecordSettled, ApiAborts, DarajaStep,
               DarajaPays, DarajaFails, DarajaTimesOut, Decide
    <3>3. QED BY <3>1, <3>2 DEF OrdersOK, BookGrows
  <2>3. QED BY <2>1, <2>2
<1>3. QED BY <1>1, <1>2 DEF OrdersOK, RowOK

-----------------------------------------------------------------------------
\* A callback reports what became of an order in the book.
LEMMA MailStep ==
  ASSUME PayoutInv, Next, BookGrows, NEW m \in mail'
  PROVE  m.conv \in DOMAIN calls' /\ (m.news = "success" => calls'[m.conv].state = "paid")
<1> USE DEF PayoutInv, TypeOK
<1>1. CASE m \in mail
  BY <1>1 DEF BurnsOK, BookGrows
<1>2. ASSUME NEW c \in DOMAIN calls, NEW from, NEW to, NEW news, Decide(c, from, to, news),
             news = "success" => to = "paid", m \notin mail
      PROVE  m.conv \in DOMAIN calls' /\ (m.news = "success" => calls'[m.conv].state = "paid")
  <2>1. calls' = [calls EXCEPT ![c].state = to] /\ m = [conv |-> c, news |-> news]
    BY <1>2 DEF Decide
  <2>2. calls'[c] = [calls[c] EXCEPT !.state = to] /\ calls[c] \in Call
    BY <2>1
  <2>3. calls'[c].state = to
    BY <2>2 DEF Call
  <2>4. QED BY <1>2, <2>1, <2>3 DEF BookGrows
<1>3. CASE DarajaStep /\ m \notin mail
  BY <1>2, <1>3 DEF DarajaStep, DarajaPays, DarajaFails, DarajaTimesOut
<1>4. CASE ~DarajaStep
  <2>1. mail' \subseteq mail
    BY <1>4 DEF Next, WorkerStep, Mine, PollOnce, HandleTransfer, FinishScan, RetryFailed,
                EndPoll, B2cAccepted, B2cRejected, RecordSent, Handle, DropCallback,
                HandleBadNews, HandleB2cResult, Received, ApiStep, BurnForPayout, BurnRefused,
                RecordSettled, WorkerAborts, ApiAborts
  <2>2. QED BY <1>1, <2>1
<1>5. QED BY <1>1, <1>3, <1>4

\* The callback handler burns for a transfer that was paid out.
LEMMA BurnsStep ==
  ASSUME PayoutInv, Next, BookGrows
  PROVE  BurnsOK'
<1> USE DEF PayoutInv, TypeOK
<1>1. \A k : HasPaid(k) => \E c \in DOMAIN calls' : calls'[c].key = k /\ calls'[c].state = "paid"
  BY PaidStays DEF HasPaid
<1>2. /\ api'.pc # "idle" => api'.key \in Transfers /\ HasPaid(api.key)'
      /\ \A k \in Transfers : burned'[k] > 0 => HasPaid(k)'
  <2>1. ASSUME NEW m \in mail, NEW k \in Transfers, HandleB2cResult(m, k)
        PROVE  api'.key = k /\ HasPaid(k) /\ burned' = burned
    <3>1. m.news = "success" /\ rows[k].conv = m.conv /\ m.conv # 0
      BY <2>1 DEF HandleB2cResult, Matches, Mail
    <3>2. m.conv \in DOMAIN calls /\ calls[m.conv].state = "paid" /\ calls[m.conv].key = k
      BY <3>1 DEF BurnsOK, OrdersOK
    <3>3. QED BY <2>1, <3>2 DEF HasPaid, HandleB2cResult
  <2>2. CASE BurnForPayout
    <3>1. burned' = [burned EXCEPT ![api.key] = @ + 1] /\ api' = [api EXCEPT !.pc = "burned"]
      BY <2>2 DEF BurnForPayout, Credit
    <3>2. api.key \in Transfers /\ HasPaid(api.key) /\ api'.key = api.key
      BY <2>2, <3>1 DEF BurnForPayout, BurnsOK
    <3>3. \A k \in Transfers : k # api.key => burned'[k] = burned[k]
      BY <3>1
    <3>4. \A k \in Transfers : burned'[k] > 0 => HasPaid(k)
      BY <3>2, <3>3 DEF BurnsOK
    <3>5. HasPaid(api.key)'
      <4>1. \E c \in DOMAIN calls' : calls'[c].key = api.key /\ calls'[c].state = "paid"
        BY <1>1, <3>2
      <4>2. QED BY <3>2, <4>1 DEF HasPaid
    <3>6. \A k \in Transfers : burned'[k] > 0 => HasPaid(k)'
      <4>1. \A k \in Transfers : HasPaid(k) => HasPaid(k)'
        BY <1>1 DEF HasPaid
      <4>2. QED BY <3>4, <4>1
    <3>7. QED BY <3>2, <3>5, <3>6
  <2>3. CASE UNCHANGED burned /\ (api' = api \/ api' = IdleApi)
    <3>1. api'.pc # "idle" => api' = api
      BY <2>3 DEF IdleApi
    <3>2. /\ api'.pc # "idle" => api'.key \in Transfers /\ HasPaid(api'.key)
          /\ \A k \in Transfers : burned'[k] > 0 => HasPaid(k)
      BY <2>3, <3>1 DEF BurnsOK
    <3>3. \A k \in Transfers : HasPaid(k) => HasPaid(k)'
      BY <1>1 DEF HasPaid
    <3>4. \A k \in Transfers : burned'[k] > 0 => HasPaid(k)'
      BY <3>2, <3>3
    <3>5. api'.pc # "idle" => api'.key \in Transfers /\ HasPaid(api.key)'
      BY <3>1, <3>2, <3>3
    <3>6. QED BY <3>4, <3>5
  <2>4. CASE \E m \in mail : \E k \in Transfers : HandleB2cResult(m, k)
    <3>1. /\ api'.key \in Transfers /\ HasPaid(api'.key)
          /\ \A k \in Transfers : burned'[k] > 0 => HasPaid(k)
      BY <2>1, <2>4 DEF BurnsOK
    <3>2. \A k \in Transfers : HasPaid(k) => HasPaid(k)'
      BY <1>1 DEF HasPaid
    <3>3. \A k \in Transfers : burned'[k] > 0 => HasPaid(k)'
      BY <3>1, <3>2
    <3>4. \A k \in Transfers : api'.key = k => HasPaid(k)'
      BY <3>1, <3>2
    <3>5. QED
      <4>1. PICK k \in Transfers : api'.key = k /\ HasPaid(k)
        BY <2>1, <2>4
      <4>2. QED BY <3>1, <3>3, <3>4, <4>1
  <2>5. QED
    BY <2>2, <2>3, <2>4
       DEF Next, WorkerStep, Mine, PollOnce, HandleTransfer, FinishScan, RetryFailed, EndPoll,
           B2cAccepted, B2cRejected, RecordSent, Handle, DropCallback, HandleBadNews, ApiStep,
           BurnRefused, RecordSettled, WorkerAborts, ApiAborts, DarajaStep, DarajaPays,
           DarajaFails, DarajaTimesOut, Decide, ledger
<1>3. QED BY <1>2, MailStep DEF BurnsOK, HasPaid

\* The invariant is inductive.
LEMMA PayoutStep == PayoutInv /\ [Next]_vars => PayoutInv'
<1> SUFFICES ASSUME PayoutInv, [Next]_vars PROVE PayoutInv'
  OBVIOUS
<1>1. CASE Next
  <2>1. BookGrows
    BY BookStep
  <2>2. TypeOK' /\ WorkerOK'
    BY <1>1, WorkerTypes, OtherTypes
  <2>3. OrdersOK' /\ BurnsOK'
    BY <1>1, <2>1, OrdersStep, BurnsStep
  <2>4. QED BY <2>2, <2>3 DEF PayoutInv
<1>2. CASE UNCHANGED vars
  BY <1>2 DEF vars, ledger, PayoutInv, TypeOK, WorkerOK, AtOrder, Scanning, OrdersOK, BurnsOK,
              HasPaid
<1>3. QED BY <1>1, <1>2

LEMMA PayoutInvariant == Spec => []PayoutInv
<1>1. PayoutInv /\ [Next]_vars => PayoutInv'
  BY PayoutStep
<1>2. QED BY <1>1, PayoutInit, PTL DEF Spec

\* Every variable of the payout keeps its type whatever fails.
THEOREM PayoutTypes == Spec => []TypeOK
<1>1. PayoutInv => TypeOK
  BY DEF PayoutInv
<1>2. QED BY <1>1, PayoutInvariant, PTL

-----------------------------------------------------------------------------
\* The orders of a kind are finitely many.
LEMMA OrdersFinite ==
  ASSUME PayoutInv, NEW S \in SUBSET (DOMAIN calls)
  PROVE  IsFiniteSet(S) /\ Cardinality(S) \in Nat /\ (Cardinality(S) = 0 <=> S = {})
<1>1. DOMAIN calls = 1 .. Len(calls) /\ Len(calls) \in Int /\ 1 \in Int
  BY DEF PayoutInv, TypeOK
<1>2. IsFiniteSet(DOMAIN calls)
  BY <1>1, FS_Interval
<1>3. IsFiniteSet(S)
  BY <1>2, FS_Subset
<1>4. QED BY <1>3, FS_EmptySet, FS_CardinalityType

\* KES leave only for fees that the beneficiary sent to the bridge, however
\* often the worker crashes and whatever Daraja refuses, repeats or delays.
THEOREM NeverRedirected == Spec => []OnlyFeesArePaid
<1>1. PayoutInv => OnlyFeesArePaid
  <2>1. ASSUME PayoutInv, NEW k \in Transfers, Orders(k) > 0 PROVE Kind[k] = "fee"
    <3> DEFINE S == {c \in DOMAIN calls : calls[c].key = k}
    <3>1. S \in SUBSET (DOMAIN calls) /\ Cardinality(S) > 0
      BY <2>1 DEF Orders
    <3>2. Cardinality(S) = 0 <=> S = {}
      BY <2>1, <3>1, OrdersFinite
    <3>3. PICK c \in DOMAIN calls : calls[c].key = k
      BY <3>1, <3>2
    <3>4. QED BY <2>1, <3>3 DEF PayoutInv, OrdersOK, Fees
  <2>2. QED BY <2>1 DEF OnlyFeesArePaid
<1>2. QED BY <1>1, PayoutInvariant, PTL

\* XKN is burned only for a transfer whose KES were paid out, through every
\* crash, repetition and delay.
THEOREM NeverBurnedUnpaid == Spec => []BurnFollowsPayment
<1>1. PayoutInv => BurnFollowsPayment
  <2>1. ASSUME PayoutInv, NEW k \in Transfers, HasPaid(k) PROVE Paid(k) > 0
    <3> DEFINE S == {c \in DOMAIN calls : calls[c].key = k /\ calls[c].state = "paid"}
    <3>1. S \in SUBSET (DOMAIN calls) /\ S # {}
      BY <2>1 DEF HasPaid
    <3>2. Cardinality(S) \in Nat /\ (Cardinality(S) = 0 <=> S = {})
      BY <2>1, <3>1, OrdersFinite
    <3>3. Cardinality(S) > 0
      BY <3>1, <3>2
    <3>4. QED BY <3>3 DEF Paid
  <2>2. ASSUME PayoutInv, NEW k \in Transfers, burned[k] > 0 \/ (api.pc # "idle" /\ api.key = k)
        PROVE  HasPaid(k)
    BY <2>2 DEF PayoutInv, BurnsOK
  <2>3. QED BY <2>1, <2>2 DEF BurnFollowsPayment
<1>2. QED BY <1>1, PayoutInvariant, PTL

-----------------------------------------------------------------------------
\* What a crash must not undo: behind the scan, and behind the cursor, every
\* transfer has its row.  A poll starts no higher than the block after the
\* cursor, and with a new ledger at the first block, if one poll can reach
\* that far back.
Recorded(k) == rows[k].status # "none"
ScanOK == Scanning => \A k \in Transfers : k < worker.next => Recorded(k)

\* A row, once written, is never empty again.
LEMMA RowsStay ==
  ASSUME PayoutInv, [Next]_vars, NEW k \in Transfers, Recorded(k)
  PROVE  Recorded(k)'
<1> USE DEF PayoutInv, TypeOK
<1>0. rows[k] \in Row /\ DOMAIN rows = Transfers
  OBVIOUS
<1>1. ASSUME NEW l, NEW status, status # "none", rows' = [rows EXCEPT ![l].status = status]
      PROVE  Recorded(k)'
  <2>1. rows'[k].status \in {rows[k].status, status}
    BY <1>0, <1>1 DEF Row
  <2>2. QED BY <1>1, <2>1 DEF Recorded
<1>2. CASE B2cRejected
  <2>1. rows'[k].status \in {rows[k].status, "b2c_failed"}
    BY <1>0, <1>2 DEF B2cRejected, Row
  <2>2. QED BY <2>1 DEF Recorded
<1>3. CASE RecordSent
  <2>1. rows'[k] = rows[k] \/ rows'[k].status = "b2c_sent"
    BY <1>0, <1>3 DEF RecordSent
  <2>2. QED BY <2>1 DEF Recorded
<1>4. CASE UNCHANGED rows
  BY <1>4 DEF Recorded
<1>5. CASE HandleTransfer
  <2>1. rows' = rows \/ \E l \in Transfers, status \in {"pending", "held", "ignored"} :
          rows' = [rows EXCEPT ![l].status = status]
    BY <1>5 DEF HandleTransfer
  <2>2. QED BY <1>1, <1>4, <2>1
<1>6. CASE RetryFailed
  <2>1. rows' = rows \/ \E l \in Transfers : rows' = [rows EXCEPT ![l].status = "exhausted"]
    BY <1>6 DEF RetryFailed, Oldest, Worker
  <2>2. QED BY <1>1, <1>4, <2>1
<1>7. ASSUME NEW m \in mail, NEW l \in Transfers, HandleBadNews(m, l) PROVE Recorded(k)'
  <2>1. \E status \in {"b2c_failed", "b2c_timeout"} : rows' = [rows EXCEPT ![l].status = status]
    BY <1>7 DEF HandleBadNews
  <2>2. QED BY <1>1, <2>1
<1>8. CASE RecordSettled
  <2>1. rows' = [rows EXCEPT ![api.key].status = "settled"]
    BY <1>8 DEF RecordSettled
  <2>2. QED BY <1>1, <2>1
<1>9. QED
  BY <1>2, <1>3, <1>4, <1>5, <1>6, <1>7, <1>8
     DEF Next, WorkerStep, Mine, PollOnce, FinishScan, EndPoll, B2cAccepted, DarajaStep,
         DarajaPays, DarajaFails, DarajaTimesOut, Decide, Handle, DropCallback,
         HandleB2cResult, ApiStep, BurnForPayout, BurnRefused, WorkerAborts, ApiAborts, ledger,
         vars

\* The scan leaves no transfer behind.
LEMMA ScanStep ==
  ASSUME Span >= Later, PayoutInv, ScanOK, NoTransferSkipped, [Next]_vars
  PROVE  ScanOK' /\ NoTransferSkipped'
<1> USE PayoutConstants DEF PayoutInv, TypeOK
<1>0. \A k \in Transfers : Recorded(k) => rows'[k].status # "none"
  BY RowsStay DEF Recorded
<1>1. CASE PollOnce
  <2>1. worker'.next = Start /\ rows' = rows /\ cursor' = cursor
    BY <1>1 DEF PollOnce, ledger, Worker
  <2>2. \A k \in Transfers : k < Start => Recorded(k)
    <3>1. CASE cursor = NoCursor
      BY <3>1 DEF Start, Later, Transfers
    <3>2. CASE cursor # NoCursor
      <4>1. cursor \in Nat /\ Start <= cursor + 1 /\ Start \in Nat
        BY <3>2 DEF Start, Lesser, Later
      <4>2. QED BY <3>2, <4>1 DEF NoTransferSkipped, Recorded, Transfers
    <3>3. QED BY <3>1, <3>2
  <2>3. QED BY <2>1, <2>2 DEF ScanOK, NoTransferSkipped, Recorded
<1>2. CASE HandleTransfer
  <2> DEFINE k == worker.next
  <2>1. worker'.next = k + 1 /\ worker.pc = "scan" /\ cursor' = cursor /\ k \in Nat
    BY <1>2 DEF HandleTransfer, Worker, Firing
  <2>2. k \in Transfers => rows'[k].status # "none"
    <3>1. CASE k \in Transfers /\ ~Recorded(k)
      <4>1. \E status \in {"pending", "held", "ignored"} : rows' = [rows EXCEPT ![k].status = status]
        BY <1>2, <3>1 DEF HandleTransfer, Recorded
      <4>2. DOMAIN rows = Transfers /\ rows[k] \in Row
        BY <3>1
      <4> HIDE DEF PayoutInv, TypeOK
      <4>3. QED BY <3>1, <4>1, <4>2 DEF Row
    <3>2. QED BY <1>0, <3>1
  <2>3. \A l \in Transfers : l < k + 1 => rows'[l].status # "none"
    <3>1. ASSUME NEW l \in Transfers, l < k + 1 PROVE rows'[l].status # "none"
      <4>1. l = k \/ l < k
        BY <2>1, <3>1 DEF Transfers
      <4>2. QED BY <1>0, <2>1, <2>2, <4>1 DEF ScanOK, Scanning
    <3>2. QED BY <3>1
  <2>4. QED BY <1>0, <2>1, <2>3 DEF ScanOK, NoTransferSkipped, Recorded
<1>3. CASE FinishScan
  <2>1. /\ cursor' = worker.upto /\ worker'.pc = "retry" /\ rows' = rows
        /\ worker.pc = "scan" /\ worker.next > worker.upto
        /\ worker.upto \in Nat /\ worker.next \in Nat
    BY <1>3 DEF FinishScan, Worker
  <2>2. \A k \in Transfers : k <= worker.upto => k < worker.next
    BY <2>1 DEF Transfers
  <2>3. QED BY <2>1, <2>2 DEF ScanOK, Scanning, AtOrder, NoTransferSkipped, Recorded
<1>4. CASE UNCHANGED cursor /\ (Scanning' => Scanning /\ worker'.next = worker.next)
  BY <1>0, <1>4 DEF ScanOK, NoTransferSkipped, Recorded
<1>5. CASE RetryFailed
  <2>1. cursor' = cursor /\ (worker'.pc = "retry" \/ (worker'.pc = "send" /\ worker'.back = "retry"))
    BY <1>5 DEF RetryFailed, Firing, Worker
  <2>2. QED BY <1>4, <2>1 DEF Scanning, AtOrder
<1>6. CASE EndPoll \/ WorkerAborts
  <2>1. worker' = Asleep /\ Asleep.pc = "sleep" /\ cursor' = cursor
    BY <1>6 DEF EndPoll, WorkerAborts, Asleep, ledger
  <2>2. worker'.pc = "sleep"
    BY <2>1
  <2>3. QED BY <1>4, <2>1, <2>2 DEF Scanning, AtOrder
<1>7. CASE B2cAccepted \/ B2cRejected \/ RecordSent
  <2>1. /\ cursor' = cursor /\ worker'.next = worker.next /\ AtOrder
        /\ worker'.back = worker.back /\ worker'.pc \in {"ack", worker.back}
    BY <1>7 DEF B2cAccepted, B2cRejected, RecordSent, Resume, ledger, Worker, AtOrder
  <2>2. worker.back \in {"scan", "retry"}
    BY DEF Worker
  <2>3. QED BY <1>4, <2>1, <2>2 DEF Scanning, AtOrder
<1>8. CASE UNCHANGED <<cursor, worker>>
  BY <1>4, <1>8 DEF Scanning, AtOrder
<1>9. QED
  BY <1>1, <1>2, <1>3, <1>5, <1>6, <1>7, <1>8
     DEF Next, WorkerStep, Mine, DarajaStep, DarajaPays, DarajaFails, DarajaTimesOut, Decide,
         Handle, DropCallback, HandleBadNews, HandleB2cResult, ApiStep, BurnForPayout,
         BurnRefused, RecordSettled, ApiAborts, ledger, vars

\* If one poll reaches back to the first block, then no crash at any point of a
\* poll makes the worker lose a transfer: what the cursor has passed has its row.
THEOREM NothingSkipped ==
  ASSUME Span >= Later
  PROVE  Spec => []NoTransferSkipped
<1>1. Init => ScanOK /\ NoTransferSkipped
  BY DEF Init, ScanOK, NoTransferSkipped, Scanning, AtOrder, Asleep
<1>2. PayoutInv /\ ScanOK /\ NoTransferSkipped /\ [Next]_vars => ScanOK' /\ NoTransferSkipped'
  BY ScanStep
<1>3. QED BY <1>1, <1>2, PayoutInvariant, PTL DEF Spec

-----------------------------------------------------------------------------
\* Without faults of the worker, and if Daraja never pays what it reported as
\* timed out, an order that failed or timed out is dead: it is not paid any
\* more.  Of the orders for a transfer at most one is alive: the one being
\* recorded, else the one whose conversation its row holds.
Dead(c) == calls[c].state \in {"failed", "expired"}
AllDead(k) == \A c \in DOMAIN calls : calls[c].key = k => Dead(c)
Acking(k) == worker.pc = "ack" /\ worker.key = k

OneAlive ==
    \A c \in DOMAIN calls : ~Dead(c) =>
        /\ Acking(calls[c].key) => c = worker.conv
        /\ ~Acking(calls[c].key) => c = rows[calls[c].key].conv

\* Bad news, and a row made retryable by it, are of an order that is dead.
BadNewsOK ==
    /\ \A m \in mail : m.news \in {"failure", "timeout"} => Dead(m.conv)
    /\ \A k \in Transfers : rows[k].status \in Retryable /\ rows[k].conv # 0 => Dead(rows[k].conv)

\* A payment is ordered, or about to be retried, when all earlier orders for
\* its transfer are dead; nothing was ordered for a transfer without a row.
FreshOK ==
    /\ worker.pc = "ack" => rows[worker.key].conv # worker.conv
    /\ worker.pc = "send" => AllDead(worker.key)
    /\ \A k \in worker.todo : AllDead(k) /\ Recorded(k) /\ (AtOrder => k # worker.key)
    /\ worker.pc = "sleep" \/ Scanning => worker.todo = {}
    /\ \A k \in Transfers : ~Recorded(k) => \A c \in DOMAIN calls : calls[c].key # k
    /\ AtOrder => Recorded(worker.key)

LiveInv == PayoutInv /\ OneAlive /\ BadNewsOK /\ FreshOK
NoLatePayment == WorkerFaults = 0 /\ ~PaysLate

LEMMA LiveInit == Init => LiveInv
<1> SUFFICES ASSUME Init PROVE LiveInv
  OBVIOUS
<1> USE PayoutConstants DEF Init
<1>1. PayoutInv
  BY PayoutInit
<1>2. OneAlive /\ BadNewsOK
  BY DEF OneAlive, BadNewsOK, Retryable
<1>3. FreshOK
  BY DEF FreshOK, AtOrder, Scanning, Asleep
<1>4. QED BY <1>1, <1>2, <1>3 DEF LiveInv

\* A step of the worker that orders and records nothing.
LEMMA LiveScan ==
  ASSUME LiveInv, PollOnce \/ HandleTransfer \/ FinishScan \/ RetryFailed \/ EndPoll
  PROVE  OneAlive' /\ BadNewsOK' /\ FreshOK'
<1>0. /\ worker \in Worker /\ worker.todo \subseteq Transfers
      /\ rows \in [Transfers -> Row] /\ \A k \in Transfers : rows[k] \in Row
      /\ \A c \in DOMAIN calls : calls[c].key \in Transfers
  BY DEF LiveInv, PayoutInv, TypeOK, Worker, OrdersOK, Fees
<1>i. OneAlive /\ BadNewsOK /\ FreshOK /\ OrdersOK /\ BurnsOK
  BY DEF LiveInv, PayoutInv
<1>d. \A c \in DOMAIN calls : c # 0
  BY DEF LiveInv, PayoutInv, TypeOK
<1> USE <1>i, <1>d
<1>1. CASE PollOnce
  <2>1. /\ UNCHANGED <<rows, calls, mail>> /\ worker.pc = "sleep" /\ worker'.pc = "scan"
        /\ worker'.todo = worker.todo
    BY <1>1 DEF PollOnce, ledger, Worker
  <2>2. QED
    BY <2>1 DEF OneAlive, BadNewsOK, FreshOK, Acking, AtOrder, AllDead, Dead, Scanning, Recorded
<1>2. CASE HandleTransfer
  <2> DEFINE k == worker.next
  <2>1. UNCHANGED <<calls, mail>> /\ worker.pc = "scan" /\ worker.todo = {}
    BY <1>2 DEF HandleTransfer, FreshOK, Scanning
  <2>2. CASE k \notin Transfers \/ Recorded(k)
    <3>1. rows' = rows /\ worker' = [worker EXCEPT !.next = k + 1]
      BY <1>2, <2>2 DEF HandleTransfer, Recorded
    <3>2. worker'.pc = "scan" /\ worker'.todo = {}
      BY <2>1, <3>1 DEF Worker
    <3>3. QED
      BY <2>1, <3>1, <3>2
         DEF OneAlive, BadNewsOK, FreshOK, Acking, AtOrder, AllDead, Dead, Recorded
  <2>3. CASE k \in Transfers /\ ~Recorded(k)
    <3>1. PICK status \in {"pending", "held", "ignored"} : rows' = [rows EXCEPT ![k].status = status]
      BY <1>2, <2>3 DEF HandleTransfer, Recorded
    <3>2. /\ worker'.todo = {} /\ worker'.pc \in {"scan", "send"}
          /\ worker'.pc = "send" => worker'.key = k
      BY <1>2, <2>1, <2>3 DEF HandleTransfer, Firing, Worker
    <3>3. /\ \A l \in Transfers : rows'[l].conv = rows[l].conv
          /\ \A l \in Transfers : l # k => rows'[l].status = rows[l].status
          /\ rows'[k].status = status
      <4>1. status \in Status
        BY DEF Status
      <4>2. QED BY <1>0, <2>3, <3>1, <4>1, RowsUpdated
    <3>4. OneAlive'
      BY <1>0, <2>1, <3>2, <3>3 DEF OneAlive, Acking, Dead
    <3>5. BadNewsOK'
      BY <2>1, <3>3 DEF BadNewsOK, Dead, Retryable
    <3>6. FreshOK'
      BY <2>1, <2>3, <3>2, <3>3 DEF FreshOK, AtOrder, AllDead, Dead, Recorded
    <3>7. QED BY <3>4, <3>5, <3>6
  <2>4. QED BY <2>2, <2>3
<1>3. CASE FinishScan
  <2>1. /\ UNCHANGED <<rows, calls, mail>> /\ worker.pc = "scan" /\ worker'.pc = "retry"
        /\ worker'.todo = {k \in Transfers : rows[k].status \in Retryable}
    BY <1>3 DEF FinishScan, Worker
  <2>2. ASSUME NEW k \in worker'.todo PROVE AllDead(k) /\ Recorded(k)
    <3>1. k \in Transfers /\ rows[k].status \in Retryable /\ Recorded(k)
      BY <2>1 DEF Recorded, Retryable
    <3>2. ASSUME NEW c \in DOMAIN calls, calls[c].key = k, ~Dead(c) PROVE FALSE
      <4>1. c = rows[k].conv
        BY <2>1, <3>2 DEF OneAlive, Acking
      <4>2. c # 0
        OBVIOUS
      <4>3. QED BY <3>1, <3>2, <4>1, <4>2 DEF BadNewsOK
    <3>3. QED BY <3>1, <3>2 DEF AllDead
  <2>3. OneAlive' /\ BadNewsOK'
    BY <2>1 DEF OneAlive, BadNewsOK, Acking, Dead
  <2>4. FreshOK'
    BY <2>1, <2>2 DEF FreshOK, AtOrder, Scanning, AllDead, Dead, Recorded
  <2>5. QED BY <2>3, <2>4
<1>4. CASE RetryFailed
  <2>1. PICK k \in Oldest(worker.todo) :
          LET next == IF OutOfAttempts(k) THEN worker ELSE Firing(k, "retry")
          IN /\ rows' = IF OutOfAttempts(k) THEN [rows EXCEPT ![k].status = "exhausted"] ELSE rows
             /\ worker' = [next EXCEPT !.todo = @ \ {k}]
    BY <1>4 DEF RetryFailed
  <2>2. /\ UNCHANGED <<calls, mail>> /\ worker.pc = "retry" /\ k \in worker.todo /\ k \in Transfers
    BY <1>0, <1>4, <2>1 DEF RetryFailed, Oldest
  <2>3. CASE OutOfAttempts(k)
    <3>1. worker'.pc = "retry" /\ worker'.todo \subseteq worker.todo
      BY <1>0, <2>1, <2>2, <2>3 DEF Worker
    <3>2. /\ \A l \in Transfers : rows'[l].conv = rows[l].conv
          /\ \A l \in Transfers : l # k => rows'[l].status = rows[l].status
          /\ rows'[k].status = "exhausted"
      BY <1>0, <2>1, <2>2, <2>3 DEF Row
    <3>3. OneAlive'
      BY <1>0, <2>2, <3>1, <3>2 DEF OneAlive, Acking, Dead
    <3>4. BadNewsOK'
      BY <2>2, <3>2 DEF BadNewsOK, Dead, Retryable
    <3>5. FreshOK'
      BY <1>0, <2>2, <3>1, <3>2 DEF FreshOK, AtOrder, Scanning, AllDead, Dead, Recorded
    <3>6. QED BY <3>3, <3>4, <3>5
  <2>4. CASE ~OutOfAttempts(k)
    <3>1. /\ worker'.pc = "send" /\ worker'.key = k /\ worker'.back = "retry"
          /\ worker'.todo = worker.todo \ {k} /\ rows' = rows
      BY <1>0, <2>1, <2>4 DEF Worker, Firing
    <3>2. OneAlive' /\ BadNewsOK'
      BY <2>2, <3>1 DEF OneAlive, BadNewsOK, Acking, Dead
    <3>3. FreshOK'
      BY <2>2, <3>1 DEF FreshOK, AtOrder, Scanning, AllDead, Dead, Recorded
    <3>4. QED BY <3>2, <3>3
  <2>5. QED BY <2>3, <2>4
<1>5. CASE EndPoll
  <2>1. /\ UNCHANGED <<rows, calls, mail>> /\ worker.pc = "retry"
        /\ worker'.pc = "sleep" /\ worker'.todo = {}
    BY <1>5 DEF EndPoll, ledger, Asleep
  <2>2. QED
    BY <2>1 DEF OneAlive, BadNewsOK, FreshOK, Acking, AtOrder, AllDead, Dead, Recorded
<1>6. QED BY <1>1, <1>2, <1>3, <1>4, <1>5

\* Ordering a payment and recording the answer.
LEMMA LiveOrder ==
  ASSUME LiveInv, B2cAccepted \/ B2cRejected \/ RecordSent
  PROVE  OneAlive' /\ BadNewsOK' /\ FreshOK'
<1>0. /\ worker \in Worker /\ worker.todo \subseteq Transfers
      /\ rows \in [Transfers -> Row] /\ \A k \in Transfers : rows[k] \in Row
      /\ \A c \in DOMAIN calls : calls[c].key \in Transfers
      /\ worker.back \in {"scan", "retry"} /\ AtOrder /\ worker.key \in Transfers
  BY DEF LiveInv, PayoutInv, TypeOK, Worker, OrdersOK, Fees, WorkerOK, AtOrder,
         B2cAccepted, B2cRejected, RecordSent
<1>i. OneAlive /\ BadNewsOK /\ FreshOK /\ OrdersOK /\ BurnsOK /\ calls \in Seq(Call)
  BY DEF LiveInv, PayoutInv, TypeOK
<1> USE <1>i
<1>1. CASE B2cAccepted
  <2> DEFINE new == Len(calls) + 1
  <2>1. /\ UNCHANGED <<rows, mail>> /\ worker.pc = "send" /\ worker'.pc = "ack"
        /\ worker'.conv = new /\ worker'.key = worker.key
        /\ worker'.todo = worker.todo /\ worker'.back = worker.back
    BY <1>1 DEF B2cAccepted, ledger, Worker
  <2>2. /\ DOMAIN calls = 1 .. Len(calls) /\ Len(calls) \in Nat
        /\ calls' = Append(calls, [key |-> worker.key, state |-> "accepted"])
    BY <1>1 DEF B2cAccepted
  <2>3. /\ \A c \in DOMAIN calls' : c \in DOMAIN calls \/ c = new
        /\ \A c \in DOMAIN calls : c \in DOMAIN calls' /\ c # new /\ calls'[c] = calls[c]
        /\ calls'[new].key = worker.key
    BY <2>2
  <2>4. \A k \in Transfers : k # worker.key /\ AllDead(k) => AllDead(k)'
    BY <2>3 DEF AllDead, Dead
  <2>5. OneAlive'
    BY <1>0, <2>1, <2>3 DEF OneAlive, Acking, Dead, FreshOK, AllDead
  <2>6. BadNewsOK'
    BY <1>0, <2>1, <2>3 DEF BadNewsOK, Dead, BurnsOK, OrdersOK
  <2>7. FreshOK'
    <3>1. rows[worker.key].conv # new
      <4>1. 0 # new /\ new \notin DOMAIN calls
        BY <2>2
      <4>2. QED BY <1>0, <4>1 DEF OrdersOK
    <3>2. \A k \in worker'.todo : AllDead(k)' /\ Recorded(k)' /\ k # worker'.key
      BY <1>0, <2>1, <2>4 DEF FreshOK, Recorded
    <3>3. Scanning' => Scanning
      BY <2>1 DEF Scanning, AtOrder
    <3>4. \A k \in Transfers : ~Recorded(k) => \A c \in DOMAIN calls' : calls'[c].key # k
      BY <1>0, <2>3 DEF FreshOK
    <3>5. QED BY <1>0, <2>1, <3>1, <3>2, <3>3, <3>4 DEF FreshOK, AtOrder, Recorded
  <2>8. QED BY <2>5, <2>6, <2>7
<1>2. CASE B2cRejected
  <2> DEFINE k == worker.key
  <2>1. /\ UNCHANGED <<calls, mail>> /\ worker.pc = "send" /\ worker'.pc = worker.back
        /\ worker'.todo = worker.todo
    BY <1>2 DEF B2cRejected, Resume, Worker
  <2>2. /\ \A l \in Transfers : rows'[l].conv = rows[l].conv
        /\ \A l \in Transfers : l # k => rows'[l].status = rows[l].status
        /\ rows'[k].status = "b2c_failed"
    BY <1>0, <1>2 DEF B2cRejected, Row
  <2>3. OneAlive'
    BY <1>0, <2>1, <2>2 DEF OneAlive, Acking, Dead
  <2>4. BadNewsOK'
    BY <1>0, <2>1, <2>2 DEF BadNewsOK, Dead, FreshOK, AllDead, OrdersOK
  <2>5. FreshOK'
    BY <1>0, <2>1, <2>2 DEF FreshOK, AtOrder, Scanning, AllDead, Dead, Recorded
  <2>6. QED BY <2>3, <2>4, <2>5
<1>3. CASE RecordSent
  <2> DEFINE k == worker.key
  <2>1. /\ UNCHANGED <<calls, mail>> /\ worker.pc = "ack" /\ worker'.pc = worker.back
        /\ worker'.todo = worker.todo
    BY <1>3 DEF RecordSent, Resume, Worker
  <2>2. /\ \A l \in Transfers : l # k => rows'[l] = rows[l]
        /\ rows'[k].status = "b2c_sent" /\ rows'[k].conv = worker.conv
    BY <1>0, <1>3 DEF RecordSent
  <2>3. OneAlive'
    BY <1>0, <2>1, <2>2 DEF OneAlive, Acking, Dead
  <2>4. BadNewsOK'
    BY <1>0, <2>1, <2>2 DEF BadNewsOK, Dead, Retryable
  <2>5. FreshOK'
    <3>1. \A l \in Transfers : Recorded(l) => Recorded(l)'
      BY <2>2 DEF Recorded
    <3>2. ~AtOrder' /\ (Scanning' => Scanning)
      BY <1>0, <2>1 DEF AtOrder, Scanning
    <3>3. \A l \in worker'.todo : AllDead(l)' /\ Recorded(l)'
      BY <1>0, <2>1, <3>1 DEF FreshOK, AllDead, Dead
    <3>4. QED BY <1>0, <2>1, <3>1, <3>2, <3>3 DEF FreshOK, AtOrder
  <2>6. QED BY <2>3, <2>4, <2>5
<1>4. QED BY <1>1, <1>2, <1>3

\* What Daraja decides of an order: nothing is paid that was given up.
LEMMA DarajaDecides ==
  ASSUME NoLatePayment, DarajaStep
  PROVE  \E c \in DOMAIN calls, to \in {"paid", "failed", "expired"},
            news \in {"success", "failure", "timeout"} :
           /\ Decide(c, {"accepted"}, to, news)
           /\ to = "paid" <=> news = "success"
<1>1. \A c : DarajaPays(c) => Decide(c, {"accepted"}, "paid", "success")
  BY DEF NoLatePayment, DarajaPays
<1>2. PICK c \in DOMAIN calls : DarajaPays(c) \/ DarajaFails(c) \/ DarajaTimesOut(c)
  BY DEF DarajaStep
<1>3. CASE DarajaPays(c)
  BY <1>1, <1>3
<1>4. CASE DarajaFails(c)
  <2>1. Decide(c, {"accepted"}, "failed", "failure")
    BY <1>4 DEF DarajaFails
  <2>2. QED BY <2>1
<1>5. CASE DarajaTimesOut(c)
  <2>1. Decide(c, {"accepted"}, "expired", "timeout")
    BY <1>5 DEF DarajaTimesOut
  <2>2. QED BY <2>1
<1>6. QED BY <1>2, <1>3, <1>4, <1>5

\* How Daraja's decision changes the book.
LEMMA DecideBook ==
  ASSUME PayoutInv, NEW c \in DOMAIN calls, NEW from, NEW to, NEW news, Decide(c, from, to, news)
  PROVE  /\ DOMAIN calls' = DOMAIN calls /\ calls[c].state \in from /\ calls'[c].state = to
         /\ \A d \in DOMAIN calls : calls'[d].key = calls[d].key
         /\ \A d \in DOMAIN calls : d # c => calls'[d] = calls[d]
<1>1. calls[c] \in Call /\ calls' = [calls EXCEPT ![c].state = to] /\ calls[c].state \in from
  BY DEF Decide, PayoutInv, TypeOK
<1>2. DOMAIN calls' = DOMAIN calls /\ \A d \in DOMAIN calls : d # c => calls'[d] = calls[d]
  BY <1>1
<1>3. calls'[c] = [calls[c] EXCEPT !.state = to]
  BY <1>1
<1>4. calls'[c].state = to /\ calls'[c].key = calls[c].key
  BY <1>1, <1>3 DEF Call
<1>5. QED BY <1>1, <1>2, <1>4

LEMMA LiveDaraja ==
  ASSUME LiveInv, NoLatePayment, DarajaStep
  PROVE  OneAlive' /\ BadNewsOK' /\ FreshOK'
<1> USE DEF LiveInv
<1>1. PICK c \in DOMAIN calls, to \in {"paid", "failed", "expired"},
            news \in {"success", "failure", "timeout"} :
        Decide(c, {"accepted"}, to, news) /\ (to = "paid" <=> news = "success")
  BY DarajaDecides
<1>2. /\ DOMAIN calls' = DOMAIN calls /\ calls[c].state = "accepted" /\ calls'[c].state = to
      /\ \A d \in DOMAIN calls : calls'[d].key = calls[d].key
      /\ \A d \in DOMAIN calls : d # c => calls'[d] = calls[d]
  BY <1>1, DecideBook
<1>3. /\ UNCHANGED <<rows, worker>>
      /\ \A m \in mail' : m \in mail \/ m = [conv |-> c, news |-> news]
  BY <1>1 DEF Decide, ledger
<1>4. \A d \in DOMAIN calls : Dead(d) => Dead(d)'
  BY <1>2 DEF Dead
<1>5. \A k : AllDead(k) => AllDead(k)'
  BY <1>2, <1>4 DEF AllDead
<1>6. OneAlive'
  BY <1>2, <1>3, <1>4 DEF OneAlive, Acking
<1>7. BadNewsOK'
  <2>1. ASSUME NEW m \in mail', m.news \in {"failure", "timeout"} PROVE Dead(m.conv)'
    <3>1. CASE m \in mail
      BY <1>4, <2>1, <3>1 DEF BadNewsOK, PayoutInv, BurnsOK
    <3>2. CASE m = [conv |-> c, news |-> news]
      BY <1>1, <1>2, <2>1, <3>2 DEF Dead
    <3>3. QED BY <1>3, <3>1, <3>2
  <2>2. ASSUME NEW k \in Transfers, rows[k].status \in Retryable, rows[k].conv # 0
        PROVE  Dead(rows[k].conv)'
    <3>1. rows[k].conv \in DOMAIN calls /\ Dead(rows[k].conv)
      BY <2>2 DEF BadNewsOK, PayoutInv, OrdersOK
    <3>2. QED BY <1>3, <1>4, <3>1 DEF Dead
  <2>3. QED BY <1>3, <2>1, <2>2 DEF BadNewsOK, Dead
<1>8. FreshOK'
  BY <1>2, <1>3, <1>5 DEF FreshOK, Recorded, AtOrder, Scanning
<1>9. QED BY <1>6, <1>7, <1>8

\* The callback handler only ever makes a row retryable whose order is dead.
LEMMA LiveApi ==
  ASSUME LiveInv, Mine \/ ApiStep \/ ApiAborts \/ \E m \in mail : Handle(m)
  PROVE  OneAlive' /\ BadNewsOK' /\ FreshOK'
<1> USE DEF LiveInv, PayoutInv, TypeOK
<1>0. /\ worker.todo \subseteq Transfers /\ \A k \in Transfers : rows[k] \in Row
      /\ \A c \in DOMAIN calls : calls[c].key \in Transfers
      /\ AtOrder => worker.key \in Transfers
  BY DEF Worker, OrdersOK, Fees, WorkerOK
<1>1. UNCHANGED <<worker, calls>> /\ mail' \subseteq mail
  BY DEF Mine, ApiStep, BurnForPayout, BurnRefused, RecordSettled, ApiAborts, Handle,
         DropCallback, HandleBadNews, HandleB2cResult, Received, ledger
<1>2. ASSUME NEW k \in Transfers, NEW status, rows' = [rows EXCEPT ![k].status = status],
             status # "none", status \in Retryable /\ rows[k].conv # 0 => Dead(rows[k].conv)
      PROVE  OneAlive' /\ BadNewsOK' /\ FreshOK'
  <2>1. /\ \A l \in Transfers : rows'[l].conv = rows[l].conv
        /\ \A l \in Transfers : l # k => rows'[l].status = rows[l].status
        /\ rows'[k].status = status
    BY <1>0, <1>2 DEF Row
  <2>2. \A l \in Transfers : Recorded(l) => Recorded(l)'
    BY <1>2, <2>1 DEF Recorded
  <2>3. OneAlive'
    BY <1>0, <1>1, <2>1 DEF OneAlive, Acking, Dead
  <2>4. BadNewsOK'
    BY <1>1, <1>2, <2>1 DEF BadNewsOK, Dead
  <2>5. FreshOK'
    BY <1>0, <1>1, <2>1, <2>2 DEF FreshOK, AtOrder, Scanning, AllDead, Dead
  <2>6. QED BY <2>3, <2>4, <2>5
<1>3. CASE rows' = rows
  BY <1>1, <1>3 DEF OneAlive, BadNewsOK, FreshOK, Acking, AtOrder, Scanning, AllDead, Dead, Recorded
<1>4. ASSUME NEW m \in mail, NEW k \in Transfers, HandleBadNews(m, k)
      PROVE  OneAlive' /\ BadNewsOK' /\ FreshOK'
  <2>1. /\ m.news \in {"failure", "timeout"} /\ rows[k].conv = m.conv
        /\ \E status \in {"b2c_failed", "b2c_timeout"} : rows' = [rows EXCEPT ![k].status = status]
    BY <1>4 DEF HandleBadNews, Matches
  <2>2. Dead(rows[k].conv)
    BY <2>1 DEF BadNewsOK
  <2>3. QED BY <1>2, <2>1, <2>2
<1>5. CASE RecordSettled
  <2>1. api.key \in Transfers /\ rows' = [rows EXCEPT ![api.key].status = "settled"]
    BY <1>5 DEF RecordSettled, BurnsOK
  <2>2. "settled" \notin Retryable
    BY DEF Retryable
  <2>3. QED BY <1>2, <2>1, <2>2
<1>6. QED
  BY <1>3, <1>4, <1>5
     DEF Mine, ApiStep, BurnForPayout, BurnRefused, ApiAborts, Handle, DropCallback,
         HandleB2cResult, ledger

LEMMA LiveStep ==
  ASSUME NoLatePayment
  PROVE  LiveInv /\ [Next]_vars => LiveInv'
<1> SUFFICES ASSUME LiveInv, [Next]_vars PROVE LiveInv'
  OBVIOUS
<1>1. PayoutInv'
  BY PayoutStep DEF LiveInv
<1>2. CASE Next
  <2>1. ~WorkerAborts
    BY DEF NoLatePayment, WorkerAborts, LiveInv, PayoutInv, TypeOK
  <2>2. QED
    BY <1>1, <1>2, <2>1, LiveScan, LiveOrder, LiveDaraja, LiveApi DEF LiveInv, Next, WorkerStep
<1>3. CASE UNCHANGED vars
  BY <1>1, <1>3 DEF vars, ledger, LiveInv, OneAlive, BadNewsOK, FreshOK, Acking, AtOrder,
                    Scanning, AllDead, Dead, Recorded
<1>4. QED BY <1>2, <1>3

LEMMA LiveInvariant ==
  ASSUME NoLatePayment
  PROVE  Spec => []LiveInv
<1>1. LiveInv /\ [Next]_vars => LiveInv'
  BY LiveStep
<1>2. QED BY <1>1, LiveInit, PTL DEF Spec

\* All paid orders for a transfer are one order.
LEMMA OnePaidOrder ==
  ASSUME LiveInv, NEW c \in DOMAIN calls, NEW d \in DOMAIN calls, calls[c].key = calls[d].key,
         ~Dead(c), ~Dead(d)
  PROVE  c = d
BY DEF LiveInv, OneAlive

\* A set of at most one order.
LEMMA AtMostOne ==
  ASSUME PayoutInv, NEW S \in SUBSET (DOMAIN calls), \A c, d \in S : c = d
  PROVE  Cardinality(S) \in {0, 1} /\ (Cardinality(S) = 1 <=> S # {})
<1>1. CASE S = {}
  BY <1>1, FS_EmptySet
<1>2. CASE S # {}
  <2>1. PICK c : S = {c}
    BY <1>2
  <2>2. QED BY <2>1, FS_Singleton
<1>3. QED BY <1>1, <1>2

\* As long as the worker neither crashes nor loses an acknowledgement, and
\* Daraja does not pay what it reported as timed out, no retry pays a transfer
\* a second time, whatever callbacks repeat and whenever callback handlers die.
THEOREM PaidOnce ==
  ASSUME NoLatePayment
  PROVE  Spec => []PaidAtMostOnce
<1>1. LiveInv => PaidAtMostOnce
  <2>1. ASSUME LiveInv, NEW k \in Transfers PROVE Paid(k) <= 1
    <3> DEFINE S == {c \in DOMAIN calls : calls[c].key = k /\ calls[c].state = "paid"}
    <3>1. \A c, d \in S : c = d
      BY <2>1, OnePaidOrder DEF Dead
    <3>2. Cardinality(S) \in {0, 1}
      BY <2>1, <3>1, AtMostOne DEF LiveInv
    <3>3. QED BY <3>2 DEF Paid
  <2>2. QED BY <2>1 DEF PaidAtMostOnce
<1>2. QED BY <1>1, LiveInvariant, PTL

-----------------------------------------------------------------------------
\* If no callback handler fails either, the ledger, the bridge and Daraja's
\* book agree: the order a settled row names was paid, so was that of the row
\* being settled, and those and no others are burned, once each.
Settled(k) == rows[k].status = "settled"
Won(k) == rows[k].conv # 0 /\ calls[rows[k].conv].state = "paid"
Burnt(k) == Settled(k) \/ (api.pc = "burned" /\ api.key = k)

BurnedOK ==
    /\ \A k \in Transfers : burned[k] \in {0, 1} /\ (burned[k] = 1 <=> Burnt(k))
    /\ \A k \in Transfers : Settled(k) => Won(k)
    /\ \A k \in Transfers : api.pc # "idle" /\ api.key = k => ~Settled(k) /\ Won(k)

NoFaults == NoLatePayment /\ ApiFaults = 0

\* A row whose order was paid keeps that order and is not taken back from
\* "settled"; and only the callback handler settles a row.
RowAfter(k) ==
    /\ Won(k) => rows'[k].conv = rows[k].conv
    /\ Won(k) /\ Settled(k) => Settled(k)'
    /\ Settled(k)' => Settled(k) \/ (RecordSettled /\ k = api.key)

LEMMA WonStays ==
  ASSUME LiveInv, Next, NEW k \in Transfers
  PROVE  RowAfter(k)
<1> USE DEF LiveInv, PayoutInv, TypeOK
<1>0. rows[k] \in Row /\ DOMAIN rows = Transfers /\ k \in Transfers
  OBVIOUS
<1>1. Won(k) => rows[k].conv \in DOMAIN calls /\ calls[rows[k].conv].key = k /\ ~Dead(rows[k].conv)
  BY DEF Won, Dead, OrdersOK
<1>2. AllDead(k) => ~Won(k)
  BY <1>1 DEF AllDead
<1>3. ASSUME NEW l, NEW status, rows' = [rows EXCEPT ![l].status = status],
             l = k => status # "settled" /\ ~(Won(k) /\ Settled(k))
      PROVE  RowAfter(k)
  <2>1. /\ rows'[k].conv = rows[k].conv
        /\ IF l = k THEN rows'[k].status = status ELSE rows'[k].status = rows[k].status
    BY <1>0, <1>3 DEF Row
  <2>2. QED BY <1>3, <2>1 DEF RowAfter, Settled
<1>4. CASE rows' = rows
  BY <1>4 DEF RowAfter, Settled
<1>5. CASE HandleTransfer
  <2>1. rows' = rows \/ \E l \in Transfers, status \in {"pending", "held", "ignored"} :
          ~Recorded(l) /\ rows' = [rows EXCEPT ![l].status = status]
    BY <1>5 DEF HandleTransfer, Recorded
  <2>2. ~Recorded(k) => ~Settled(k)
    BY DEF Recorded, Settled
  <2>3. QED BY <1>3, <1>4, <2>1, <2>2
<1>6. CASE RetryFailed
  <2>1. rows' = rows \/ \E l \in worker.todo : rows' = [rows EXCEPT ![l].status = "exhausted"]
    BY <1>6 DEF RetryFailed, Oldest
  <2>2. \A l \in worker.todo : AllDead(l)
    BY DEF FreshOK
  <2>3. QED BY <1>2, <1>3, <1>4, <2>1, <2>2
<1>7. CASE B2cRejected
  <2>1. /\ rows'[k].conv = rows[k].conv
        /\ IF worker.key = k THEN rows'[k].status = "b2c_failed" ELSE rows'[k] = rows[k]
    BY <1>0, <1>7 DEF B2cRejected, Row
  <2>2. AllDead(worker.key)
    BY <1>7 DEF B2cRejected, FreshOK
  <2>3. QED BY <1>2, <2>1, <2>2 DEF RowAfter, Settled
<1>8. CASE RecordSent
  <2>1. IF worker.key = k THEN rows'[k].status = "b2c_sent" ELSE rows'[k] = rows[k]
    BY <1>0, <1>8 DEF RecordSent
  <2>2. ~(Won(k) /\ worker.key = k)
    BY <1>1, <1>8 DEF RecordSent, FreshOK, OneAlive, Acking
  <2>3. QED BY <2>1, <2>2 DEF RowAfter, Settled
<1>9. ASSUME NEW m \in mail, NEW l \in Transfers, HandleBadNews(m, l) PROVE RowAfter(k)
  <2>1. ~Settled(l) /\ \E status \in {"b2c_failed", "b2c_timeout"} :
          rows' = [rows EXCEPT ![l].status = status]
    BY <1>9 DEF HandleBadNews, Settled
  <2>2. QED BY <1>3, <2>1
<1>10. CASE RecordSettled
  <2>1. /\ rows'[k].conv = rows[k].conv
        /\ IF api.key = k THEN rows'[k].status = "settled" ELSE rows'[k].status = rows[k].status
    BY <1>0, <1>10 DEF RecordSettled, Row
  <2>2. QED BY <1>10, <2>1 DEF RowAfter, Settled
<1>11. QED
  BY <1>4, <1>5, <1>6, <1>7, <1>8, <1>9, <1>10
     DEF Next, WorkerStep, Mine, PollOnce, FinishScan, EndPoll, B2cAccepted, DarajaStep,
         DarajaPays, DarajaFails, DarajaTimesOut, Decide, Handle, DropCallback,
         HandleB2cResult, ApiStep, BurnForPayout, BurnRefused, WorkerAborts, ApiAborts, ledger

LEMMA BurnedStep ==
  ASSUME LiveInv, BurnedOK, ApiFaults = 0, [Next]_vars
  PROVE  BurnedOK'
<1> USE DEF LiveInv, PayoutInv, TypeOK
<1>0. api.pc # "idle" => api.key \in Transfers
  BY DEF BurnsOK
<1>1. CASE Next
  <2>1. BookGrows /\ \A k \in Transfers : RowAfter(k)
    BY <1>1, BookStep, WonStays
  <2>2. \A k \in Transfers : Won(k) => Won(k)'
    <3>1. \A k \in Transfers : Won(k) => rows[k].conv \in DOMAIN calls
      BY DEF Won, OrdersOK
    <3>2. QED BY <2>1, <3>1 DEF Won, RowAfter, BookGrows
  <2>3. \A k \in Transfers : Settled(k) => Settled(k)' /\ Won(k)
    BY <2>1 DEF BurnedOK, RowAfter
  <2>4. \A k \in Transfers : Settled(k)' => Won(k)'
    <3>1. ASSUME NEW k \in Transfers, Settled(k)' PROVE Won(k)
      <4>1. CASE Settled(k)
        BY <2>3, <4>1
      <4>2. CASE RecordSettled /\ k = api.key
        BY <1>0, <4>2 DEF RecordSettled, BurnedOK
      <4>3. QED BY <2>1, <3>1, <4>1, <4>2 DEF RowAfter
    <3>2. QED BY <2>2, <3>1
  <2>5. CASE RecordSettled
    <3>1. /\ api.pc = "burned" /\ api'.pc = "idle" /\ burned' = burned
          /\ rows' = [rows EXCEPT ![api.key].status = "settled"] /\ api.key \in Transfers
      BY <1>0, <2>5 DEF RecordSettled, IdleApi
    <3>2. rows'[api.key].status = "settled"
      <4>1. rows[api.key] \in Row /\ rows'[api.key] = [rows[api.key] EXCEPT !.status = "settled"]
        BY <3>1
      <4>2. QED BY <4>1 DEF Row
    <3>3. \A k \in Transfers : k = api.key => Settled(k)'
      BY <3>2 DEF Settled
    <3>4. \A k \in Transfers : Burnt(k)' <=> Burnt(k)
      BY <2>1, <2>3, <3>1, <3>3 DEF Burnt, RowAfter
    <3>5. QED BY <2>4, <3>1, <3>4 DEF BurnedOK
  <2>6. ASSUME ~RecordSettled
        PROVE  \A k \in Transfers : Settled(k)' <=> Settled(k)
    BY <2>1, <2>3, <2>6 DEF RowAfter
  <2>7. CASE BurnForPayout
    <3>1. /\ api.pc = "burning" /\ api' = [api EXCEPT !.pc = "burned"] /\ api.key \in Transfers
          /\ burned' = [burned EXCEPT ![api.key] = @ + 1]
      BY <1>0, <2>7 DEF BurnForPayout, Credit
    <3>2. api'.pc = "burned" /\ api'.key = api.key /\ rows' = rows /\ calls' = calls
      BY <2>7, <3>1 DEF BurnForPayout, ledger
    <3>3. ~Burnt(api.key) /\ burned[api.key] = 0
      BY <3>1 DEF BurnedOK, Burnt
    <3>4. burned'[api.key] = 1 /\ \A k \in Transfers : k # api.key => burned'[k] = burned[k]
      BY <3>1, <3>3
    <3>5. \A k \in Transfers : Burnt(k)' <=> Burnt(k) \/ k = api.key
      BY <3>1, <3>2 DEF Burnt, Settled
    <3>6. \A k \in Transfers : burned'[k] \in {0, 1} /\ (burned'[k] = 1 <=> Burnt(k)')
      BY <3>4, <3>5 DEF BurnedOK
    <3>7. \A k \in Transfers : api.key = k => ~Settled(k)' /\ Won(k)'
      BY <3>1, <3>2 DEF BurnedOK, Settled, Won
    <3>8. QED BY <2>4, <3>2, <3>6, <3>7 DEF BurnedOK
  <2>8. ASSUME NEW m \in mail, NEW k \in Transfers, HandleB2cResult(m, k) PROVE BurnedOK'
    <3>1. /\ api.pc = "idle" /\ api'.pc = "burning" /\ api'.key = k
          /\ rows' = rows /\ calls' = calls /\ burned' = burned
          /\ m.news = "success" /\ rows[k].conv = m.conv /\ m.conv # 0 /\ ~Settled(k)
      BY <2>8 DEF HandleB2cResult, Matches, Mail, ledger, Settled
    <3>2. Won(k)
      BY <3>1 DEF Won, BurnsOK
    <3>3. ~Settled(k)' /\ Won(k)'
      BY <3>1, <3>2 DEF Settled, Won
    <3>4. \A l \in Transfers : Burnt(l)' <=> Burnt(l)
      BY <3>1 DEF Burnt, Settled
    <3>5. QED BY <2>4, <3>1, <3>3, <3>4 DEF BurnedOK
  <2>9. CASE BurnRefused
    <3>1. api.pc = "burning" /\ api'.pc = "idle" /\ rows' = rows /\ burned' = burned
      BY <2>9 DEF BurnRefused, IdleApi, ledger
    <3>2. \A l \in Transfers : Burnt(l)' <=> Burnt(l)
      BY <3>1 DEF Burnt, Settled
    <3>3. QED BY <2>4, <3>1, <3>2 DEF BurnedOK
  <2>10. CASE api' = api /\ burned' = burned /\ ~RecordSettled
    <3>1. \A k \in Transfers : Burnt(k)' <=> Burnt(k)
      BY <2>6, <2>10 DEF Burnt
    <3>2. \A k \in Transfers : api.pc # "idle" /\ api.key = k => ~Settled(k)' /\ Won(k)'
      BY <2>2, <2>6, <2>10 DEF BurnedOK
    <3>3. QED BY <2>4, <2>10, <3>1, <3>2 DEF BurnedOK
  <2>11. ~ApiAborts
    BY DEF ApiAborts
  <2>12. CASE ~ApiStep /\ ~ApiAborts /\ ~\E m \in mail : \E k \in Transfers : HandleB2cResult(m, k)
    <3>1. api' = api /\ burned' = burned
      BY <1>1, <2>12 DEF Next, WorkerStep, Mine, PollOnce, HandleTransfer, FinishScan,
         RetryFailed, EndPoll, B2cAccepted, B2cRejected, RecordSent, DarajaStep, DarajaPays,
         DarajaFails, DarajaTimesOut, Decide, Handle, DropCallback, HandleBadNews, WorkerAborts
    <3>2. QED BY <2>10, <2>12, <3>1 DEF ApiStep
  <2>13. QED BY <1>1, <2>5, <2>7, <2>8, <2>9, <2>11, <2>12 DEF ApiStep
<1>2. CASE UNCHANGED vars
  BY <1>2 DEF vars, ledger, BurnedOK, Burnt, Settled, Won
<1>3. QED BY <1>1, <1>2

-----------------------------------------------------------------------------
\* A transfer counts as paid once, or not at all, and it does when the book
\* holds a paid order for it.
PaidKnown == \A k \in Transfers : Paid(k) = IF HasPaid(k) THEN 1 ELSE 0

LEMMA PaidIs == LiveInv => PaidKnown
<1>1. ASSUME LiveInv, NEW k \in Transfers
      PROVE  Paid(k) = IF HasPaid(k) THEN 1 ELSE 0
  <2> DEFINE S == {c \in DOMAIN calls : calls[c].key = k /\ calls[c].state = "paid"}
  <2>1. \A c, d \in S : c = d
    BY <1>1, OnePaidOrder DEF Dead
  <2>2. Cardinality(S) \in {0, 1} /\ (Cardinality(S) = 1 <=> S # {})
    BY <1>1, <2>1, AtMostOne DEF LiveInv
  <2>3. S # {} <=> HasPaid(k)
    BY DEF HasPaid
  <2>4. QED BY <2>2, <2>3 DEF Paid
<1>2. QED BY <1>1 DEF PaidKnown

\* Only Daraja's decisions change what is paid.
LEMMA PaidChanges ==
  ASSUME PayoutInv, Next, ~DarajaStep, NEW k
  PROVE  HasPaid(k)' <=> HasPaid(k)
<1> USE DEF PayoutInv, TypeOK
<1>1. CASE B2cAccepted
  <2>1. calls' = Append(calls, [key |-> worker.key, state |-> "accepted"])
    BY <1>1 DEF B2cAccepted
  <2>2. \A c \in DOMAIN calls : c \in DOMAIN calls' /\ calls'[c] = calls[c]
    BY <2>1
  <2>3. \A c \in DOMAIN calls' : c \in DOMAIN calls \/ calls'[c].state = "accepted"
    BY <2>1
  <2>4. QED BY <2>2, <2>3 DEF HasPaid
<1>2. CASE ~B2cAccepted
  <2>1. calls' = calls
    BY <1>2 DEF Next, WorkerStep, Mine, PollOnce, HandleTransfer, FinishScan, RetryFailed,
                EndPoll, B2cRejected, RecordSent, Handle, DropCallback, HandleBadNews,
                HandleB2cResult, ApiStep, BurnForPayout, BurnRefused, RecordSettled,
                WorkerAborts, ApiAborts
  <2>2. QED BY <2>1 DEF HasPaid
<1>3. QED BY <1>1, <1>2

PaidAmounts == [k \in Transfers |-> Paid(k)]

\* Daraja paying an order is FeePayout's Pay, the mining of a burn its Burn;
\* every other step changes neither what is paid nor what is burned.
LEMMA IdealStep ==
  ASSUME NoFaults, LiveInv, BurnedOK, PaidKnown, PaidKnown', [Next]_vars
  PROVE  [Ideal!Next]_<<PaidAmounts, burned>>
<1> DEFINE Goal == [Ideal!Next]_<<PaidAmounts, burned>>
<1> USE DEF LiveInv, PayoutInv, TypeOK
<1>1. ASSUME \A k \in Transfers : HasPaid(k)' <=> HasPaid(k), burned' = burned
      PROVE  Goal
  <2>1. \A k \in Transfers : Paid(k)' = Paid(k)
    BY <1>1 DEF PaidKnown
  <2>2. PaidAmounts' = PaidAmounts
    BY <2>1 DEF PaidAmounts
  <2>3. QED BY <1>1, <2>2
<1>2. CASE DarajaStep
  <2>1. PICK c \in DOMAIN calls, to \in {"paid", "failed", "expired"},
            news \in {"success", "failure", "timeout"} :
          Decide(c, {"accepted"}, to, news)
    BY <1>2, DarajaDecides DEF NoFaults
  <2>2. /\ DOMAIN calls' = DOMAIN calls /\ calls[c].state = "accepted" /\ calls'[c].state = to
        /\ \A d \in DOMAIN calls : calls'[d].key = calls[d].key
        /\ \A d \in DOMAIN calls : d # c => calls'[d] = calls[d]
    BY <2>1, DecideBook
  <2>3. burned' = burned /\ calls[c].key \in Transfers
    BY <2>1 DEF Decide, OrdersOK, Fees
  <2> DEFINE k == calls[c].key
  <2>4. \A l \in Transfers : l # k \/ to # "paid" => (HasPaid(l)' <=> HasPaid(l))
    <3>1. ASSUME NEW l \in Transfers, l # k \/ to # "paid", NEW d \in DOMAIN calls
          PROVE  calls'[d].key = l /\ calls'[d].state = "paid"
                   <=> calls[d].key = l /\ calls[d].state = "paid"
      <4>1. CASE d = c
        BY <2>2, <3>1, <4>1
      <4>2. CASE d # c
        BY <2>2, <4>2
      <4>3. QED BY <4>1, <4>2
    <3>2. QED BY <2>2, <3>1 DEF HasPaid
  <2>5. CASE to = "paid"
    <3>1. ~HasPaid(k)
      BY <2>2, OnePaidOrder DEF HasPaid, Dead
    <3>2. \E d \in DOMAIN calls' : calls'[d].key = k /\ calls'[d].state = "paid"
      BY <2>2, <2>5
    <3>3. \A l \in Transfers : l = k => HasPaid(l)'
      BY <3>2 DEF HasPaid
    <3>4. PaidAmounts[k] = 0 /\ \A l \in Transfers : l # k => PaidAmounts'[l] = PaidAmounts[l]
      BY <2>3, <2>4, <3>1 DEF PaidKnown, PaidAmounts
    <3>5. \A l \in Transfers : l = k => PaidAmounts'[l] = 1
      BY <3>3 DEF PaidKnown, PaidAmounts
    <3>6. PaidAmounts' = [PaidAmounts EXCEPT ![k] = 1]
      BY <2>3, <3>4, <3>5 DEF PaidAmounts
    <3>7. Ideal!Pay(k)
      BY <2>3, <3>4, <3>6 DEF Ideal!Pay, PaidAmounts
    <3>8. QED BY <2>3, <3>7 DEF Ideal!Next
  <2>6. CASE to # "paid"
    BY <1>1, <2>3, <2>4, <2>6
  <2>7. QED BY <2>5, <2>6
<1>3. CASE BurnForPayout
  <2>1. /\ api.pc = "burning" /\ burned' = [burned EXCEPT ![api.key] = @ + 1]
        /\ calls' = calls /\ api.key \in Transfers
    BY <1>3 DEF BurnForPayout, Credit, BurnsOK
  <2>2. HasPaid(api.key) /\ burned[api.key] = 0
    BY <2>1 DEF BurnsOK, BurnedOK, Burnt
  <2>3. \A l \in Transfers : Paid(l)' = Paid(l)
    BY <2>1 DEF Paid
  <2>4. PaidAmounts' = PaidAmounts /\ PaidAmounts[api.key] = 1
    BY <2>1, <2>2, <2>3 DEF PaidAmounts, PaidKnown
  <2>5. burned' = [burned EXCEPT ![api.key] = 1]
    BY <2>1, <2>2
  <2>6. Ideal!Burn(api.key)
    BY <2>2, <2>4, <2>5 DEF Ideal!Burn, PaidAmounts
  <2>7. QED BY <2>1, <2>6 DEF Ideal!Next
<1>4. CASE Next /\ ~DarajaStep /\ ~BurnForPayout
  <2>1. \A k \in Transfers : HasPaid(k)' <=> HasPaid(k)
    BY <1>4, PaidChanges
  <2>2. burned' = burned
    BY <1>4 DEF Next, WorkerStep, Mine, PollOnce, HandleTransfer, FinishScan, RetryFailed,
                EndPoll, B2cAccepted, B2cRejected, RecordSent, Handle, DropCallback,
                HandleBadNews, HandleB2cResult, ApiStep, BurnRefused, RecordSettled,
                WorkerAborts, ApiAborts
  <2>3. QED BY <1>1, <2>1, <2>2
<1>5. CASE UNCHANGED vars
  BY <1>1, <1>5 DEF vars, HasPaid
<1>6. QED BY <1>2, <1>3, <1>4, <1>5

LEMMA BurnedInvariant ==
  ASSUME NoFaults
  PROVE  Spec => [](LiveInv /\ BurnedOK)
<1>1. Init => BurnedOK
  BY DEF Init, BurnedOK, Burnt, Settled, IdleApi
<1>2. LiveInv /\ BurnedOK /\ [Next]_vars => BurnedOK'
  BY BurnedStep DEF NoFaults
<1>3. Spec => []LiveInv
  BY LiveInvariant DEF NoFaults
<1>4. QED BY <1>1, <1>2, <1>3, PTL DEF Spec

\* Without faults the payout does what FeePayout promises: a fee is paid at
\* most once, burned at most once, and only after it was paid.
THEOREM PayoutImplementsFeePayout ==
  ASSUME NoFaults
  PROVE  Spec => PaysOnceBurnsOnce
<1>1. Init => Ideal!Init
  <2>1. ASSUME Init PROVE PaidAmounts = [k \in Transfers |-> 0]
    <3>1. \A k \in Transfers : ~HasPaid(k)
      BY <2>1 DEF Init, HasPaid
    <3>2. PaidKnown
      BY <2>1, LiveInit, PaidIs
    <3>3. QED BY <3>1, <3>2 DEF PaidAmounts, PaidKnown
  <2>2. QED BY <2>1 DEF Init, Ideal!Init, PaidAmounts
<1>2. LiveInv /\ BurnedOK /\ PaidKnown /\ PaidKnown' /\ [Next]_vars
        => [Ideal!Next]_<<PaidAmounts, burned>>
  BY IdealStep
<1>3. Spec => [](LiveInv /\ BurnedOK)
  BY BurnedInvariant
<1>4. QED
  BY <1>1, <1>2, <1>3, PaidIs, PTL DEF Spec, PaysOnceBurnsOnce, Ideal!Spec, PaidAmounts

-----------------------------------------------------------------------------
\* The attempts counted, and the row left pending, while a payment is ordered:
\* an order that is not yet in its row's count is the one being recorded.
\* Rows are of transfers the chain already holds.
AttemptsOK ==
    /\ \A k \in Transfers :
         /\ Orders(k) <= rows[k].attempts + (IF Acking(k) THEN 1 ELSE 0)
         /\ rows[k].attempts <= MaxAttempts
         /\ ~Recorded(k) => rows[k].attempts = 0
    /\ AtOrder => /\ worker.attempts = rows[worker.key].attempts + 1
                  /\ worker.attempts <= MaxAttempts

RowsInTime ==
    /\ \A k \in Transfers : rows[k].status = "pending" => AtOrder /\ worker.key = k
    /\ \A k \in Transfers : Recorded(k) => k <= mined
    /\ Scanning => worker.upto <= mined

LEMMA OrdersAre ==
  PayoutInv => \A k \in Transfers : Orders(k) \in Nat
<1>1. ASSUME PayoutInv, NEW k \in Transfers PROVE Orders(k) \in Nat
  <2>1. {c \in DOMAIN calls : calls[c].key = k} \in SUBSET (DOMAIN calls)
    OBVIOUS
  <2>2. QED BY <1>1, <2>1, OrdersFinite DEF Orders
<1>2. QED BY <1>1

\* An accepted order is one more for its transfer; nothing else adds an order.
LEMMA OrderAdded ==
  ASSUME PayoutInv, B2cAccepted, NEW k \in Transfers
  PROVE  Orders(k)' = Orders(k) + (IF k = worker.key THEN 1 ELSE 0)
<1> DEFINE S == {c \in DOMAIN calls : calls[c].key = k}
           T == {c \in DOMAIN calls' : calls'[c].key = k}
           new == Len(calls) + 1
<1>1. /\ DOMAIN calls = 1 .. Len(calls) /\ Len(calls) \in Nat
      /\ calls' = Append(calls, [key |-> worker.key, state |-> "accepted"])
  BY DEF B2cAccepted, PayoutInv, TypeOK
<1>2. /\ \A c \in DOMAIN calls' : c \in DOMAIN calls \/ c = new
      /\ \A c \in DOMAIN calls : c \in DOMAIN calls' /\ calls'[c] = calls[c]
      /\ new \in DOMAIN calls' /\ new \notin DOMAIN calls /\ calls'[new].key = worker.key
  BY <1>1
<1>3. S \in SUBSET (DOMAIN calls)
  OBVIOUS
<1>4. IsFiniteSet(S) /\ Cardinality(S) \in Nat
  BY <1>3, OrdersFinite
<1>5. CASE k = worker.key
  <2>1. T = S \cup {new} /\ new \notin S
    BY <1>2, <1>5
  <2>2. Cardinality(T) = Cardinality(S) + 1
    BY <1>4, <2>1, FS_AddElement
  <2>3. QED BY <1>5, <2>2 DEF Orders
<1>6. CASE k # worker.key
  <2>1. T = S
    BY <1>2, <1>6
  <2>2. Orders(k)' = Cardinality(T) /\ Orders(k) = Cardinality(S)
    BY DEF Orders
  <2> HIDE DEF S, T
  <2>3. QED BY <1>4, <1>6, <2>1, <2>2
<1>7. QED BY <1>5, <1>6

LEMMA OrdersKept ==
  ASSUME PayoutInv, Next, ~B2cAccepted, NEW k \in Transfers
  PROVE  Orders(k)' = Orders(k)
<1>1. BookGrows
  BY BookStep
<1>2. DOMAIN calls' = DOMAIN calls
  BY DEF Next, WorkerStep, Mine, PollOnce, HandleTransfer, FinishScan, RetryFailed, EndPoll,
         B2cRejected, RecordSent, Handle, DropCallback, HandleBadNews, HandleB2cResult,
         ApiStep, BurnForPayout, BurnRefused, RecordSettled, WorkerAborts, ApiAborts,
         DarajaStep, DarajaPays, DarajaFails, DarajaTimesOut, Decide, PayoutInv, TypeOK
<1>3. \A c \in DOMAIN calls : calls'[c].key = calls[c].key
  BY <1>1 DEF BookGrows
<1>4. {c \in DOMAIN calls' : calls'[c].key = k} = {c \in DOMAIN calls : calls[c].key = k}
  BY <1>2, <1>3
<1>5. QED BY <1>4 DEF Orders

\* A scan counts no attempt; it ends where the chain ends.
LEMMA CountScan ==
  ASSUME MaxAttempts # 0, LiveInv, AttemptsOK, RowsInTime,
         PollOnce \/ HandleTransfer \/ FinishScan \/ RetryFailed \/ EndPoll
  PROVE  AttemptsOK' /\ RowsInTime'
<1>i. /\ PayoutInv /\ WorkerOK /\ OrdersOK /\ BurnsOK /\ FreshOK
      /\ rows \in [Transfers -> Row] /\ mined \in Nat /\ calls \in Seq(Call)
      /\ worker \in Worker /\ cursor \in Nat \cup {NoCursor} /\ mail \subseteq Mail
  BY DEF LiveInv, PayoutInv, TypeOK, Later
<1> USE PayoutConstants, <1>i
<1>0. /\ worker \in Worker /\ \A k \in Transfers : rows[k] \in Row
      /\ \A k \in Transfers : Orders(k) \in Nat
      /\ ~AtOrder /\ \A k \in Transfers : ~Acking(k)
      /\ \A k \in Transfers : rows[k].status # "pending"
  BY OrdersAre DEF AtOrder, Acking, PollOnce, HandleTransfer, FinishScan, RetryFailed, EndPoll,
                   RowsInTime
<1>1. \A k \in Transfers : Orders(k)' = Orders(k)
  BY DEF Orders, PollOnce, HandleTransfer, FinishScan, RetryFailed, EndPoll, ledger
<1>2. ASSUME rows' = rows, mined' = mined, worker'.pc \in {"sleep", "scan", "retry"},
             worker'.pc = "scan" => worker'.upto <= mined
      PROVE  AttemptsOK' /\ RowsInTime'
  <2>1. ~AtOrder' /\ \A k \in Transfers : ~Acking(k)'
    BY <1>2 DEF AtOrder, Acking
  <2>2. AttemptsOK'
    BY <1>0, <1>1, <1>2, <2>1 DEF AttemptsOK, Recorded
  <2>3. RowsInTime'
    BY <1>0, <1>2, <2>1 DEF RowsInTime, Recorded, Scanning
  <2>4. QED BY <2>2, <2>3
<1>3. CASE PollOnce
  <2>1. Start \in Nat
    BY DEF Start, Lesser, Later
  <2>2. Lesser(mined, Start + Span) <= mined
    BY <2>1 DEF Lesser, Later
  <2>3. /\ rows' = rows /\ mined' = mined /\ worker'.pc = "scan"
        /\ worker'.upto = Lesser(mined, Start + Span)
    BY <1>0, <1>3 DEF PollOnce, ledger, Worker
  <2>4. QED BY <1>2, <2>2, <2>3
<1>4. CASE HandleTransfer
  <2> DEFINE k == worker.next
  <2>1. /\ mined' = mined /\ worker.pc = "scan" /\ k <= worker.upto /\ worker.upto <= mined
        /\ k \in Nat /\ worker.upto \in Nat
    BY <1>0, <1>4 DEF HandleTransfer, RowsInTime, Scanning, Worker
  <2>2. CASE k \notin Transfers \/ Recorded(k)
    <3>1. rows' = rows /\ worker' = [worker EXCEPT !.next = k + 1]
      BY <1>4, <2>2 DEF HandleTransfer, Recorded
    <3>2. worker'.pc = "scan" /\ worker'.upto = worker.upto
      BY <1>0, <2>1, <3>1 DEF Worker
    <3>3. QED BY <1>2, <2>1, <3>1, <3>2
  <2>3. CASE k \in Transfers /\ ~Recorded(k)
    <3> DEFINE status == IF Payable(k) THEN "pending"
                         ELSE IF Kind[k] = "small" THEN "held" ELSE "ignored"
    <3>1. rows' = [rows EXCEPT ![k].status = status] /\ worker'.upto = worker.upto
      BY <1>0, <1>4, <2>3 DEF HandleTransfer, Recorded, Firing, Worker
    <3>2. /\ \A l \in Transfers : l # k => rows'[l] = rows[l]
          /\ rows'[k].status = status /\ rows'[k].attempts = rows[k].attempts
      BY <1>0, <2>3, <3>1 DEF Row
    <3>3. rows[k].attempts = 0 /\ 1 <= MaxAttempts
      BY <2>3 DEF AttemptsOK
    <3>4. IF Payable(k)
          THEN worker'.pc = "send" /\ worker'.key = k /\ worker'.attempts = 1
          ELSE worker'.pc = "scan"
      <4>1. CASE Payable(k)
        <5>1. worker' = [Firing(k, "scan") EXCEPT !.next = k + 1]
          BY <1>4, <2>3, <4>1 DEF HandleTransfer, Recorded
        <5>2. QED BY <3>3, <4>1, <5>1 DEF Worker, Firing
      <4>2. CASE ~Payable(k)
        <5>1. worker' = [worker EXCEPT !.next = k + 1]
          BY <1>4, <2>3, <4>2 DEF HandleTransfer, Recorded
        <5>2. QED BY <2>1, <4>2, <5>1 DEF Worker
      <4>3. QED BY <4>1, <4>2
    <3>5. \A l \in Transfers : ~Acking(l)'
      BY <3>4 DEF Acking
    <3>6. AttemptsOK'
      <4>1. \A l \in Transfers : rows'[l].attempts = rows[l].attempts
        BY <3>2
      <4>2. \A l \in Transfers : ~Recorded(l)' => ~Recorded(l)
        BY <2>3, <3>2 DEF Recorded
      <4>3. AtOrder' => worker'.attempts = 1 /\ worker'.key = k
        BY <3>4 DEF AtOrder
      <4>4. ASSUME NEW l \in Transfers
            PROVE  Orders(l)' <= rows'[l].attempts + (IF Acking(l)' THEN 1 ELSE 0)
        <5>1. Orders(l) <= rows[l].attempts + 0 /\ rows[l].attempts \in Nat
          BY <1>0 DEF AttemptsOK, Row
        <5>2. QED BY <1>1, <3>5, <4>1, <5>1
      <4>5. AtOrder' => worker'.attempts = rows'[worker'.key].attempts + 1
        BY <2>3, <3>3, <4>1, <4>3
      <4>6. QED BY <3>3, <4>1, <4>2, <4>3, <4>4, <4>5 DEF AttemptsOK
    <3>7. RowsInTime'
      <4>1. \A l \in Transfers : rows'[l].status = "pending" => l = k /\ Payable(k)
        BY <1>0, <3>2
      <4>2. \A l \in Transfers : l # k => (Recorded(l)' <=> Recorded(l))
        BY <3>2 DEF Recorded
      <4>3. \A l \in Transfers : Recorded(l)' => l <= mined
        BY <2>1, <4>2 DEF RowsInTime
      <4>4. QED BY <2>1, <3>1, <3>4, <4>1, <4>3 DEF RowsInTime, AtOrder
    <3>8. QED BY <3>6, <3>7
  <2>4. QED BY <2>2, <2>3
<1>5. CASE FinishScan
  <2>1. rows' = rows /\ mined' = mined /\ worker'.pc = "retry"
    BY <1>0, <1>5 DEF FinishScan, Worker
  <2>2. QED BY <1>2, <2>1
<1>6. CASE RetryFailed
  <2>1. PICK k \in Oldest(worker.todo) :
          LET next == IF OutOfAttempts(k) THEN worker ELSE Firing(k, "retry")
          IN /\ rows' = IF OutOfAttempts(k) THEN [rows EXCEPT ![k].status = "exhausted"] ELSE rows
             /\ worker' = [next EXCEPT !.todo = @ \ {k}]
    BY <1>6 DEF RetryFailed
  <2>2. mined' = mined /\ worker.pc = "retry" /\ k \in worker.todo /\ k \in Transfers /\ Recorded(k)
    BY <1>0, <1>6, <2>1 DEF RetryFailed, Oldest, Worker, FreshOK
  <2>3. CASE OutOfAttempts(k)
    <3>1. worker'.pc = "retry"
      BY <1>0, <2>1, <2>2, <2>3 DEF Worker
    <3>2. /\ \A l \in Transfers : l # k => rows'[l] = rows[l]
          /\ rows'[k].status = "exhausted" /\ rows'[k].attempts = rows[k].attempts
      BY <1>0, <2>1, <2>2, <2>3 DEF Row
    <3>3. ~AtOrder' /\ ~Scanning' /\ \A l \in Transfers : ~Acking(l)'
      BY <3>1 DEF AtOrder, Scanning, Acking
    <3>4. \A l \in Transfers : (Recorded(l)' <=> Recorded(l)) /\ rows'[l].attempts = rows[l].attempts
      BY <2>2, <3>2 DEF Recorded
    <3>5. \A l \in Transfers : rows'[l].status # "pending"
      BY <1>0, <3>2
    <3>6. AttemptsOK'
      BY <1>0, <1>1, <3>3, <3>4 DEF AttemptsOK
    <3>7. RowsInTime'
      BY <2>2, <3>3, <3>4, <3>5 DEF RowsInTime
    <3>8. QED BY <3>6, <3>7
  <2>4. CASE ~OutOfAttempts(k)
    <3>1. /\ worker'.pc = "send" /\ worker'.key = k /\ worker'.back = "retry" /\ rows' = rows
          /\ worker'.attempts = rows[k].attempts + 1 /\ rows[k].attempts < MaxAttempts
      <4>1. worker' = [Firing(k, "retry") EXCEPT !.todo = @ \ {k}] /\ rows' = rows
        BY <2>1, <2>4
      <4>2. rows[k].attempts \in Nat
        BY <1>0, <2>2 DEF Row
      <4>3. rows[k].attempts < MaxAttempts
        BY <2>4, <4>2 DEF OutOfAttempts
      <4>4. QED BY <4>1, <4>3 DEF Worker, Firing
    <3>2. ~Scanning' /\ \A l \in Transfers : ~Acking(l)'
      BY <3>1 DEF Scanning, AtOrder, Acking
    <3>3. AttemptsOK'
      BY <1>0, <1>1, <2>2, <3>1, <3>2 DEF AttemptsOK, Recorded, Row
    <3>4. RowsInTime'
      BY <1>0, <2>2, <3>1, <3>2 DEF RowsInTime, Recorded
    <3>5. QED BY <3>3, <3>4
  <2>5. QED BY <2>3, <2>4
<1>7. CASE EndPoll
  <2>1. rows' = rows /\ mined' = mined /\ worker'.pc = "sleep"
    BY <1>7 DEF EndPoll, ledger, Asleep
  <2>2. QED BY <1>2, <2>1
<1>8. QED BY <1>3, <1>4, <1>5, <1>6, <1>7

\* An order adds one to the orders while its attempt is open; the answer moves
\* it into the row's count.
LEMMA CountOrder ==
  ASSUME LiveInv, AttemptsOK, RowsInTime, B2cAccepted \/ B2cRejected \/ RecordSent, Next
  PROVE  AttemptsOK' /\ RowsInTime'
<1>i. /\ PayoutInv /\ WorkerOK /\ OrdersOK /\ BurnsOK /\ FreshOK
      /\ rows \in [Transfers -> Row] /\ mined \in Nat /\ calls \in Seq(Call)
      /\ worker \in Worker /\ cursor \in Nat \cup {NoCursor} /\ mail \subseteq Mail
  BY DEF LiveInv, PayoutInv, TypeOK, Later
<1> USE PayoutConstants, <1>i
<1> DEFINE k == worker.key
<1>0. /\ worker \in Worker /\ \A l \in Transfers : rows[l] \in Row
      /\ \A l \in Transfers : Orders(l) \in Nat
      /\ AtOrder /\ k \in Transfers /\ Recorded(k) /\ worker.back \in {"scan", "retry"}
      /\ worker.attempts = rows[k].attempts + 1 /\ worker.attempts <= MaxAttempts
      /\ rows[k].attempts \in Nat
  BY OrdersAre DEF AtOrder, B2cAccepted, B2cRejected, RecordSent, WorkerOK, Fees, FreshOK,
                   AttemptsOK, Worker, Row
<1>1. CASE B2cAccepted
  <2>1. /\ rows' = rows /\ mined' = mined /\ worker.pc = "send" /\ worker'.pc = "ack"
        /\ worker'.key = k /\ worker'.attempts = worker.attempts
        /\ worker'.back = worker.back /\ worker'.upto = worker.upto
    BY <1>0, <1>1 DEF B2cAccepted, ledger, Worker
  <2>2. \A l \in Transfers : ~Acking(l) /\ (Acking(l)' <=> l = k)
    BY <2>1 DEF Acking
  <2>3. ASSUME NEW l \in Transfers
        PROVE  Orders(l)' <= rows'[l].attempts + (IF Acking(l)' THEN 1 ELSE 0)
    <3>1. Orders(l)' = Orders(l) + (IF l = k THEN 1 ELSE 0)
      BY <1>1, OrderAdded
    <3>2. Orders(l) <= rows[l].attempts + 0 /\ rows[l].attempts \in Nat /\ Orders(l) \in Nat
      BY <1>0, <2>2 DEF AttemptsOK, Row
    <3>3. QED BY <2>1, <2>2, <3>1, <3>2
  <2>4. AttemptsOK'
    BY <1>0, <2>1, <2>3 DEF AttemptsOK, Recorded
  <2>5. RowsInTime'
    BY <2>1 DEF RowsInTime, AtOrder, Scanning, Recorded
  <2>6. QED BY <2>4, <2>5
<1>2. CASE B2cRejected \/ RecordSent
  <2>1. ~B2cAccepted
    BY <1>2 DEF B2cAccepted, B2cRejected, RecordSent, Worker
  <2>2. /\ mined' = mined /\ worker'.pc = worker.back /\ worker'.upto = worker.upto
        /\ RecordSent <=> worker.pc = "ack"
    BY <1>0, <1>2 DEF B2cRejected, RecordSent, Resume, Worker
  <2>3. /\ \A l \in Transfers : l # k => rows'[l] = rows[l]
        /\ rows'[k].attempts = worker.attempts /\ rows'[k].status \in {"b2c_failed", "b2c_sent"}
    <3>1. CASE B2cRejected
      BY <1>0, <3>1 DEF B2cRejected, Row
    <3>2. CASE RecordSent
      BY <1>0, <3>2 DEF RecordSent
    <3>3. QED BY <1>2, <3>1, <3>2
  <2>4. ~AtOrder' /\ \A l \in Transfers : ~Acking(l)' /\ (l # k => ~Acking(l))
    BY <1>0, <2>2 DEF AtOrder, Acking
  <2>5. ASSUME NEW l \in Transfers
        PROVE  Orders(l)' <= rows'[l].attempts + (IF Acking(l)' THEN 1 ELSE 0)
    <3>1. Orders(l)' = Orders(l) /\ Orders(l) \in Nat /\ rows[l].attempts \in Nat
      BY <1>0, <2>1, OrdersKept DEF Row
    <3>2. CASE l = k
      <4>1. Orders(l) <= rows[l].attempts + 1
        BY <3>1 DEF AttemptsOK
      <4>2. QED BY <1>0, <2>3, <2>4, <3>1, <3>2, <4>1
    <3>3. CASE l # k
      <4>1. Orders(l) <= rows[l].attempts + 0
        BY <2>4, <3>3 DEF AttemptsOK
      <4>2. QED BY <2>3, <2>4, <3>1, <3>3, <4>1
    <3>4. QED BY <3>2, <3>3
  <2>6. \A l \in Transfers : l = k => Recorded(l) /\ Recorded(l)' /\ rows'[l].status # "pending"
    BY <1>0, <2>3 DEF Recorded
  <2>7. AttemptsOK'
    <3>1. ASSUME NEW l \in Transfers
          PROVE  rows'[l].attempts <= MaxAttempts /\ (~Recorded(l)' => rows'[l].attempts = 0)
      <4>1. CASE l = k
        BY <1>0, <2>3, <2>6, <4>1
      <4>2. CASE l # k
        BY <2>3, <4>2 DEF AttemptsOK, Recorded
      <4>3. QED BY <4>1, <4>2
    <3>2. QED BY <2>4, <2>5, <3>1 DEF AttemptsOK
  <2>8. RowsInTime'
    <3>1. \A l \in Transfers : rows'[l].status # "pending"
      BY <2>3, <2>6 DEF RowsInTime
    <3>2. \A l \in Transfers : Recorded(l)' => l <= mined
      BY <2>3, <2>6 DEF RowsInTime, Recorded
    <3>3. Scanning' => Scanning
      BY <1>0, <2>2 DEF Scanning, AtOrder
    <3>4. QED BY <2>2, <3>1, <3>2, <3>3 DEF RowsInTime
  <2>9. QED BY <2>7, <2>8
<1>3. QED BY <1>1, <1>2

\* Nobody but the worker counts attempts or writes a first row.
LEMMA CountOthers ==
  ASSUME LiveInv, AttemptsOK, RowsInTime, Next,
         Mine \/ DarajaStep \/ ApiStep \/ ApiAborts \/ \E m \in mail : Handle(m)
  PROVE  AttemptsOK' /\ RowsInTime'
<1>i. /\ PayoutInv /\ WorkerOK /\ OrdersOK /\ BurnsOK /\ FreshOK
      /\ rows \in [Transfers -> Row] /\ mined \in Nat /\ calls \in Seq(Call)
      /\ worker \in Worker /\ cursor \in Nat \cup {NoCursor} /\ mail \subseteq Mail
  BY DEF LiveInv, PayoutInv, TypeOK, Later
<1> USE PayoutConstants, <1>i
<1>1. /\ UNCHANGED worker /\ mined' \in Nat /\ mined \in Nat /\ mined <= mined'
      /\ worker.upto \in Nat
  <2>1. UNCHANGED worker /\ (mined' = mined \/ mined' = mined + 1)
    BY DEF Mine, DarajaStep, DarajaPays, DarajaFails, DarajaTimesOut, Decide, ApiStep,
           BurnForPayout, BurnRefused, RecordSettled, ApiAborts, Handle, DropCallback,
           HandleBadNews, HandleB2cResult
  <2>2. mined' \in Nat /\ mined <= mined'
    BY <2>1
  <2>3. worker.upto \in Nat
    BY DEF Worker
  <2>4. QED BY <2>1, <2>2, <2>3
<1>2. Len(calls') = Len(calls)
  <2>1. CASE DarajaStep
    <3>1. ASSUME NEW c \in DOMAIN calls, NEW from, NEW to, NEW news, Decide(c, from, to, news)
          PROVE  Len(calls') = Len(calls)
      BY <3>1 DEF Decide
    <3>2. QED BY <2>1, <3>1 DEF DarajaStep, DarajaPays, DarajaFails, DarajaTimesOut
  <2>2. CASE ~DarajaStep
    BY <2>2 DEF Mine, ApiStep, BurnForPayout, BurnRefused, RecordSettled, ApiAborts, Handle,
                DropCallback, HandleBadNews, HandleB2cResult
  <2>3. QED BY <2>1, <2>2
<1>3. ~B2cAccepted
  BY <1>2 DEF B2cAccepted
<1>4. \A l \in Transfers : Orders(l)' = Orders(l)
  BY <1>3, OrdersKept
<1>5. ASSUME NEW l \in Transfers
      PROVE  /\ rows'[l].attempts = rows[l].attempts
             /\ rows'[l].status # rows[l].status => Recorded(l) /\ Recorded(l)'
             /\ rows'[l].status = "pending" => rows[l].status = "pending"
  <2>0. rows[l] \in Row /\ DOMAIN rows = Transfers
    OBVIOUS
  <2> DEFINE Goal == /\ rows'[l].attempts = rows[l].attempts
                     /\ rows'[l].status # rows[l].status => Recorded(l) /\ Recorded(l)'
                     /\ rows'[l].status = "pending" => rows[l].status = "pending"
  <2>1. ASSUME NEW k \in Transfers, NEW status \in {"b2c_failed", "b2c_timeout", "settled"},
               rows' = [rows EXCEPT ![k].status = status], rows[k].conv # 0
        PROVE  Goal
    <3>1. /\ rows'[l].attempts = rows[l].attempts
          /\ IF l = k THEN rows'[l].status = status ELSE rows'[l].status = rows[l].status
      BY <2>0, <2>1 DEF Row
    <3>2. Recorded(k)
      <4>1. PICK c \in DOMAIN calls : calls[c].key = k
        BY <2>1 DEF OrdersOK
      <4>2. QED BY <4>1 DEF FreshOK
    <3>3. CASE l = k
      BY <3>1, <3>2, <3>3 DEF Recorded
    <3>4. CASE l # k
      BY <3>1, <3>4
    <3>5. QED BY <3>3, <3>4
  <2>2. ASSUME NEW m \in mail, NEW k \in Transfers, HandleBadNews(m, k) PROVE Goal
    <3>1. m.conv # 0
      BY DEF Mail
    <3>2. QED BY <2>1, <2>2, <3>1 DEF HandleBadNews, Matches
  <2>3. CASE RecordSettled
    <3>1. api.key \in Transfers /\ rows' = [rows EXCEPT ![api.key].status = "settled"]
      BY <2>3 DEF RecordSettled, BurnsOK
    <3>2. PICK c \in DOMAIN calls : calls[c].key = api.key
      BY <2>3 DEF RecordSettled, BurnsOK, HasPaid
    <3>3. Recorded(api.key)
      BY <3>1, <3>2 DEF FreshOK
    <3>4. /\ rows'[l].attempts = rows[l].attempts
          /\ IF l = api.key THEN rows'[l].status = "settled" ELSE rows'[l].status = rows[l].status
      BY <2>0, <3>1 DEF Row
    <3>5. QED BY <3>3, <3>4 DEF Recorded
  <2>4. CASE rows' = rows
    BY <2>4
  <2>5. QED
    BY <2>2, <2>3, <2>4
       DEF Mine, DarajaStep, DarajaPays, DarajaFails, DarajaTimesOut, Decide, ApiStep,
           BurnForPayout, BurnRefused, ApiAborts, Handle, DropCallback, HandleB2cResult, ledger
<1>6. \A l \in Transfers : Recorded(l)' <=> Recorded(l)
  BY <1>5 DEF Recorded
<1>7. AttemptsOK'
  <2>1. \A l \in Transfers : Acking(l)' <=> Acking(l)
    BY <1>1 DEF Acking
  <2>2. AtOrder => worker.key \in Transfers
    BY DEF WorkerOK, Fees
  <2>3. AtOrder' <=> AtOrder
    BY <1>1 DEF AtOrder
  <2>4. ASSUME NEW l \in Transfers
        PROVE  /\ Orders(l)' <= rows'[l].attempts + (IF Acking(l)' THEN 1 ELSE 0)
               /\ rows'[l].attempts <= MaxAttempts
               /\ ~Recorded(l)' => rows'[l].attempts = 0
    <3>1. /\ Orders(l) <= rows[l].attempts + (IF Acking(l) THEN 1 ELSE 0)
          /\ rows[l].attempts <= MaxAttempts
          /\ ~Recorded(l) => rows[l].attempts = 0
      BY DEF AttemptsOK
    <3>2. Orders(l)' = Orders(l) /\ rows'[l].attempts = rows[l].attempts
      BY <1>4, <1>5
    <3>3. QED BY <1>6, <2>1, <3>1, <3>2
  <2>5. AtOrder' => /\ worker'.attempts = rows'[worker'.key].attempts + 1
                    /\ worker'.attempts <= MaxAttempts
    BY <1>1, <1>5, <2>2, <2>3 DEF AttemptsOK
  <2>6. QED BY <2>4, <2>5 DEF AttemptsOK
<1>8. RowsInTime'
  <2>1. \A l \in Transfers : Recorded(l)' => l <= mined'
    BY <1>1, <1>6 DEF RowsInTime, Transfers
  <2>2. Scanning' => worker.upto <= mined'
    BY <1>1 DEF RowsInTime, Scanning, AtOrder
  <2>3. QED BY <1>1, <1>5, <2>1, <2>2 DEF RowsInTime, AtOrder
<1>9. QED BY <1>7, <1>8

LEMMA CountStep ==
  ASSUME NoLatePayment, MaxAttempts # 0, LiveInv, AttemptsOK, RowsInTime, [Next]_vars
  PROVE  AttemptsOK' /\ RowsInTime'
<1>1. CASE Next
  <2>1. ~WorkerAborts
    BY DEF NoLatePayment, WorkerAborts, LiveInv, PayoutInv, TypeOK
  <2>2. QED
    BY <1>1, <2>1, CountScan, CountOrder, CountOthers DEF Next, WorkerStep
<1>2. CASE UNCHANGED vars
  BY <1>2 DEF vars, ledger, AttemptsOK, RowsInTime, Orders, Acking, AtOrder, Scanning, Recorded
<1>3. QED BY <1>1, <1>2

\* What is burned and what must not be: an arrived fee that is not burned has
\* its XKN still in the bridge.
LEMMA BridgeHolds ==
  ASSUME LiveInv, BurnedOK, RowsInTime
  PROVE  Arrived - Total(burned) >= Cardinality({k \in Fees : k <= mined /\ burned[k] = 0})
<1> DEFINE A == {k \in Transfers : k <= mined}
           B == {k \in Transfers : burned[k] = 1}
           U == {k \in Fees : k <= mined /\ burned[k] = 0}
<1>1. IsFiniteSet(Transfers)
  BY PayoutConstants, FS_Interval DEF Transfers
<1>2. A \in SUBSET Transfers /\ B \in SUBSET Transfers /\ U \in SUBSET Transfers
  BY DEF Fees
<1>3. IsFiniteSet(A) /\ IsFiniteSet(B) /\ IsFiniteSet(U)
  BY <1>1, <1>2, FS_Subset
<1>4. B \subseteq A
  <2>1. ASSUME NEW k \in Transfers, burned[k] = 1 PROVE k <= mined
    <3>1. Won(k)
      BY <2>1 DEF BurnedOK, Burnt
    <3>2. rows[k].conv \in DOMAIN calls /\ calls[rows[k].conv].key = k
      BY <3>1 DEF Won, LiveInv, PayoutInv, OrdersOK
    <3>3. Recorded(k)
      BY <3>2 DEF LiveInv, FreshOK
    <3>4. QED BY <3>3 DEF RowsInTime
  <2>2. QED BY <2>1
<1>5. B \cap U = {} /\ B \cup U \subseteq A
  BY <1>4 DEF Fees
<1>6. Total(burned) = Cardinality(B)
  <2>1. DOMAIN burned = Transfers /\ \A k \in Transfers : burned[k] \in {0, 1}
    BY DEF LiveInv, PayoutInv, TypeOK, BurnedOK
  <2>2. QED BY <1>1, <2>1, TotalMarks
<1>7. Arrived = Cardinality(A)
  BY DEF Arrived
<1> HIDE DEF A, B, U
<1>8. Cardinality(B \cup U) = Cardinality(B) + Cardinality(U) - Cardinality(B \cap U)
  BY <1>3, FS_Union
<1>9. Cardinality(B \cup U) <= Cardinality(A)
  BY <1>3, <1>5, FS_Subset
<1>10. Cardinality(B \cap U) = 0
  BY <1>5, FS_EmptySet
<1>11. /\ Cardinality(A) \in Nat /\ Cardinality(B) \in Nat /\ Cardinality(U) \in Nat
  BY <1>3, FS_CardinalityType
<1>12. Cardinality(A) - Cardinality(B) >= Cardinality(U)
  BY <1>8, <1>9, <1>10, <1>11
<1>13. Cardinality(U) = Cardinality({k \in Fees : k <= mined /\ burned[k] = 0})
  BY DEF U
<1>14. QED BY <1>6, <1>7, <1>12, <1>13

\* Without faults the ledger tells the truth: a settled row was paid once and
\* burned once, no transfer is ordered more often than its row counts or
\* max_attempts allows, no row stays pending between polls, and the bridge
\* holds the XKN of every fee that is not settled.
THEOREM LedgerIsTrue ==
  ASSUME NoFaults, MaxAttempts # 0
  PROVE  Spec => []LedgerTellsTheTruth
<1>1. Init => AttemptsOK /\ RowsInTime
  <2>1. ASSUME Init PROVE AttemptsOK /\ RowsInTime
    <3>1. \A k \in Transfers : Orders(k) = 0
      <4>1. \A k \in Transfers : {c \in DOMAIN calls : calls[c].key = k} = {}
        BY <2>1 DEF Init
      <4>2. QED BY <4>1, FS_EmptySet DEF Orders
    <3>2. ~AtOrder /\ ~Scanning /\ \A k \in Transfers : ~Acking(k)
      BY <2>1 DEF Init, Asleep, AtOrder, Scanning, Acking
    <3>3. QED BY <2>1, <3>1, <3>2, PayoutConstants DEF Init, AttemptsOK, RowsInTime, Recorded
  <2>2. QED BY <2>1
<1>2. LiveInv /\ AttemptsOK /\ RowsInTime /\ [Next]_vars => AttemptsOK' /\ RowsInTime'
  BY CountStep DEF NoFaults
<1>3. LiveInv /\ BurnedOK /\ PaidKnown /\ AttemptsOK /\ RowsInTime => LedgerTellsTheTruth
  <2>1. ASSUME LiveInv, BurnedOK, PaidKnown, AttemptsOK, RowsInTime PROVE LedgerTellsTheTruth
    <3>1. ASSUME NEW k \in Transfers, rows[k].status = "settled"
          PROVE  Paid(k) = 1 /\ burned[k] = 1
      <4>1. burned[k] = 1 /\ Won(k)
        BY <2>1, <3>1 DEF BurnedOK, Burnt, Settled
      <4>2. rows[k].conv \in DOMAIN calls /\ calls[rows[k].conv].key = k
        BY <2>1, <4>1 DEF Won, LiveInv, PayoutInv, OrdersOK
      <4>3. HasPaid(k)
        BY <4>1, <4>2 DEF Won, HasPaid
      <4>4. QED BY <2>1, <4>1, <4>3 DEF PaidKnown
    <3>2. \A k \in Transfers : Orders(k) \in Nat /\ rows[k].attempts \in Nat
      BY <2>1, OrdersAre DEF LiveInv, PayoutInv, TypeOK, Row
    <3>3. ASSUME worker.pc = "sleep", NEW k \in Transfers
          PROVE  Orders(k) <= rows[k].attempts /\ rows[k].status # "pending"
      <4>1. ~Acking(k) /\ ~AtOrder
        BY <3>3 DEF Acking, AtOrder
      <4>2. Orders(k) <= rows[k].attempts + 0
        BY <2>1, <4>1 DEF AttemptsOK
      <4>3. QED BY <2>1, <3>2, <4>1, <4>2 DEF RowsInTime
    <3>4. ASSUME NEW k \in Transfers PROVE Orders(k) <= MaxAttempts
      <4>1. CASE Acking(k)
        <5>1. Orders(k) <= rows[k].attempts + 1
          BY <2>1, <4>1 DEF AttemptsOK
        <5>2. rows[k].attempts + 1 <= MaxAttempts
          BY <2>1, <4>1 DEF AttemptsOK, Acking, AtOrder
        <5>3. QED BY <3>2, <5>1, <5>2, PayoutConstants
      <4>2. CASE ~Acking(k)
        <5>1. Orders(k) <= rows[k].attempts + 0 /\ rows[k].attempts <= MaxAttempts
          BY <2>1, <4>2 DEF AttemptsOK
        <5>2. QED BY <3>2, <5>1, PayoutConstants
      <4>3. QED BY <4>1, <4>2
    <3>5. QED BY <2>1, <3>1, <3>3, <3>4, BridgeHolds DEF LedgerTellsTheTruth
  <2>2. QED BY <2>1
<1>4. Spec => [](LiveInv /\ BurnedOK)
  BY BurnedInvariant
<1>5. QED BY <1>1, <1>2, <1>3, <1>4, PaidIs, PTL DEF Spec
=============================================================================
