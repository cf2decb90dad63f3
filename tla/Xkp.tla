-------------------------------- MODULE Xkp --------------------------------
(***************************************************************************)
(* protocol/xkp/sim.py: a client uploads over a link of several mediums,   *)
(* every frame acknowledged, repeated and counted once, and signs receipts *)
(* for what was acknowledged.                                              *)
(*                                                                         *)
(* A timeout (line 225) is longer than the way of a frame and of its       *)
(* answer, so of each frame at most one try is under way: where it is      *)
(* stands in the frame.  The client has one transfer, whose bytes are      *)
(* counted in units of the smallest MTU.                                   *)
(***************************************************************************)
EXTENDS Accounting, Sequences

CONSTANTS
    Media,          \* the mediums of the link
    NoMedium,       \* none of them is live
    Mtu,            \* [Media \cup {NoMedium} -> Nat]: units of a frame
    Upload,         \* ClientTransfer.total: units to upload
    ReceiptEvery,   \* RECEIPT_INTERVAL, in units
    Window,         \* chunks that may be unacknowledged
    MaxTries,       \* MAX_TRIES
    Streak,         \* failures in a row that quarantine a medium
    MaxLosses       \* bound: frames and answers that get lost

ASSUME XkpConstants ==
    /\ Upload \in Nat \ {0}
    /\ ReceiptEvery \in Nat \ {0}
    /\ Window \in Nat \ {0}
    /\ MaxTries \in Nat \ {0}
    /\ Streak \in Nat \ {0}
    /\ MaxLosses \in Nat
    /\ NoMedium \notin Media
    /\ Mtu \in [Media \cup {NoMedium} -> Nat \ {0}]

VARIABLES
    seq,            \* Node._seq of the client
    pending,        \* Node._pending: [seq -> frame], and where its last try is
    seen,           \* Node._seen of the server: seqs of the client
    admitted,       \* the client is in Node.clients of the server
    delivered,      \* Node.delivered
    proven,         \* Node.proven
    offset, acked, outstanding, lastReceiptAt, done, failed,   \* ClientTransfer
    up, streak, quarantined,                                   \* Medium
    losses

client == <<seq, offset, acked, outstanding, lastReceiptAt, done, failed>>
server == <<seen, admitted, delivered, proven>>
mediums == <<up, streak, quarantined>>
vars == <<pending, client, server, mediums, losses>>

-----------------------------------------------------------------------------
\* amount: the units of a chunk, or the total a receipt is signed over.
Frame == [kind : {"join", "data", "receipt"}, amount : Nat, tries : Nat,
          medium : Media \cup {NoMedium}, at : {"air", "lost", "answer", "waiting"}]

NewFrame(kind, amount) ==
    [kind |-> kind, amount |-> amount, tries |-> 0, medium |-> NoMedium, at |-> "waiting"]

\* Which live medium is best moves with the losses it saw: any may be.
Best(q) == IF up \ q = {} THEN {NoMedium} ELSE up \ q

\* One try, whose loss is decided when it starts; without a medium it waits.
Fates == {"air", "lost"}

Tried(frame, m, fate) ==
    IF m = NoMedium THEN [frame EXCEPT !.at = "waiting"]
    ELSE [frame EXCEPT !.tries = @ + 1, !.medium = m, !.at = fate]

Loses(n) == losses + n <= MaxLosses /\ losses' = losses + n

\* New frames, numbered and tried one after the other, besides the rest.
Send(rest, frames, m) ==
    \E lost \in SUBSET (seq + 1 .. seq + Len(frames)) :
        /\ m = NoMedium => lost = {}
        /\ Loses(Cardinality(lost))
        /\ seq' = seq + Len(frames)
        /\ pending' = [s \in DOMAIN rest \cup (seq + 1 .. seq + Len(frames)) |->
                          IF s > seq
                          THEN Tried(frames[s - seq], m, IF s \in lost THEN "lost" ELSE "air")
                          ELSE rest[s]]

\* A frame tried again.
Resend(s, q) ==
    \E m \in Best(q), fate \in Fates :
        /\ m = NoMedium => fate = "air"
        /\ Loses(IF fate = "lost" THEN 1 ELSE 0)
        /\ pending' = [pending EXCEPT ![s] = Tried(@, m, fate)]

Without(s) == [x \in DOMAIN pending \ {s} |-> pending[x]]

\* The chunks that _pump sends over m while the window has room.
Chunks(m, open) ==
    LET left == Upload - offset
        needed == (left + Mtu[m] - 1) \div Mtu[m]
        size(i) == IF i * Mtu[m] <= left THEN Mtu[m] ELSE left - (i - 1) * Mtu[m]
    IN [i \in 1 .. (IF open <= needed THEN open ELSE needed) |-> NewFrame("data", size(i))]

\* Wrong: the receipt of the rest is forgotten.
DueByInterval(n) == n - lastReceiptAt >= ReceiptEvery

\* Wrong: one unit late.
DueLate(n) == n - lastReceiptAt > ReceiptEvery \/ n >= Upload

Due(n) == n - lastReceiptAt >= ReceiptEvery \/ n >= Upload

-----------------------------------------------------------------------------
\* base_pair and admit: the client asks to join, and starts when it has.
Init ==
    /\ up = Media
    /\ streak = [m \in Media |-> 0]
    /\ quarantined = {}
    /\ \E m \in Media, fate \in Fates :
          /\ losses = (IF fate = "lost" THEN 1 ELSE 0)
          /\ pending = [s \in {1} |-> Tried(NewFrame("join", 0), m, fate)]
    /\ seq = 1
    /\ seen = {} /\ admitted = FALSE /\ delivered = 0 /\ proven = 0
    /\ offset = 0 /\ acked = 0 /\ outstanding = 0 /\ lastReceiptAt = 0
    /\ done = FALSE /\ failed = FALSE

\* Wrong: a repeated frame is taken for a new one.
ReceivedTwice(s) == TRUE

\* Not seen before: the frame counts.
IsNew(s) == s \notin seen

\* Wrong: the receipt that came last replaces the one that says most.
ProvenByLast(total) == total

ProvenBy(total) == IF total > proven THEN total ELSE proven

\* The server gets a frame: it answers, and what it had not seen counts.
Receive(s) ==
    /\ pending[s].at = "air"
    /\ \E lost \in BOOLEAN :
          /\ Loses(IF lost THEN 1 ELSE 0)
          /\ pending' = [pending EXCEPT ![s].at = IF lost THEN "lost" ELSE "answer"]
    /\ seen' = seen \cup {s}
    /\ LET f == pending[s]
       IN /\ admitted' = (admitted \/ f.kind = "join")
          /\ delivered' = IF f.kind = "data" /\ admitted /\ IsNew(s)
                          THEN delivered + f.amount ELSE delivered
          /\ proven' = IF f.kind = "receipt" /\ admitted /\ IsNew(s)
                       THEN ProvenBy(f.amount) ELSE proven
    /\ UNCHANGED <<client, mediums>>

\* An answer arrives: the frame is no longer pending, its medium did well.
Answered(s) ==
    /\ pending[s].at = "answer"
    /\ streak' = [streak EXCEPT ![pending[s].medium] = 0]
    /\ UNCHANGED <<up, quarantined, server, failed>>

\* _pump, and before it the receipt that is due.
Pump(s, open, receipts) ==
    \E m \in Best(quarantined) :
        LET chunks == Chunks(m, open)
        IN /\ Send(Without(s), receipts \o chunks, m)
           /\ offset' = IF offset + Len(chunks) * Mtu[m] <= Upload
                         THEN offset + Len(chunks) * Mtu[m] ELSE Upload
           /\ outstanding' = Window - open + Len(chunks)

JoinAnswered(s) ==
    /\ Answered(s)
    /\ pending[s].kind = "join"
    /\ Pump(s, Window, << >>)
    /\ UNCHANGED <<acked, lastReceiptAt, done>>

\* _on_chunk_ack.
ChunkAnswered(s) ==
    /\ Answered(s)
    /\ pending[s].kind = "data"
    /\ acked' = acked + pending[s].amount
    /\ lastReceiptAt' = IF Due(acked') THEN acked' ELSE lastReceiptAt
    /\ Pump(s, Window - outstanding + 1,
            IF Due(acked') THEN <<NewFrame("receipt", acked')>> ELSE << >>)
    /\ UNCHANGED done

\* Of the receipts only the final one has a callback: _finish.
ReceiptAnswered(s) ==
    /\ Answered(s)
    /\ pending[s].kind = "receipt"
    /\ done' = (done \/ pending[s].amount >= Upload)
    /\ pending' = Without(s)
    /\ UNCHANGED <<seq, offset, acked, outstanding, lastReceiptAt, losses>>

\* A frame is dropped for good.  Only a chunk's loss is noticed.
Dropped(s) ==
    /\ pending' = Without(s)
    /\ failed' = (failed \/ pending[s].kind = "data")
    /\ UNCHANGED <<seq, offset, acked, outstanding, lastReceiptAt, done, losses>>

\* _timeout: the medium failed once more, and the frame is tried again.
Timeout(s) ==
    /\ pending[s].at = "lost"
    /\ LET m == pending[s].medium
           bad == streak[m] + 1 >= Streak
           q == IF bad THEN quarantined \cup {m} ELSE quarantined
       IN /\ streak' = [streak EXCEPT ![m] = IF bad THEN 0 ELSE @ + 1]
          /\ quarantined' = q
          /\ \/ pending[s].tries >= MaxTries /\ Dropped(s)
             \/ pending[s].tries < MaxTries /\ Resend(s, q) /\ UNCHANGED client
    /\ UNCHANGED <<server, up>>

\* The poll that finds a live medium again.
Retry(s) ==
    /\ pending[s].at = "waiting"
    /\ up \ quarantined # {}
    /\ Resend(s, quarantined)
    /\ UNCHANGED <<client, server, mediums>>

\* MAX_MEDIUM_WAITS polls, far more than a quarantine, without a medium.
WaitExpires(s) ==
    /\ pending[s].at = "waiting"
    /\ up = {}
    /\ Dropped(s)
    /\ UNCHANGED <<server, mediums>>

\* Its 2 s are over.
QuarantineEnds(m) ==
    /\ m \in quarantined
    /\ quarantined' = quarantined \ {m}
    /\ UNCHANGED <<pending, client, server, up, streak, losses>>

\* s2_blackout: the grid goes, and its mediums with it.
Cut(m) ==
    /\ m \in up
    /\ up' = up \ {m}
    /\ UNCHANGED <<pending, client, server, streak, quarantined, losses>>

\* An event of the queue.
Event ==
    \/ \E s \in DOMAIN pending :
          \/ Receive(s)
          \/ JoinAnswered(s) \/ ChunkAnswered(s) \/ ReceiptAnswered(s)
          \/ Timeout(s) \/ Retry(s) \/ WaitExpires(s)
    \/ \E m \in Media : QuarantineEnds(m)

Next == Event \/ \E m \in Media : Cut(m)

\* Sim.run handles events as long as there are any.
Spec == Init /\ [][Next]_vars /\ WF_vars(Event)

-----------------------------------------------------------------------------
Chunked == {s \in DOMAIN pending : pending[s].kind = "data"}
UnitsIn(S) == Total([s \in S |-> pending[s].amount])

\* Law 5 on the link, a replay pays nothing: what the client signs for never
\* exceeds what the server delivered, nor that what was sent, and through any
\* loss, repeat and overtaking every chunk is counted exactly once at each end,
\* but for one that was given up.
CountedOnce ==
    /\ proven <= acked /\ acked <= delivered /\ delivered <= offset /\ offset <= Upload
    /\ failed => acked < offset
    /\ ~failed => /\ acked + UnitsIn(Chunked) = offset
                  /\ delivered + UnitsIn(Chunked \ seen) = offset

\* Law 3, as far as the code keeps it: once the newest receipt has arrived the
\* server has given away unproven less than one interval beyond what is in the
\* window, and the window never holds more chunks than it is wide.
ExposureBounded ==
    /\ outstanding <= Window /\ Cardinality(Chunked) <= outstanding
    /\ proven = lastReceiptAt /\ ~failed => delivered - proven < ReceiptEvery + UnitsIn(Chunked)

\* A client that is done has a server that can prove every byte, whatever was
\* lost, came twice or was overtaken on the way, receipts included.
DoneIsProven == done => proven >= Upload

\* The upload survives: while one medium stays and no frame can run out of
\* tries, it is done in the end, the last receipt included.
Completes == [](up # {} /\ losses < MaxTries) => <>done
=============================================================================
