----------------------------- MODULE XkpProofs -----------------------------
(***************************************************************************)
(* Proofs about Xkp, for any mediums, MTUs, windows, intervals and losses: *)
(* a receipt once seen stays proven, so a client that is done is proven;   *)
(* every chunk is counted once, and what is given away unproven is bounded.*)
(***************************************************************************)
EXTENDS Xkp, AccountingProofs

\* What the proof needs of the types.
TypesOK ==
    /\ seq \in Nat
    /\ DOMAIN pending \subseteq 1 .. seq
    /\ \A s \in DOMAIN pending : pending[s] \in Frame
    /\ seen \subseteq 1 .. seq
    /\ acked \in Nat /\ proven \in Nat
    /\ offset \in 0 .. Upload
    /\ outstanding \in Int /\ outstanding <= Window
    /\ up \subseteq Media

\* An answer means that the server saw the frame, and nothing but the request
\* to join travels before it is answered.
AnswersOK ==
    \A s \in DOMAIN pending :
        /\ pending[s].at = "answer" => s \in seen
        /\ pending[s].kind # "join" \/ s \in seen => admitted

\* A receipt is signed over what was acknowledged, and counts once it is seen.
ReceiptsOK ==
    \A s \in DOMAIN pending :
        pending[s].kind = "receipt" =>
            /\ pending[s].amount <= acked
            /\ s \in seen => pending[s].amount <= proven

XkpInv == TypesOK /\ AnswersOK /\ ReceiptsOK /\ proven <= acked /\ DoneIsProven

-----------------------------------------------------------------------------
\* A try changes neither what a frame says nor that it is a frame, and it is
\* not answered yet.
LEMMA TriedFacts ==
    ASSUME NEW f \in Frame, NEW m \in Media \cup {NoMedium}, NEW fate \in Fates
    PROVE  /\ Tried(f, m, fate) \in Frame
           /\ Tried(f, m, fate).kind = f.kind
           /\ Tried(f, m, fate).amount = f.amount
           /\ Tried(f, m, fate).at # "answer"
<1>1. CASE m = NoMedium
  BY <1>1 DEF Tried, Frame
<1>2. CASE m # NoMedium
  <2>1. f.tries + 1 \in Nat /\ f = [kind |-> f.kind, amount |-> f.amount,
                                    tries |-> f.tries, medium |-> f.medium, at |-> f.at]
    BY DEF Frame
  <2>2. Tried(f, m, fate) = [kind |-> f.kind, amount |-> f.amount,
                             tries |-> f.tries + 1, medium |-> m, at |-> fate]
    BY <1>2, <2>1 DEF Tried
  <2>3. QED BY <2>1, <2>2 DEF Frame, Fates
<1>3. QED BY <1>1, <1>2

LEMMA BestIsMedium ==
    ASSUME TypesOK, NEW q, NEW m \in Best(q)
    PROVE  m \in Media \cup {NoMedium}
BY DEF TypesOK, Best

\* The number of chunks, rounded up, leaves something for the last one.
LEMMA LastChunk ==
    ASSUME NEW L \in Nat, NEW M \in Nat \ {0}, NEW i \in Nat \ {0},
           i <= (L + M - 1) \div M
    PROVE  (i - 1) * M < L
<1> DEFINE d == (L + M - 1) \div M
<1>1. d \in Nat /\ d * M \in Nat /\ d * M <= L + M - 1
  BY Division
<1> HIDE DEF d
<1>2. i <= d
  BY DEF d
<1>3. i * M \in Nat /\ i * M <= d * M
  <2>1. i * M \in Nat
    OBVIOUS
  <2>2. CASE i = d
    BY <2>1, <2>2
  <2>3. CASE i < d
    BY <1>1, <2>1, <2>3, Multiples
  <2>4. QED BY <1>1, <1>2, <2>1, <2>2, <2>3
<1>4. (i - 1) * M = i * M - M
  OBVIOUS
<1>5. QED BY <1>1, <1>3, <1>4

LEMMA NewFrameType ==
    ASSUME NEW kind \in {"join", "data", "receipt"}, NEW amount \in Nat
    PROVE  /\ NewFrame(kind, amount) \in Frame
           /\ NewFrame(kind, amount).kind = kind
           /\ NewFrame(kind, amount).amount = amount
BY DEF NewFrame, Frame

\* What _pump sends are chunks, no more of them than the window has room for,
\* and pieces of what is left to upload.
LEMMA ChunksFacts ==
    ASSUME TypesOK, NEW m \in Media \cup {NoMedium}, NEW open \in Nat
    PROVE  /\ Chunks(m, open) \in Seq(Frame)
           /\ Len(Chunks(m, open)) <= open
           /\ Upload - offset \in Nat /\ Mtu[m] \in Nat \ {0}
           /\ Len(Chunks(m, open)) = 0 \/ (Len(Chunks(m, open)) - 1) * Mtu[m] < Upload - offset
           /\ \A i \in 1 .. Len(Chunks(m, open)) :
                 /\ Chunks(m, open)[i].kind = "data"
                 /\ Chunks(m, open)[i].amount = Piece(Upload - offset, Mtu[m], i)
                 /\ Chunks(m, open)[i].amount \in Nat \ {0}
<1> DEFINE left == Upload - offset
           needed == (left + Mtu[m] - 1) \div Mtu[m]
           n == IF open <= needed THEN open ELSE needed
<1>1. left \in Nat /\ Mtu[m] \in Nat \ {0}
  BY XkpConstants DEF TypesOK
<1>2. needed \in Nat
  BY <1>1, Division
<1>3. n \in Nat /\ n <= open /\ n <= needed
  BY <1>2
<1>4. n = 0 \/ (n - 1) * Mtu[m] < left
  <2> HIDE DEF left, n
  <2>1. n # 0 => n \in Nat \ {0}
    BY <1>3
  <2>2. QED BY <1>1, <1>3, <2>1, LastChunk
<1>5. ASSUME NEW i \in 1 .. n
      PROVE  Piece(left, Mtu[m], i) \in Nat \ {0}
  <2> HIDE DEF left, n
  <2>1. QED BY <1>1, <1>3, <1>4, PieceFacts
<1>6. Chunks(m, open) = [i \in 1 .. n |-> NewFrame("data", Piece(left, Mtu[m], i))]
  BY DEF Chunks, Piece
<1> HIDE DEF left, n
<1>7. \A i \in 1 .. n : /\ NewFrame("data", Piece(left, Mtu[m], i)) \in Frame
                        /\ NewFrame("data", Piece(left, Mtu[m], i)).kind = "data"
                        /\ NewFrame("data", Piece(left, Mtu[m], i)).amount = Piece(left, Mtu[m], i)
  BY <1>5, NewFrameType
<1>8. Chunks(m, open) \in [1 .. n -> Frame]
  BY <1>6, <1>7
<1>9. Chunks(m, open) \in Seq(Frame) /\ Len(Chunks(m, open)) = n
  BY <1>3, <1>8
<1>10. \A i \in 1 .. n : /\ Chunks(m, open)[i].kind = "data"
                        /\ Chunks(m, open)[i].amount = Piece(left, Mtu[m], i)
                        /\ Chunks(m, open)[i].amount \in Nat \ {0}
  BY <1>5, <1>6, <1>7
<1>11. QED BY <1>1, <1>3, <1>4, <1>9, <1>10 DEF left

\* What is pending after new frames were sent: the rest as it was, and the new
\* frames, which nobody has seen or answered.
LEMMA SendFacts ==
    ASSUME TypesOK, NEW rest, NEW frames \in Seq(Frame), NEW m \in Media \cup {NoMedium},
           DOMAIN rest \subseteq 1 .. seq,
           Send(rest, frames, m)
    PROVE  /\ seq' \in Nat /\ seq <= seq'
           /\ DOMAIN pending' \subseteq 1 .. seq'
           /\ \A s \in DOMAIN pending' :
                 \/ s \in DOMAIN rest /\ pending'[s] = rest[s]
                 \/ /\ s \notin seen
                    /\ pending'[s] \in Frame
                    /\ pending'[s].at # "answer"
                    /\ \E i \in 1 .. Len(frames) :
                          /\ pending'[s].kind = frames[i].kind
                          /\ pending'[s].amount = frames[i].amount
<1>1. PICK lost \in SUBSET (seq + 1 .. seq + Len(frames)) :
          /\ seq' = seq + Len(frames)
          /\ pending' = [s \in DOMAIN rest \cup (seq + 1 .. seq + Len(frames)) |->
                            IF s > seq
                            THEN Tried(frames[s - seq], m, IF s \in lost THEN "lost" ELSE "air")
                            ELSE rest[s]]
  BY DEF Send
<1>2. seq \in Nat /\ Len(frames) \in Nat /\ seen \subseteq 1 .. seq
  BY DEF TypesOK
<1>3. seq' \in Nat /\ seq <= seq' /\ DOMAIN pending' \subseteq 1 .. seq'
  BY <1>1, <1>2
<1>4. ASSUME NEW s \in DOMAIN pending'
      PROVE  \/ s \in DOMAIN rest /\ pending'[s] = rest[s]
             \/ /\ s \notin seen
                /\ pending'[s] \in Frame
                /\ pending'[s].at # "answer"
                /\ \E i \in 1 .. Len(frames) :
                      /\ pending'[s].kind = frames[i].kind
                      /\ pending'[s].amount = frames[i].amount
  <2>1. CASE s \in DOMAIN rest
    <3>1. ~(s > seq)
      BY <2>1, <1>2
    <3>2. QED BY <2>1, <3>1, <1>1
  <2>2. CASE s \in seq + 1 .. seq + Len(frames)
    <3>1. s > seq /\ s \notin seen /\ s - seq \in 1 .. Len(frames)
      BY <2>2, <1>2
    <3>2. PICK fate \in Fates : pending'[s] = Tried(frames[s - seq], m, fate)
      BY <3>1, <2>2, <1>1 DEF Fates
    <3> DEFINE f == frames[s - seq]
               sent == pending'[s]
    <3>3. f \in Frame /\ sent = Tried(f, m, fate)
      BY <3>1, <3>2
    <3> HIDE DEF f, sent
    <3>4. sent \in Frame /\ sent.at # "answer" /\ sent.kind = f.kind /\ sent.amount = f.amount
      BY <3>3, TriedFacts
    <3>5. QED BY <3>1, <3>4 DEF f, sent
  <2>3. QED BY <2>1, <2>2, <1>1
<1>5. QED BY <1>3, <1>4

-----------------------------------------------------------------------------
LEMMA InitInv == Init => XkpInv
<1> SUFFICES ASSUME Init PROVE XkpInv
  OBVIOUS
<1> DEFINE join == NewFrame("join", 0)
<1>1. PICK m \in Media, fate \in Fates : pending = [s \in {1} |-> Tried(join, m, fate)]
  BY DEF Init
<1>2. join \in Frame /\ join.kind = "join"
  BY NewFrameType
<1> HIDE DEF join
<1>3. /\ DOMAIN pending = {1}
      /\ pending[1] \in Frame /\ pending[1].kind = "join" /\ pending[1].at # "answer"
  BY <1>1, <1>2, TriedFacts
<1>4. TypesOK
  BY <1>3, XkpConstants DEF Init, TypesOK
<1>5. AnswersOK /\ ReceiptsOK
  BY <1>3 DEF Init, AnswersOK, ReceiptsOK
<1>6. QED BY <1>4, <1>5 DEF Init, XkpInv, DoneIsProven

\* A frame tried again is the frame it was, and not answered.
LEMMA ResendFacts ==
    ASSUME TypesOK, NEW s \in DOMAIN pending, NEW q, Resend(s, q)
    PROVE  /\ DOMAIN pending' = DOMAIN pending
           /\ \A x \in DOMAIN pending \ {s} : pending'[x] = pending[x]
           /\ pending'[s] \in Frame
           /\ pending'[s].kind = pending[s].kind
           /\ pending'[s].amount = pending[s].amount
           /\ pending'[s].at # "answer"
<1>1. PICK m \in Best(q), fate \in Fates :
          pending' = [pending EXCEPT ![s] = Tried(pending[s], m, fate)]
  BY DEF Resend
<1>2. m \in Media \cup {NoMedium} /\ pending[s] \in Frame
  BY BestIsMedium DEF TypesOK
<1>3. pending'[s] = Tried(pending[s], m, fate)
  BY <1>1
<1>4. /\ pending'[s] \in Frame /\ pending'[s].at # "answer"
      /\ pending'[s].kind = pending[s].kind /\ pending'[s].amount = pending[s].amount
  BY <1>2, <1>3, TriedFacts
<1>5. QED BY <1>1, <1>4

\* Frames that stand where they stood, or are gone, or lost, or tried again,
\* keep the invariant as long as nothing is taken back.
LEMMA OldFrames ==
    ASSUME XkpInv,
           seq' \in Nat, DOMAIN pending' \subseteq 1 .. seq', seen' = seen, seq <= seq',
           admitted' = admitted, proven' = proven, acked' = acked,
           offset' \in 0 .. Upload, outstanding' \in Int, outstanding' <= Window,
           up' \subseteq up, done' => proven >= Upload,
           \A s \in DOMAIN pending' :
              /\ s \in DOMAIN pending
              /\ pending'[s] \in Frame
              /\ pending'[s].kind = pending[s].kind
              /\ pending'[s].amount = pending[s].amount
              /\ pending'[s].at = "answer" => pending[s].at = "answer"
    PROVE  XkpInv'
<1>1. TypesOK'
  BY DEF XkpInv, TypesOK
<1>2. AnswersOK' /\ ReceiptsOK'
  BY DEF XkpInv, AnswersOK, ReceiptsOK
<1>3. QED BY <1>1, <1>2 DEF XkpInv, DoneIsProven

LEMMA TimeoutKeeps ==
    ASSUME XkpInv, NEW s \in DOMAIN pending, Timeout(s)
    PROVE  XkpInv'
<1> DEFINE m == pending[s].medium
           bad == streak[m] + 1 >= Streak
           q == IF bad THEN quarantined \cup {m} ELSE quarantined
<1>1. TypesOK /\ DoneIsProven
  BY DEF XkpInv
<1>2. CASE Dropped(s)
  BY <1>1, <1>2, OldFrames DEF Timeout, Dropped, Without, server, TypesOK, DoneIsProven
<1>3. CASE Resend(s, q) /\ UNCHANGED client
  <2>1. /\ DOMAIN pending' = DOMAIN pending
        /\ \A x \in DOMAIN pending \ {s} : pending'[x] = pending[x]
        /\ pending'[s] \in Frame
        /\ pending'[s].kind = pending[s].kind
        /\ pending'[s].amount = pending[s].amount
        /\ pending'[s].at # "answer"
    BY <1>1, <1>3, ResendFacts
  <2>2. QED BY <1>1, <1>3, <2>1, OldFrames DEF Timeout, client, server, TypesOK, DoneIsProven
<1>4. QED BY <1>2, <1>3 DEF Timeout

LEMMA WaitingKeeps ==
    ASSUME XkpInv, NEW s \in DOMAIN pending, Retry(s) \/ WaitExpires(s)
    PROVE  XkpInv'
<1>1. TypesOK /\ DoneIsProven
  BY DEF XkpInv
<1>2. CASE WaitExpires(s)
  BY <1>1, <1>2, OldFrames
     DEF WaitExpires, Dropped, Without, server, mediums, TypesOK, DoneIsProven
<1>3. CASE Retry(s)
  <2>1. /\ DOMAIN pending' = DOMAIN pending
        /\ \A x \in DOMAIN pending \ {s} : pending'[x] = pending[x]
        /\ pending'[s] \in Frame
        /\ pending'[s].kind = pending[s].kind
        /\ pending'[s].amount = pending[s].amount
        /\ pending'[s].at # "answer"
    BY <1>1, <1>3, ResendFacts DEF Retry
  <2>2. QED BY <1>1, <1>3, <2>1, OldFrames
            DEF Retry, client, server, mediums, TypesOK, DoneIsProven
<1>4. QED BY <1>2, <1>3

\* After an answer to s: the other frames stand as they stood, and what is new
\* is a chunk or one of the given receipts.
LEMMA PumpFacts ==
    ASSUME TypesOK, NEW s \in DOMAIN pending, NEW open \in Nat,
           NEW receipts \in Seq(Frame), Pump(s, open, receipts)
    PROVE  /\ seq' \in Nat /\ seq <= seq'
           /\ DOMAIN pending' \subseteq 1 .. seq'
           /\ offset' \in 0 .. Upload /\ outstanding' \in Int /\ outstanding' <= Window
           /\ \A x \in DOMAIN pending' :
                 \/ x \in DOMAIN pending /\ pending'[x] = pending[x]
                 \/ /\ x \notin seen
                    /\ pending'[x] \in Frame
                    /\ pending'[x].at # "answer"
                    /\ \/ pending'[x].kind = "data"
                       \/ \E i \in 1 .. Len(receipts) :
                             /\ pending'[x].kind = receipts[i].kind
                             /\ pending'[x].amount = receipts[i].amount
<1>1. PICK m \in Best(quarantined) :
          /\ Send(Without(s), receipts \o Chunks(m, open), m)
          /\ offset' = IF offset + Len(Chunks(m, open)) * Mtu[m] <= Upload
                         THEN offset + Len(Chunks(m, open)) * Mtu[m] ELSE Upload
          /\ outstanding' = Window - open + Len(Chunks(m, open))
  BY DEF Pump
<1> DEFINE chunks == Chunks(m, open)
           frames == receipts \o chunks
<1>2. m \in Media \cup {NoMedium}
  BY BestIsMedium
<1>3. /\ chunks \in Seq(Frame) /\ Len(chunks) <= open
      /\ \A i \in 1 .. Len(chunks) : chunks[i].kind = "data"
  BY <1>2, ChunksFacts
<1>4. /\ Mtu[m] \in Nat \ {0} /\ Window \in Nat /\ Upload \in Nat /\ offset \in 0 .. Upload
      /\ Len(chunks) \in Nat
  BY <1>2, <1>3, XkpConstants DEF TypesOK
<1> HIDE DEF chunks
<1>5. frames \in Seq(Frame) /\ Len(frames) = Len(receipts) + Len(chunks)
  BY <1>3
<1>6. DOMAIN Without(s) \subseteq 1 .. seq /\ DOMAIN Without(s) \subseteq DOMAIN pending
      /\ \A x \in DOMAIN Without(s) : Without(s)[x] = pending[x]
  BY DEF Without, TypesOK
<1>7. Send(Without(s), frames, m)
  BY <1>1 DEF chunks
<1>8. \A i \in 1 .. Len(frames) : \/ frames[i].kind = "data"
                                  \/ i \in 1 .. Len(receipts) /\ frames[i] = receipts[i]
  BY <1>3, <1>5
<1> HIDE DEF frames
<1>9. /\ seq' \in Nat /\ seq <= seq'
      /\ DOMAIN pending' \subseteq 1 .. seq'
      /\ \A x \in DOMAIN pending' :
            \/ x \in DOMAIN Without(s) /\ pending'[x] = Without(s)[x]
            \/ /\ x \notin seen
               /\ pending'[x] \in Frame
               /\ pending'[x].at # "answer"
               /\ \E i \in 1 .. Len(frames) :
                     /\ pending'[x].kind = frames[i].kind
                     /\ pending'[x].amount = frames[i].amount
  BY <1>2, <1>5, <1>6, <1>7, SendFacts
<1>10. offset' \in 0 .. Upload
  <2> DEFINE more == Len(chunks) * Mtu[m]
  <2>1. more \in Nat
    BY <1>4
  <2>2. offset' = IF offset + more <= Upload THEN offset + more ELSE Upload
    BY <1>1 DEF chunks
  <2> HIDE DEF more
  <2>3. QED BY <1>4, <2>1, <2>2
<1>11. outstanding' \in Int /\ outstanding' <= Window
  <2>1. outstanding' = Window - open + Len(chunks)
    BY <1>1 DEF chunks
  <2>2. QED BY <1>3, <1>4, <2>1
<1>12. ASSUME NEW x \in DOMAIN pending'
       PROVE  \/ x \in DOMAIN pending /\ pending'[x] = pending[x]
              \/ /\ x \notin seen
                 /\ pending'[x] \in Frame
                 /\ pending'[x].at # "answer"
                 /\ \/ pending'[x].kind = "data"
                    \/ \E i \in 1 .. Len(receipts) :
                          /\ pending'[x].kind = receipts[i].kind
                          /\ pending'[x].amount = receipts[i].amount
  <2>1. CASE x \in DOMAIN Without(s) /\ pending'[x] = Without(s)[x]
    BY <1>6, <2>1
  <2>2. CASE ~(x \in DOMAIN Without(s) /\ pending'[x] = Without(s)[x])
    <3>1. /\ x \notin seen /\ pending'[x] \in Frame /\ pending'[x].at # "answer"
          /\ \E i \in 1 .. Len(frames) : /\ pending'[x].kind = frames[i].kind
                                        /\ pending'[x].amount = frames[i].amount
      BY <1>9, <2>2
    <3>2. PICK i \in 1 .. Len(frames) : /\ pending'[x].kind = frames[i].kind
                                        /\ pending'[x].amount = frames[i].amount
      BY <3>1
    <3>3. QED BY <1>8, <3>1, <3>2
  <2>3. QED BY <2>1, <2>2
<1>13. QED BY <1>9, <1>10, <1>11, <1>12

-----------------------------------------------------------------------------
LEMMA ReceiveKeeps ==
    ASSUME XkpInv, NEW s \in DOMAIN pending, Receive(s)
    PROVE  XkpInv'
<1>1. PICK at \in {"lost", "answer"} : pending' = [pending EXCEPT ![s].at = at]
  BY DEF Receive
<1>2. /\ DOMAIN pending' = DOMAIN pending
      /\ \A x \in DOMAIN pending :
            /\ pending'[x] \in Frame
            /\ pending'[x].kind = pending[x].kind
            /\ pending'[x].amount = pending[x].amount
            /\ x # s => pending'[x] = pending[x]
  BY <1>1 DEF XkpInv, TypesOK, Frame
<1>3. pending[s].amount \in Nat /\ proven \in Nat /\ acked \in Nat
  BY DEF XkpInv, TypesOK, Frame
<1>4. /\ proven' \in Nat /\ proven <= proven' /\ proven' <= acked
      /\ pending[s].kind = "receipt" => pending[s].amount <= proven'
  <2>1. pending[s].kind = "receipt" => /\ admitted
                                       /\ pending[s].amount <= acked
                                       /\ ~IsNew(s) => pending[s].amount <= proven
    BY DEF XkpInv, AnswersOK, ReceiptsOK, IsNew
  <2>2. proven <= acked
    BY DEF XkpInv
  <2>3. proven' = IF pending[s].kind = "receipt" /\ admitted /\ IsNew(s)
                    THEN ProvenBy(pending[s].amount) ELSE proven
    BY DEF Receive
  <2>4. QED BY <1>3, <2>1, <2>2, <2>3 DEF ProvenBy
<1>5. TypesOK'
  BY <1>2, <1>4 DEF Receive, XkpInv, TypesOK, client, mediums
<1>6. AnswersOK'
  BY <1>2 DEF Receive, XkpInv, AnswersOK
<1>7. ReceiptsOK'
  BY <1>2, <1>3, <1>4 DEF Receive, XkpInv, ReceiptsOK, client, TypesOK, Frame
<1>8. (proven <= acked)' /\ DoneIsProven'
  BY <1>3, <1>4, XkpConstants DEF Receive, XkpInv, DoneIsProven, client
<1>9. QED BY <1>5, <1>6, <1>7, <1>8 DEF XkpInv

\* An answer that makes the client pump.
LEMMA PumpKeeps ==
    ASSUME XkpInv, NEW s \in DOMAIN pending, NEW open \in Nat,
           NEW receipts \in Seq(Frame), Pump(s, open, receipts),
           UNCHANGED <<up, server, done>>, admitted,
           acked' \in Nat, acked <= acked',
           \A i \in 1 .. Len(receipts) :
              receipts[i].kind = "receipt" /\ receipts[i].amount <= acked'
    PROVE  XkpInv'
<1>1. TypesOK /\ AnswersOK /\ ReceiptsOK /\ proven <= acked /\ DoneIsProven
  BY DEF XkpInv
<1>2. /\ seq' \in Nat /\ seq <= seq'
      /\ DOMAIN pending' \subseteq 1 .. seq'
      /\ offset' \in 0 .. Upload /\ outstanding' \in Int /\ outstanding' <= Window
      /\ \A x \in DOMAIN pending' :
            \/ x \in DOMAIN pending /\ pending'[x] = pending[x]
            \/ /\ x \notin seen
               /\ pending'[x] \in Frame
               /\ pending'[x].at # "answer"
               /\ \/ pending'[x].kind = "data"
                  \/ \E i \in 1 .. Len(receipts) :
                        /\ pending'[x].kind = receipts[i].kind
                        /\ pending'[x].amount = receipts[i].amount
  BY <1>1, PumpFacts
<1>3. TypesOK'
  BY <1>1, <1>2 DEF TypesOK, server
<1>4. AnswersOK'
  BY <1>1, <1>2 DEF AnswersOK, server
<1>5. \A x \in DOMAIN pending : pending[x].amount \in Nat
  BY <1>1 DEF TypesOK, Frame
<1>6. ReceiptsOK'
  <2>1. UNCHANGED <<seen, proven>> /\ acked \in Nat
    BY <1>1 DEF server, TypesOK
  <2>2. ASSUME NEW x \in DOMAIN pending', pending'[x].kind = "receipt"
        PROVE  pending'[x].amount <= acked' /\ (x \in seen => pending'[x].amount <= proven)
    <3>1. CASE x \in DOMAIN pending /\ pending'[x] = pending[x]
      <4>1. pending[x].amount <= acked /\ (x \in seen => pending[x].amount <= proven)
        BY <1>1, <2>2, <3>1 DEF ReceiptsOK
      <4>2. QED BY <1>5, <2>1, <3>1, <4>1
    <3>2. CASE x \notin seen /\ \E i \in 1 .. Len(receipts) :
                                    pending'[x].amount = receipts[i].amount
      BY <3>2
    <3>3. QED BY <1>2, <2>2, <3>1, <3>2
  <2>3. QED BY <2>1, <2>2 DEF ReceiptsOK
<1>7. QED BY <1>1, <1>3, <1>4, <1>6 DEF XkpInv, DoneIsProven, server, TypesOK

LEMMA JoinKeeps ==
    ASSUME XkpInv, NEW s \in DOMAIN pending, JoinAnswered(s)
    PROVE  XkpInv'
<1>1. admitted /\ Window \in Nat /\ acked \in Nat
  BY XkpConstants DEF XkpInv, TypesOK, AnswersOK, JoinAnswered, Answered
<1>2. << >> \in Seq(Frame) /\ Len(<< >>) = 0
  OBVIOUS
<1>3. /\ Pump(s, Window, << >>)
      /\ UNCHANGED <<up, server, done>> /\ acked' \in Nat /\ acked <= acked'
  BY <1>1 DEF JoinAnswered, Answered
<1>4. \A i \in 1 .. Len(<< >>) : << >>[i].kind = "receipt" /\ << >>[i].amount <= acked'
  BY <1>2
<1>5. QED BY <1>1, <1>2, <1>3, <1>4, PumpKeeps

LEMMA ChunkKeeps ==
    ASSUME XkpInv, NEW s \in DOMAIN pending, ChunkAnswered(s)
    PROVE  XkpInv'
<1> DEFINE open == Window - outstanding + 1
           receipts == IF Due(acked') THEN <<NewFrame("receipt", acked')>> ELSE << >>
<1>1. /\ admitted
      /\ open \in Nat
      /\ acked' \in Nat /\ acked <= acked'
  BY XkpConstants DEF XkpInv, TypesOK, AnswersOK, ChunkAnswered, Answered, Frame
<1>2. /\ NewFrame("receipt", acked') \in Frame
      /\ NewFrame("receipt", acked').kind = "receipt"
      /\ NewFrame("receipt", acked').amount = acked'
  BY <1>1, NewFrameType
<1>3. /\ receipts \in Seq(Frame)
      /\ \A i \in 1 .. Len(receipts) :
            receipts[i].kind = "receipt" /\ receipts[i].amount <= acked'
  BY <1>1, <1>2
<1>4. Pump(s, open, receipts) /\ UNCHANGED <<up, server, done>>
  BY DEF ChunkAnswered, Answered
<1> HIDE DEF open, receipts
<1>5. QED BY <1>1, <1>3, <1>4, PumpKeeps

\* The step the theorem is about: the receipt answered has been seen.
LEMMA ReceiptKeeps ==
    ASSUME XkpInv, NEW s \in DOMAIN pending, ReceiptAnswered(s)
    PROVE  XkpInv'
<1>1. TypesOK
  BY DEF XkpInv
<1>2. pending[s].amount \in Nat /\ pending[s].amount <= proven /\ proven \in Nat
  BY DEF XkpInv, TypesOK, AnswersOK, ReceiptsOK, ReceiptAnswered, Answered, Frame
<1>3. ASSUME done' PROVE proven >= Upload
  <2>1. done \/ pending[s].amount >= Upload
    BY <1>3, Zenon DEF ReceiptAnswered
  <2>2. CASE done
    BY <2>2 DEF XkpInv, DoneIsProven
  <2>3. CASE pending[s].amount >= Upload
    BY <2>3, <1>2, XkpConstants
  <2>4. QED BY <2>1, <2>2, <2>3
<1>4. QED
  BY <1>1, <1>3, OldFrames DEF ReceiptAnswered, Answered, Without, server, TypesOK

LEMMA StepKeeps == XkpInv /\ [Next]_vars => XkpInv'
<1> SUFFICES ASSUME XkpInv, [Next]_vars PROVE XkpInv'
  OBVIOUS
<1>1. ASSUME NEW s \in DOMAIN pending,
             \/ Receive(s)
             \/ JoinAnswered(s) \/ ChunkAnswered(s) \/ ReceiptAnswered(s)
             \/ Timeout(s) \/ Retry(s) \/ WaitExpires(s)
      PROVE  XkpInv'
  BY <1>1, ReceiveKeeps, JoinKeeps, ChunkKeeps, ReceiptKeeps, TimeoutKeeps, WaitingKeeps
<1>2. ASSUME NEW m \in Media, QuarantineEnds(m) \/ Cut(m)
      PROVE  XkpInv'
  BY <1>2, OldFrames DEF QuarantineEnds, Cut, client, server, XkpInv, TypesOK, DoneIsProven
<1>3. CASE UNCHANGED vars
  BY <1>3 DEF vars, client, server, mediums, XkpInv, TypesOK, AnswersOK, ReceiptsOK, DoneIsProven
<1>4. QED BY <1>1, <1>2, <1>3 DEF Next, Event

\* A client that is done has a server that can prove every byte.
THEOREM DoneMeansProven == Spec => []DoneIsProven
<1>1. XkpInv => DoneIsProven
  BY DEF XkpInv
<1>2. QED BY <1>1, InitInv, StepKeeps, PTL DEF Spec

\* Law 3, only signed bytes are owed: the server never counts as proven what
\* the client has not seen acknowledged.
THEOREM OnlySignedIsProven == Spec => [](proven <= acked)
<1>1. XkpInv => proven <= acked
  BY DEF XkpInv
<1>2. QED BY <1>1, InitInv, StepKeeps, PTL DEF Spec

-----------------------------------------------------------------------------
\* The units of frames.  These are facts about any table p of frames, so that
\* they can be cited of the one before a step and of the one after it.

FramesOK(p, n) == n \in Nat /\ DOMAIN p \subseteq 1 .. n /\ \A s \in DOMAIN p : p[s] \in Frame

Data(p) == {s \in DOMAIN p : p[s].kind = "data"}
UnitsOver(p, S) == Total([s \in S |-> p[s].amount])

LEMMA OverType ==
    ASSUME NEW n, NEW p, FramesOK(p, n), NEW S \in SUBSET DOMAIN p
    PROVE  /\ IsFiniteSet(S) /\ Cardinality(S) \in Nat
           /\ UnitsOver(p, S) \in Nat
           /\ \A s \in S : p[s].amount \in Nat
<1>1. IsFiniteSet(S) /\ Cardinality(S) \in Nat
  <2>1. IsFiniteSet(1 .. n) /\ S \subseteq 1 .. n
    BY FS_Interval DEF FramesOK
  <2>2. QED BY <2>1, FS_Subset, FS_CardinalityType
<1>2. \A s \in S : p[s].amount \in Nat
  BY DEF FramesOK, Frame
<1>3. [s \in S |-> p[s].amount] \in [S -> Nat]
  BY <1>2
<1>4. QED BY <1>1, <1>2, <1>3, TotalType DEF UnitsOver

LEMMA OverApart ==
    ASSUME NEW n, NEW p, FramesOK(p, n), NEW S \in SUBSET DOMAIN p, NEW T \in SUBSET DOMAIN p,
           S \cap T = {}
    PROVE  UnitsOver(p, S \cup T) = UnitsOver(p, S) + UnitsOver(p, T)
<1> DEFINE D == DOMAIN p
           f == [s \in D |-> p[s].amount]
<1>1. IsFiniteSet(D) /\ \A s \in D : p[s].amount \in Nat
  BY OverType
<1>2. f \in [D -> Nat]
  BY <1>1
<1>3. \A R \in SUBSET D : UnitsOver(p, R) = Total(PartOf(f, R))
  <2>1. ASSUME NEW R \in SUBSET D PROVE PartOf(f, R) = [s \in R |-> p[s].amount]
    BY DEF PartOf
  <2>2. QED BY <2>1 DEF UnitsOver
<1>4. Total(PartOf(f, S \cup T)) = Total(PartOf(f, S)) + Total(PartOf(f, T))
  <2> HIDE DEF f
  <2>1. QED BY <1>1, <1>2, PartsApart
<1>5. QED BY <1>3, <1>4

LEMMA OverSame ==
    ASSUME NEW p, NEW q, NEW S, \A s \in S : p[s].amount = q[s].amount
    PROVE  UnitsOver(p, S) = UnitsOver(q, S)
<1>1. [s \in S |-> p[s].amount] = [s \in S |-> q[s].amount]
  OBVIOUS
<1>2. QED BY <1>1 DEF UnitsOver

\* One frame more or less.
LEMMA OverWithout ==
    ASSUME NEW n, NEW p, FramesOK(p, n), NEW S \in SUBSET DOMAIN p, NEW s \in S
    PROVE  /\ p[s].amount \in Nat
           /\ UnitsOver(p, S) = UnitsOver(p, S \ {s}) + p[s].amount
           /\ Cardinality(S) = Cardinality(S \ {s}) + 1
<1> DEFINE f == [x \in {s} |-> p[x].amount]
           z == [x \in {s} |-> 0]
<1>1. p[s].amount \in Nat /\ IsFiniteSet(S) /\ IsFiniteSet(S \ {s})
  BY OverType
<1>2. UnitsOver(p, {s}) = p[s].amount
  <2>1. f \in [{s} -> Nat] /\ z \in [{s} -> Nat] /\ f[s] = p[s].amount /\ z[s] = 0
    BY <1>1
  <2>2. Total(z) = 0
    BY TotalEmpty
  <2>3. IsFiniteSet({s}) /\ s \in {s} /\ \A b \in {s} : b # s => f[b] = z[b]
    BY FS_Singleton
  <2> HIDE DEF f, z
  <2>4. Total(f) = Total(z) - z[s] + f[s]
    BY <2>1, <2>3, TotalChange
  <2>5. Total(f) = p[s].amount
    BY <1>1, <2>1, <2>2, <2>4
  <2>6. QED BY <2>5 DEF UnitsOver, f
<1>3. S = (S \ {s}) \cup {s} /\ (S \ {s}) \cap {s} = {}
  OBVIOUS
<1>4. UnitsOver(p, (S \ {s}) \cup {s}) = UnitsOver(p, S \ {s}) + UnitsOver(p, {s})
  <2>1. S \ {s} \in SUBSET DOMAIN p /\ {s} \in SUBSET DOMAIN p
    OBVIOUS
  <2>2. QED BY <2>1, <1>3, OverApart
<1>5. Cardinality((S \ {s}) \cup {s}) = Cardinality(S \ {s}) + 1
  BY <1>1, FS_AddElement
<1>6. QED BY <1>1, <1>2, <1>3, <1>4, <1>5

\* Fewer frames hold no more.
LEMMA OverFewer ==
    ASSUME NEW n, NEW p, FramesOK(p, n), NEW T \in SUBSET DOMAIN p, NEW S \in SUBSET T
    PROVE  UnitsOver(p, S) <= UnitsOver(p, T) /\ Cardinality(S) <= Cardinality(T)
<1>1. S \in SUBSET DOMAIN p /\ T \ S \in SUBSET DOMAIN p /\ S \cap (T \ S) = {}
      /\ T = S \cup (T \ S)
  OBVIOUS
<1>2. UnitsOver(p, S \cup (T \ S)) = UnitsOver(p, S) + UnitsOver(p, T \ S)
  BY <1>1, OverApart
<1> DEFINE R == T \ S
<1>3. UnitsOver(p, S) \in Nat /\ UnitsOver(p, R) \in Nat /\ IsFiniteSet(T)
  BY <1>1, OverType
<1>4. Cardinality(S) <= Cardinality(T)
  BY <1>3, FS_Subset
<1>5. UnitsOver(p, T) = UnitsOver(p, S) + UnitsOver(p, R)
  BY <1>1, <1>2
<1> HIDE DEF R
<1>6. QED BY <1>3, <1>4, <1>5

-----------------------------------------------------------------------------
\* Exactly what is pending after new frames were sent.
LEMMA SentFrames ==
    ASSUME TypesOK, NEW rest, NEW frames \in Seq(Frame), NEW m \in Media \cup {NoMedium},
           DOMAIN rest \subseteq 1 .. seq,
           Send(rest, frames, m)
    PROVE  /\ seq' = seq + Len(frames)
           /\ DOMAIN pending' = DOMAIN rest \cup (seq + 1 .. seq + Len(frames))
           /\ \A x \in DOMAIN rest : pending'[x] = rest[x]
           /\ \A i \in 1 .. Len(frames) : /\ pending'[seq + i].kind = frames[i].kind
                                          /\ pending'[seq + i].amount = frames[i].amount
<1>1. PICK lost \in SUBSET (seq + 1 .. seq + Len(frames)) :
          /\ seq' = seq + Len(frames)
          /\ pending' = [s \in DOMAIN rest \cup (seq + 1 .. seq + Len(frames)) |->
                            IF s > seq
                            THEN Tried(frames[s - seq], m, IF s \in lost THEN "lost" ELSE "air")
                            ELSE rest[s]]
  BY DEF Send
<1>2. seq \in Nat /\ Len(frames) \in Nat
  BY DEF TypesOK
<1>3. ASSUME NEW x \in DOMAIN rest PROVE pending'[x] = rest[x]
  <2>1. ~(x > seq)
    BY <1>2
  <2>2. QED BY <1>1, <2>1
<1>4. ASSUME NEW i \in 1 .. Len(frames)
      PROVE  /\ pending'[seq + i].kind = frames[i].kind
             /\ pending'[seq + i].amount = frames[i].amount
  <2>1. seq + i \in seq + 1 .. seq + Len(frames) /\ seq + i > seq /\ (seq + i) - seq = i
    BY <1>2
  <2>2. PICK fate \in Fates : pending'[seq + i] = Tried(frames[i], m, fate)
    BY <1>1, <2>1 DEF Fates
  <2>3. frames[i] \in Frame
    OBVIOUS
  <2>4. QED BY <2>2, <2>3, TriedFacts
<1>5. QED BY <1>1, <1>3, <1>4

\* After an answer to s: the chunks pending are those that were, without s, and
\* new ones that hold exactly the units the offset moved by.
LEMMA PumpUnits ==
    ASSUME TypesOK, NEW s \in DOMAIN pending, NEW open \in Nat,
           NEW receipts \in Seq(Frame), \A i \in 1 .. Len(receipts) : receipts[i].kind = "receipt",
           Pump(s, open, receipts)
    PROVE  \E new \in SUBSET DOMAIN pending' :
              /\ new \cap 1 .. seq = {}
              /\ Data(pending') = (Data(pending) \ {s}) \cup new
              /\ \A x \in DOMAIN pending' :
                    \/ x \in DOMAIN pending \ {s} /\ pending'[x] = pending[x]
                    \/ pending'[x].kind \in {"data", "receipt"}
              /\ \A x \in DOMAIN pending \ {s} : x \in DOMAIN pending' /\ pending'[x] = pending[x]
              /\ \A x \in new : pending'[x].amount \in Nat \ {0}
              /\ offset' = offset + UnitsOver(pending', new)
              /\ outstanding' = Window - open + Cardinality(new)
<1>1. PICK m \in Best(quarantined) :
          /\ Send(Without(s), receipts \o Chunks(m, open), m)
          /\ offset' = IF offset + Len(Chunks(m, open)) * Mtu[m] <= Upload
                         THEN offset + Len(Chunks(m, open)) * Mtu[m] ELSE Upload
          /\ outstanding' = Window - open + Len(Chunks(m, open))
  BY DEF Pump
<1> DEFINE chunks == Chunks(m, open)
           frames == receipts \o chunks
           n == Len(chunks)
           base == seq + Len(receipts)
           new == base + 1 .. base + n
           L == Upload - offset
           M == Mtu[m]
           f == [x \in new |-> pending'[x].amount]
<1>2. m \in Media \cup {NoMedium}
  BY BestIsMedium
<1>3. /\ chunks \in Seq(Frame) /\ L \in Nat /\ M \in Nat \ {0}
      /\ n = 0 \/ (n - 1) * M < L
      /\ \A i \in 1 .. n : /\ chunks[i].kind = "data"
                           /\ chunks[i].amount = Piece(L, M, i)
                           /\ chunks[i].amount \in Nat \ {0}
  BY <1>2, ChunksFacts
<1>4. /\ seq \in Nat /\ n \in Nat /\ Len(receipts) \in Nat /\ base \in Nat
      /\ base = seq + Len(receipts) /\ L = Upload - offset
      /\ offset \in Nat /\ Upload \in Nat
  BY <1>3, XkpConstants DEF TypesOK
<1>5. DOMAIN Without(s) = DOMAIN pending \ {s} /\ DOMAIN pending \subseteq 1 .. seq
      /\ \A x \in DOMAIN Without(s) : Without(s)[x] = pending[x]
  BY DEF Without, TypesOK
<1>6. Send(Without(s), frames, m)
  BY <1>1
<1>7. offset' = IF offset + n * M <= Upload THEN offset + n * M ELSE Upload
  BY <1>1
<1>8. outstanding' = Window - open + n
  BY <1>1
<1> HIDE DEF chunks, M, L
<1>9. frames \in Seq(Frame) /\ Len(frames) = Len(receipts) + n
  BY <1>3
<1>10. /\ \A i \in 1 .. Len(receipts) : frames[i] = receipts[i]
       /\ \A i \in 1 .. n : frames[Len(receipts) + i] = chunks[i]
  BY <1>3, <1>4
<1> HIDE DEF frames, n, base
<1>11. /\ DOMAIN pending' = DOMAIN Without(s) \cup (seq + 1 .. seq + Len(frames))
       /\ \A x \in DOMAIN Without(s) : pending'[x] = Without(s)[x]
       /\ \A i \in 1 .. Len(frames) : /\ pending'[seq + i].kind = frames[i].kind
                                      /\ pending'[seq + i].amount = frames[i].amount
  BY <1>2, <1>5, <1>6, <1>9, SentFrames
<1>12. ASSUME NEW i \in 1 .. n
       PROVE  /\ pending'[base + i].kind = "data"
              /\ pending'[base + i].amount = Piece(L, M, i)
              /\ pending'[base + i].amount \in Nat \ {0}
  <2>1. Len(receipts) + i \in 1 .. Len(frames) /\ seq + (Len(receipts) + i) = base + i
    BY <1>4, <1>9
  <2>2. frames[Len(receipts) + i] = chunks[i]
    BY <1>10
  <2>3. /\ pending'[base + i].kind = chunks[i].kind
        /\ pending'[base + i].amount = chunks[i].amount
    BY <1>11, <2>1, <2>2
  <2>4. QED BY <1>3, <2>3
<1>13. ASSUME NEW x \in new
       PROVE  /\ x \in DOMAIN pending' /\ x \notin 1 .. seq
              /\ pending'[x].kind = "data" /\ pending'[x].amount \in Nat \ {0}
  <2>1. x - base \in 1 .. n /\ base + (x - base) = x
    BY <1>4
  <2>2. x \in seq + 1 .. seq + Len(frames) /\ x \notin 1 .. seq
    BY <1>4, <1>9
  <2>3. QED BY <1>11, <1>12, <2>1, <2>2
<1>14. ASSUME NEW x \in DOMAIN pending'
       PROVE  \/ x \in DOMAIN pending \ {s} /\ pending'[x] = pending[x]
              \/ x \in new
              \/ pending'[x].kind = "receipt" /\ x \notin 1 .. seq
  <2>1. CASE x \in DOMAIN Without(s)
    BY <1>5, <1>11, <2>1
  <2>2. CASE x \in seq + 1 .. base
    <3>1. x \in Int /\ seq < x /\ x <= seq + Len(receipts)
      BY <1>4, <2>2
    <3>2. x - seq \in 1 .. Len(receipts) /\ seq + (x - seq) = x /\ x \notin 1 .. seq
      BY <1>4, <3>1
    <3>3. x - seq \in 1 .. Len(frames)
      BY <1>4, <1>9, <3>2
    <3>4. QED BY <1>10, <1>11, <3>2, <3>3
  <2>3. CASE x \in seq + 1 .. seq + Len(frames) /\ x \notin seq + 1 .. base
    BY <1>4, <1>9, <2>3
  <2>4. QED BY <1>11, <2>1, <2>2, <2>3
<1>15. \A x \in DOMAIN pending \ {s} : x \in DOMAIN pending' /\ pending'[x] = pending[x]
  BY <1>5, <1>11
<1>16. f \in [new -> Nat] /\ \A i \in 1 .. n : f[base + i] = Piece(L, M, i)
  <2>1. \A i \in 1 .. n : base + i \in new
    BY <1>4
  <2>2. QED BY <1>12, <1>13, <2>1
<1>17. Cardinality(new) = n
  BY <1>4, Stretch
<1>18. CutUp(f, new, base, L, M, n)
  BY <1>3, <1>16 DEF CutUp
<1> HIDE DEF f, new
<1>19. AllPieces(L, M, n) \in Nat /\ Total(f) = AllPieces(L, M, n)
  BY <1>3, <1>4, <1>18, PiecesTotal
<1>20. offset' = offset + UnitsOver(pending', new)
  <2> DEFINE a == n * M
  <2>1. a \in Nat
    BY <1>3, <1>4
  <2>2. offset' = IF offset + a <= Upload THEN offset + a ELSE Upload
    BY <1>7
  <2>3. UnitsOver(pending', new) = IF a <= L THEN a ELSE L
    BY <1>19 DEF AllPieces, f, UnitsOver
  <2> HIDE DEF a
  <2>4. QED BY <1>4, <2>1, <2>2, <2>3
<1>21. Data(pending') = (Data(pending) \ {s}) \cup new
  <2>1. ASSUME NEW x \in Data(pending') PROVE x \in (Data(pending) \ {s}) \cup new
    BY <1>14, <2>1 DEF Data
  <2>2. ASSUME NEW x \in (Data(pending) \ {s}) \cup new PROVE x \in Data(pending')
    BY <1>13, <1>15, <2>2 DEF Data
  <2>3. QED BY <2>1, <2>2
<1>22. \A x \in DOMAIN pending' : \/ x \in DOMAIN pending \ {s} /\ pending'[x] = pending[x]
                                  \/ pending'[x].kind \in {"data", "receipt"}
  BY <1>13, <1>14
<1>23. new \in SUBSET DOMAIN pending' /\ new \cap 1 .. seq = {}
       /\ \A x \in new : pending'[x].amount \in Nat \ {0}
  BY <1>13
<1>24. outstanding' = Window - open + Cardinality(new)
  BY <1>8, <1>17
<1>25. QED BY <1>15, <1>20, <1>21, <1>22, <1>23, <1>24

-----------------------------------------------------------------------------
\* The client signs for a receipt less than one interval after the last one, a
\* request to join is alone on the link, no chunk is empty, and outstanding
\* counts at least the chunks that are pending.
LinkOK ==
    /\ delivered \in Nat /\ lastReceiptAt \in Nat
    /\ acked < lastReceiptAt + ReceiptEvery
    /\ \A s \in DOMAIN pending : pending[s].kind = "join" => DOMAIN pending = {s}
    /\ \A s \in Data(pending) : pending[s].amount >= 1
    /\ Cardinality(Data(pending)) <= outstanding

\* A chunk the server has seen is delivered and not yet acknowledged, one it has
\* not seen is sent and not yet delivered.  Once a chunk was given up, its units
\* are missing from either sum.
CountsOK ==
    /\ acked + UnitsOver(pending, Data(pending) \cap seen) <= delivered
    /\ delivered + UnitsOver(pending, Data(pending) \ seen) <= offset
    /\ failed => acked + UnitsOver(pending, Data(pending)) < offset
    /\ ~failed => /\ acked + UnitsOver(pending, Data(pending)) = offset
                  /\ delivered + UnitsOver(pending, Data(pending) \ seen) = offset

CountInv == XkpInv /\ LinkOK /\ CountsOK

LEMMA FramesTyped ==
    ASSUME TypesOK
    PROVE  FramesOK(pending, seq) /\ Data(pending) \in SUBSET DOMAIN pending
BY DEF TypesOK, FramesOK, Data

LEMMA CountInit == Init => CountInv
<1> SUFFICES ASSUME Init PROVE CountInv
  OBVIOUS
<1> DEFINE join == NewFrame("join", 0)
<1>1. PICK m \in Media, fate \in Fates : pending = [s \in {1} |-> Tried(join, m, fate)]
  BY DEF Init
<1>2. join \in Frame /\ join.kind = "join"
  BY NewFrameType
<1> HIDE DEF join
<1>3. DOMAIN pending = {1} /\ pending[1].kind = "join"
  BY <1>1, <1>2, TriedFacts
<1>4. Data(pending) = {}
  BY <1>3 DEF Data
<1>5. UnitsOver(pending, {}) = 0
  <2>1. [s \in {} |-> pending[s].amount] = [s \in {} |-> 0]
    OBVIOUS
  <2>2. QED BY <2>1, TotalEmpty DEF UnitsOver
<1>6. Cardinality({}) = 0
  BY FS_EmptySet
<1>7. LinkOK
  BY <1>3, <1>4, <1>6, XkpConstants DEF Init, LinkOK
<1>8. {} \cap seen = {} /\ {} \ seen = {}
  OBVIOUS
<1>9. CountsOK
  BY <1>4, <1>5, <1>8 DEF Init, CountsOK
<1>10. QED BY <1>7, <1>9, InitInv DEF CountInv

\* Frames that stand where they stood, or are gone for good.
LEMMA OldFramesCount ==
    ASSUME CountInv, TypesOK',
           seen' = seen, acked' = acked, delivered' = delivered, offset' = offset,
           outstanding' = outstanding, lastReceiptAt' = lastReceiptAt,
           \A s \in DOMAIN pending' : /\ s \in DOMAIN pending
                                      /\ pending'[s].kind = pending[s].kind
                                      /\ pending'[s].amount = pending[s].amount,
           \/ (failed' <=> failed) /\ \A s \in Data(pending) : s \in DOMAIN pending'
           \/ failed' /\ \E s \in Data(pending) : s \notin DOMAIN pending'
    PROVE  LinkOK' /\ CountsOK'
<1> DEFINE C == Data(pending)
           D == Data(pending')
<1>1. TypesOK /\ LinkOK /\ CountsOK
  BY DEF CountInv, XkpInv
<1>2. FramesOK(pending, seq) /\ C \in SUBSET DOMAIN pending
  BY <1>1, FramesTyped
<1>3. D \in SUBSET C /\ \A s \in D : pending'[s].amount = pending[s].amount
  BY DEF Data
<1>4. /\ UnitsOver(pending', D) = UnitsOver(pending, D)
      /\ UnitsOver(pending', D \cap seen) = UnitsOver(pending, D \cap seen)
      /\ UnitsOver(pending', D \ seen) = UnitsOver(pending, D \ seen)
  <2> HIDE DEF D
  <2>1. \A S \in SUBSET D : UnitsOver(pending', S) = UnitsOver(pending, S)
    BY <1>3, OverSame
  <2>2. QED BY <2>1
<1>5. /\ acked \in Nat /\ delivered \in Nat /\ offset \in Nat /\ outstanding \in Int
      /\ \A s \in C : pending[s].amount \in Nat /\ pending[s].amount >= 1
      /\ Cardinality(C) <= outstanding
  BY <1>1, XkpConstants DEF TypesOK, Frame, Data, LinkOK
<1> HIDE DEF C, D
<1>6. /\ UnitsOver(pending, D) <= UnitsOver(pending, C) /\ Cardinality(D) <= Cardinality(C)
      /\ UnitsOver(pending, D \cap seen) <= UnitsOver(pending, C \cap seen)
      /\ UnitsOver(pending, D \ seen) <= UnitsOver(pending, C \ seen)
  <2>1. /\ C \cap seen \in SUBSET DOMAIN pending /\ D \cap seen \in SUBSET (C \cap seen)
        /\ C \ seen \in SUBSET DOMAIN pending /\ D \ seen \in SUBSET (C \ seen)
    BY <1>2, <1>3
  <2>2. QED BY <1>2, <1>3, <2>1, OverFewer
<1>7. /\ UnitsOver(pending, D) \in Nat /\ UnitsOver(pending, C) \in Nat
      /\ UnitsOver(pending, D \cap seen) \in Nat /\ UnitsOver(pending, C \cap seen) \in Nat
      /\ UnitsOver(pending, D \ seen) \in Nat /\ UnitsOver(pending, C \ seen) \in Nat
      /\ Cardinality(C) \in Nat /\ Cardinality(D) \in Nat
  <2>1. /\ C \cap seen \in SUBSET DOMAIN pending /\ D \cap seen \in SUBSET DOMAIN pending
        /\ C \ seen \in SUBSET DOMAIN pending /\ D \ seen \in SUBSET DOMAIN pending
        /\ D \in SUBSET DOMAIN pending
    BY <1>2, <1>3
  <2>2. QED BY <1>2, <2>1, OverType
<1>8. LinkOK'
  <2>1. \A s \in DOMAIN pending' : pending'[s].kind = "join" => DOMAIN pending' = {s}
    BY <1>1 DEF LinkOK
  <2>2. \A s \in D : pending'[s].amount >= 1
    BY <1>3, <1>5
  <2>3. Cardinality(D) <= outstanding
    BY <1>5, <1>6, <1>7
  <2>4. QED BY <1>1, <2>1, <2>2, <2>3 DEF LinkOK, D
<1>9. /\ acked + UnitsOver(pending, C \cap seen) <= delivered
      /\ delivered + UnitsOver(pending, C \ seen) <= offset
      /\ failed => acked + UnitsOver(pending, C) < offset
      /\ ~failed => /\ acked + UnitsOver(pending, C) = offset
                    /\ delivered + UnitsOver(pending, C \ seen) = offset
  BY <1>1 DEF CountsOK, C
<1>10. CASE (failed' <=> failed) /\ \A s \in C : s \in DOMAIN pending'
  <2>1. D = C
    BY <1>10, <1>3 DEF C, D, Data
  <2>2. QED BY <1>4, <1>8, <1>9, <1>10, <2>1 DEF CountsOK, D
<1>11. ASSUME failed', NEW s \in C, s \notin DOMAIN pending' PROVE CountsOK'
  <2>1. D \in SUBSET (C \ {s}) /\ C \ {s} \in SUBSET DOMAIN pending
    BY <1>2, <1>3, <1>11 DEF D, Data
  <2>2. /\ UnitsOver(pending, C) = UnitsOver(pending, C \ {s}) + pending[s].amount
        /\ UnitsOver(pending, D) <= UnitsOver(pending, C \ {s})
    BY <1>2, <2>1, OverWithout, OverFewer
  <2>3. UnitsOver(pending, C \ {s}) \in Nat /\ pending[s].amount \in Nat /\ pending[s].amount >= 1
    BY <1>2, <1>5, <2>1, OverType
  <2>4. UnitsOver(pending, D) < UnitsOver(pending, C)
    BY <1>7, <2>2, <2>3
  <2>5. acked + UnitsOver(pending, D) < offset
    BY <1>5, <1>7, <1>9, <2>4
  <2>6. /\ acked + UnitsOver(pending, D \cap seen) <= delivered
        /\ delivered + UnitsOver(pending, D \ seen) <= offset
    BY <1>5, <1>6, <1>7, <1>9
  <2>7. QED BY <1>4, <1>11, <2>5, <2>6 DEF CountsOK, D
<1>12. QED BY <1>8, <1>10, <1>11 DEF C

\* A chunk counts as delivered the first time the server sees it, and only then.
LEMMA ReceiveCounts ==
    ASSUME CountInv, NEW s \in DOMAIN pending, Receive(s)
    PROVE  LinkOK' /\ CountsOK'
<1> DEFINE C == Data(pending)
           n == pending[s].amount
<1>1. TypesOK /\ AnswersOK /\ LinkOK /\ CountsOK
  BY DEF CountInv, XkpInv
<1>2. FramesOK(pending, seq) /\ C \in SUBSET DOMAIN pending
  BY <1>1, FramesTyped
<1>3. /\ DOMAIN pending' = DOMAIN pending
      /\ \A x \in DOMAIN pending : /\ pending'[x].kind = pending[x].kind
                                   /\ pending'[x].amount = pending[x].amount
  <2>1. PICK at \in {"lost", "answer"} : pending' = [pending EXCEPT ![s].at = at]
    BY DEF Receive
  <2>2. QED BY <1>1, <2>1 DEF TypesOK, Frame
<1>4. Data(pending') = C
  BY <1>3 DEF Data
<1>5. \A S \in SUBSET DOMAIN pending : UnitsOver(pending', S) = UnitsOver(pending, S)
  BY <1>3, OverSame
<1>6. /\ acked \in Nat /\ delivered \in Nat /\ offset \in Nat /\ n \in Nat
      /\ acked' = acked /\ offset' = offset /\ failed' = failed
      /\ outstanding' = outstanding /\ lastReceiptAt' = lastReceiptAt
      /\ seen' = seen \cup {s}
  BY <1>1 DEF TypesOK, Frame, LinkOK, Receive, client
<1>7. delivered' = IF s \in C /\ s \notin seen THEN delivered + n ELSE delivered
  <2>1. pending[s].kind = "data" => admitted
    BY <1>1 DEF AnswersOK
  <2>2. delivered' = IF pending[s].kind = "data" /\ admitted /\ IsNew(s)
                     THEN delivered + n ELSE delivered
    BY DEF Receive
  <2>3. QED BY <2>1, <2>2 DEF IsNew, Data
<1> HIDE DEF C, n
<1>8. /\ C \cap seen' \in SUBSET DOMAIN pending /\ C \ seen' \in SUBSET DOMAIN pending
      /\ C \cap seen \in SUBSET DOMAIN pending /\ C \ seen \in SUBSET DOMAIN pending
  BY <1>2
<1>9. /\ UnitsOver(pending, C) \in Nat
      /\ UnitsOver(pending, C \cap seen) \in Nat /\ UnitsOver(pending, C \ seen) \in Nat
      /\ UnitsOver(pending, C \cap seen') \in Nat /\ UnitsOver(pending, C \ seen') \in Nat
  BY <1>2, <1>8, OverType
<1>10. /\ acked + UnitsOver(pending, C \cap seen) <= delivered
       /\ delivered + UnitsOver(pending, C \ seen) <= offset
       /\ failed => acked + UnitsOver(pending, C) < offset
       /\ ~failed => /\ acked + UnitsOver(pending, C) = offset
                     /\ delivered + UnitsOver(pending, C \ seen) = offset
  BY <1>1 DEF CountsOK, C
<1>11. /\ acked + UnitsOver(pending, C \cap seen') <= delivered'
       /\ delivered' + UnitsOver(pending, C \ seen') = delivered + UnitsOver(pending, C \ seen)
  <2>1. CASE s \in C /\ s \notin seen
    <3>1. /\ (C \cap seen') \ {s} = C \cap seen /\ s \in C \cap seen'
          /\ (C \ seen) \ {s} = C \ seen' /\ s \in C \ seen
      BY <1>6, <2>1
    <3>2. UnitsOver(pending, C \cap seen') = UnitsOver(pending, (C \cap seen') \ {s}) + pending[s].amount
      BY <1>2, <1>8, <3>1, OverWithout
    <3>3. UnitsOver(pending, C \ seen) = UnitsOver(pending, (C \ seen) \ {s}) + pending[s].amount
      BY <1>2, <1>8, <3>1, OverWithout
    <3>4. /\ UnitsOver(pending, C \cap seen') = UnitsOver(pending, C \cap seen) + n
          /\ UnitsOver(pending, C \ seen) = UnitsOver(pending, C \ seen') + n
      BY <3>1, <3>2, <3>3 DEF n
    <3>5. QED BY <1>6, <1>7, <1>9, <1>10, <2>1, <3>4
  <2>2. CASE ~(s \in C /\ s \notin seen)
    <3>1. C \cap seen' = C \cap seen /\ C \ seen' = C \ seen
      BY <1>6, <2>2
    <3>2. QED BY <1>7, <1>10, <2>2, <3>1
  <2>3. QED BY <2>1, <2>2
<1>12. CountsOK'
  <2>1. /\ acked + UnitsOver(pending', C \cap seen') <= delivered'
        /\ delivered' + UnitsOver(pending', C \ seen') = delivered + UnitsOver(pending, C \ seen)
        /\ UnitsOver(pending', C) = UnitsOver(pending, C)
    BY <1>2, <1>5, <1>8, <1>11
  <2>2. QED BY <1>4, <1>6, <1>10, <2>1 DEF CountsOK
<1>13. delivered' \in Nat
  BY <1>6, <1>7
<1>14. LinkOK'
  <2>1. \A x \in DOMAIN pending' : pending'[x].kind = "join" => DOMAIN pending' = {x}
    BY <1>1, <1>3 DEF LinkOK
  <2>2. \A x \in Data(pending') : pending'[x].amount >= 1
    BY <1>1, <1>2, <1>3, <1>4 DEF LinkOK, C
  <2>3. Cardinality(Data(pending')) <= outstanding'
    BY <1>1, <1>4, <1>6 DEF LinkOK, C
  <2>4. QED BY <1>1, <1>6, <1>13, <2>1, <2>2, <2>3 DEF LinkOK
<1>15. QED BY <1>12, <1>14

\* An answer to s that makes the client pump: the chunk s, if it is one, moves
\* from the pending units to the acknowledged ones, and new chunks move the
\* offset by what they hold.
LEMMA PumpCounts ==
    ASSUME CountInv, XkpInv', NEW s \in DOMAIN pending, NEW open \in Nat,
           NEW receipts \in Seq(Frame), \A i \in 1 .. Len(receipts) : receipts[i].kind = "receipt",
           Pump(s, open, receipts),
           seen' = seen, delivered' = delivered, failed' = failed,
           acked' = acked + (IF s \in Data(pending) THEN pending[s].amount ELSE 0),
           s \in Data(pending) => s \in seen, pending[s].kind \in {"join", "data"},
           Cardinality(Data(pending) \ {s}) <= Window - open,
           lastReceiptAt' \in Nat, acked' < lastReceiptAt' + ReceiptEvery
    PROVE  LinkOK' /\ CountsOK'
<1> DEFINE C == Data(pending)
           D == C \ {s}
           k == IF s \in C THEN pending[s].amount ELSE 0
<1>1. TypesOK /\ LinkOK /\ CountsOK /\ TypesOK'
  BY DEF CountInv, XkpInv
<1>2. FramesOK(pending, seq) /\ C \in SUBSET DOMAIN pending /\ D \in SUBSET DOMAIN pending
  BY <1>1, FramesTyped
<1>3. FramesOK(pending', seq')
  BY <1>1 DEF TypesOK, FramesOK
<1>4. PICK new \in SUBSET DOMAIN pending' :
              /\ new \cap 1 .. seq = {}
              /\ Data(pending') = (Data(pending) \ {s}) \cup new
              /\ \A x \in DOMAIN pending' :
                    \/ x \in DOMAIN pending \ {s} /\ pending'[x] = pending[x]
                    \/ pending'[x].kind \in {"data", "receipt"}
              /\ \A x \in DOMAIN pending \ {s} : x \in DOMAIN pending' /\ pending'[x] = pending[x]
              /\ \A x \in new : pending'[x].amount \in Nat \ {0}
              /\ offset' = offset + UnitsOver(pending', new)
              /\ outstanding' = Window - open + Cardinality(new)
  BY <1>1, PumpUnits
<1>5. /\ acked \in Nat /\ delivered \in Nat /\ offset \in Nat /\ k \in Nat
      /\ acked' = acked + k /\ Window \in Nat /\ outstanding \in Int
  BY <1>1, XkpConstants DEF TypesOK, Frame, LinkOK, Data
<1>6. /\ D \in SUBSET DOMAIN pending' /\ \A x \in D : pending'[x] = pending[x]
      /\ D \cap new = {} /\ new \cap seen = {}
  BY <1>1, <1>2, <1>4 DEF TypesOK
<1>7. Data(pending') = D \cup new
  BY <1>4
<1> HIDE DEF C, D, k
<1>8. /\ D \cap seen \in SUBSET DOMAIN pending /\ D \ seen \in SUBSET DOMAIN pending
      /\ D \cap seen \in SUBSET DOMAIN pending' /\ D \ seen \in SUBSET DOMAIN pending'
      /\ C \cap seen \in SUBSET DOMAIN pending /\ C \ seen \in SUBSET DOMAIN pending
      /\ (D \ seen) \cap new = {}
  BY <1>2, <1>6
<1>9. /\ UnitsOver(pending', D) = UnitsOver(pending, D)
      /\ UnitsOver(pending', D \cap seen) = UnitsOver(pending, D \cap seen)
      /\ UnitsOver(pending', D \ seen) = UnitsOver(pending, D \ seen)
  <2>1. \A S \in SUBSET D : UnitsOver(pending', S) = UnitsOver(pending, S)
    BY <1>6, OverSame
  <2>2. QED BY <2>1
<1>10. /\ UnitsOver(pending, C) \in Nat /\ UnitsOver(pending, D) \in Nat
       /\ UnitsOver(pending, D \cap seen) \in Nat /\ UnitsOver(pending, C \cap seen) \in Nat
       /\ UnitsOver(pending, D \ seen) \in Nat /\ UnitsOver(pending, C \ seen) \in Nat
       /\ UnitsOver(pending', new) \in Nat
       /\ Cardinality(D) \in Nat /\ Cardinality(new) \in Nat
       /\ IsFiniteSet(D) /\ IsFiniteSet(new)
  BY <1>2, <1>3, <1>8, OverType
<1>11. /\ UnitsOver(pending, C) = UnitsOver(pending, D) + k
       /\ UnitsOver(pending, C \cap seen) = UnitsOver(pending, D \cap seen) + k
       /\ UnitsOver(pending, C \ seen) = UnitsOver(pending, D \ seen)
  <2>1. CASE s \in C
    <3>1. /\ s \in C \cap seen /\ (C \cap seen) \ {s} = D \cap seen /\ C \ {s} = D
          /\ C \ seen = D \ seen
      BY <2>1 DEF C, D
    <3>2. UnitsOver(pending, C) = UnitsOver(pending, C \ {s}) + pending[s].amount
      BY <1>2, <2>1, OverWithout
    <3>3. UnitsOver(pending, C \cap seen) = UnitsOver(pending, (C \cap seen) \ {s}) + pending[s].amount
      BY <1>2, <1>8, <3>1, OverWithout
    <3>4. QED BY <2>1, <3>1, <3>2, <3>3 DEF k
  <2>2. CASE s \notin C
    <3>1. C = D /\ k = 0
      BY <2>2 DEF D, k
    <3>2. QED BY <1>10, <3>1
  <2>3. QED BY <2>1, <2>2
<1>12. /\ UnitsOver(pending', D \cup new) = UnitsOver(pending, D) + UnitsOver(pending', new)
       /\ (D \cup new) \cap seen = D \cap seen
       /\ (D \cup new) \ seen = (D \ seen) \cup new
       /\ UnitsOver(pending', (D \ seen) \cup new)
             = UnitsOver(pending, D \ seen) + UnitsOver(pending', new)
  <2>1. UnitsOver(pending', D \cup new) = UnitsOver(pending', D) + UnitsOver(pending', new)
    BY <1>3, <1>6, OverApart
  <2>2. UnitsOver(pending', (D \ seen) \cup new)
          = UnitsOver(pending', D \ seen) + UnitsOver(pending', new)
    BY <1>3, <1>8, OverApart
  <2>3. (D \cup new) \cap seen = D \cap seen /\ (D \cup new) \ seen = (D \ seen) \cup new
    BY <1>6
  <2>4. QED BY <1>9, <2>1, <2>2, <2>3
<1>13. /\ acked + UnitsOver(pending, C \cap seen) <= delivered
       /\ delivered + UnitsOver(pending, C \ seen) <= offset
       /\ failed => acked + UnitsOver(pending, C) < offset
       /\ ~failed => /\ acked + UnitsOver(pending, C) = offset
                     /\ delivered + UnitsOver(pending, C \ seen) = offset
  BY <1>1 DEF CountsOK, C
<1>14. CountsOK'
  <2> DEFINE all == UnitsOver(pending, D)
             heard == UnitsOver(pending, D \cap seen)
             unheard == UnitsOver(pending, D \ seen)
             more == UnitsOver(pending', new)
  <2>1. all \in Nat /\ heard \in Nat /\ unheard \in Nat /\ more \in Nat
    BY <1>10
  <2>2. /\ acked + (heard + k) <= delivered /\ delivered + unheard <= offset
        /\ failed => acked + (all + k) < offset
        /\ ~failed => acked + (all + k) = offset /\ delivered + unheard = offset
    BY <1>11, <1>13
  <2>3. /\ UnitsOver(pending', D \cup new) = all + more
        /\ UnitsOver(pending', (D \cup new) \cap seen) = heard
        /\ UnitsOver(pending', (D \cup new) \ seen) = unheard + more
        /\ offset' = offset + more /\ acked' = acked + k
    BY <1>4, <1>5, <1>9, <1>12
  <2> HIDE DEF all, heard, unheard, more
  <2>4. /\ (acked + k) + heard <= delivered
        /\ delivered + (unheard + more) <= offset + more
        /\ failed => (acked + k) + (all + more) < offset + more
        /\ ~failed => /\ (acked + k) + (all + more) = offset + more
                      /\ delivered + (unheard + more) = offset + more
    BY <1>5, <2>1, <2>2
  <2>5. QED BY <1>7, <2>3, <2>4 DEF CountsOK
<1>15. LinkOK'
  <2>1. ASSUME NEW x \in DOMAIN pending' PROVE pending'[x].kind # "join"
    <3>1. \A y \in DOMAIN pending \ {s} : pending[y].kind # "join"
      BY <1>1 DEF LinkOK
    <3>2. QED BY <1>4, <3>1
  <2>2. \A x \in D \cup new : pending'[x].amount >= 1
    <3>1. \A x \in D : pending[x].amount >= 1
      BY <1>1 DEF LinkOK, C, D
    <3>2. QED BY <1>4, <1>6, <3>1
  <2>3. Cardinality(D \cup new) <= outstanding'
    <3>1. Cardinality(D \cup new) = Cardinality(D) + Cardinality(new) - Cardinality(D \cap new)
      BY <1>10, FS_Union
    <3>2. Cardinality(D \cap new) = 0
      BY <1>6, FS_EmptySet
    <3>3. Cardinality(D) <= Window - open /\ outstanding' = Window - open + Cardinality(new)
      BY <1>4 DEF C, D
    <3>4. Cardinality(D) \in Nat /\ Cardinality(new) \in Nat /\ Window \in Int /\ open \in Int
      BY <1>5, <1>10
    <3> HIDE DEF D
    <3>5. QED BY <3>1, <3>2, <3>3, <3>4
  <2>4. delivered' \in Nat
    BY <1>5
  <2>5. QED BY <1>7, <2>1, <2>2, <2>3, <2>4 DEF LinkOK
<1>16. QED BY <1>14, <1>15

LEMMA JoinCounts ==
    ASSUME CountInv, XkpInv', NEW s \in DOMAIN pending, JoinAnswered(s)
    PROVE  LinkOK' /\ CountsOK'
<1>1. TypesOK /\ AnswersOK /\ LinkOK /\ acked \in Nat /\ Window \in Nat
  BY XkpConstants DEF CountInv, XkpInv, TypesOK
<1>2. pending[s].kind = "join" /\ Pump(s, Window, << >>)
  BY DEF JoinAnswered
<1>3. Data(pending) = {}
  BY <1>1, <1>2 DEF LinkOK, Data
<1>4. << >> \in Seq(Frame) /\ \A i \in 1 .. Len(<< >>) : << >>[i].kind = "receipt"
  OBVIOUS
<1>5. Cardinality(Data(pending) \ {s}) <= Window - Window
  <2>1. Data(pending) \ {s} = {}
    BY <1>3
  <2>2. QED BY <1>1, <2>1, FS_EmptySet
<1>6. /\ seen' = seen /\ delivered' = delivered /\ failed' = failed
      /\ acked' = acked /\ lastReceiptAt' = lastReceiptAt
  BY DEF JoinAnswered, Answered, server
<1>7. acked' = acked + (IF s \in Data(pending) THEN pending[s].amount ELSE 0)
  BY <1>1, <1>3, <1>6
<1>8. lastReceiptAt' \in Nat /\ acked' < lastReceiptAt' + ReceiptEvery
  BY <1>1, <1>6 DEF LinkOK
<1>9. QED BY <1>1, <1>2, <1>3, <1>4, <1>5, <1>6, <1>7, <1>8, PumpCounts

LEMMA ChunkCounts ==
    ASSUME CountInv, XkpInv', NEW s \in DOMAIN pending, ChunkAnswered(s)
    PROVE  LinkOK' /\ CountsOK'
<1> DEFINE open == Window - outstanding + 1
           receipts == IF Due(acked') THEN <<NewFrame("receipt", acked')>> ELSE << >>
           C == Data(pending)
<1>1. /\ TypesOK /\ AnswersOK /\ LinkOK /\ acked \in Nat /\ Window \in Nat
      /\ outstanding \in Int /\ outstanding <= Window /\ ReceiptEvery \in Nat
      /\ pending[s].amount \in Nat
  BY XkpConstants DEF CountInv, XkpInv, TypesOK, Frame
<1>2. /\ pending[s].kind = "data" /\ s \in seen /\ s \in C
      /\ acked' = acked + pending[s].amount /\ Pump(s, open, receipts)
  BY <1>1 DEF ChunkAnswered, Answered, AnswersOK, Data
<1>3. open \in Nat /\ acked' \in Nat
  BY <1>1, <1>2
<1>4. NewFrame("receipt", acked') \in Frame /\ NewFrame("receipt", acked').kind = "receipt"
  BY <1>3, NewFrameType
<1>5. receipts \in Seq(Frame) /\ \A i \in 1 .. Len(receipts) : receipts[i].kind = "receipt"
  BY <1>4
<1>6. FramesOK(pending, seq) /\ C \in SUBSET DOMAIN pending
  BY <1>1, FramesTyped
<1>7. Cardinality(C \ {s}) <= Window - open
  <2>1. Cardinality(C) <= outstanding /\ Window - open = outstanding - 1
    BY <1>1 DEF LinkOK
  <2> HIDE DEF C, open
  <2>2. Cardinality(C) = Cardinality(C \ {s}) + 1
    BY <1>2, <1>6, OverWithout
  <2>3. C \ {s} \in SUBSET DOMAIN pending
    BY <1>6
  <2>4. Cardinality(C \ {s}) \in Nat
    BY <1>6, <2>3, OverType
  <2>5. QED BY <1>1, <1>3, <2>1, <2>2, <2>4
<1>8. seen' = seen /\ delivered' = delivered /\ failed' = failed
  BY DEF ChunkAnswered, Answered, server
<1>9. lastReceiptAt' \in Nat /\ acked' < lastReceiptAt' + ReceiptEvery
  <2>1. lastReceiptAt' = IF Due(acked') THEN acked' ELSE lastReceiptAt
    BY DEF ChunkAnswered
  <2>2. lastReceiptAt \in Nat
    BY <1>1 DEF LinkOK
  <2>3. CASE Due(acked')
    <3>1. lastReceiptAt' = acked'
      BY <2>1, <2>3
    <3>2. ReceiptEvery \in Nat \ {0}
      BY XkpConstants
    <3>3. acked' < acked' + ReceiptEvery
      <4>1. \A x \in Nat, y \in Nat \ {0} : x < x + y
        OBVIOUS
      <4>2. QED BY <1>3, <3>2, <4>1
    <3>4. QED BY <1>3, <3>1, <3>3
  <2>4. CASE ~Due(acked')
    <3>1. lastReceiptAt' = lastReceiptAt /\ ~(acked' - lastReceiptAt >= ReceiptEvery)
      BY <2>1, <2>4 DEF Due
    <3>2. QED BY <1>1, <1>3, <2>2, <3>1
  <2>5. QED BY <2>3, <2>4
<1> HIDE DEF open, receipts
<1>10. QED BY <1>1, <1>2, <1>3, <1>5, <1>7, <1>8, <1>9, PumpCounts

\* Dropping a frame for good is noticed if it is a chunk.
LEMMA DroppedCounts ==
    ASSUME CountInv, TypesOK', NEW s \in DOMAIN pending, Dropped(s), UNCHANGED server
    PROVE  LinkOK' /\ CountsOK'
<1>1. /\ DOMAIN pending' = DOMAIN pending \ {s}
      /\ \A x \in DOMAIN pending' : pending'[x] = pending[x]
  BY DEF Dropped, Without
<1>2. /\ seen' = seen /\ delivered' = delivered /\ acked' = acked /\ offset' = offset
      /\ outstanding' = outstanding /\ lastReceiptAt' = lastReceiptAt
  BY DEF Dropped, server
<1>3. failed' <=> failed \/ pending[s].kind = "data"
  BY Zenon DEF Dropped
<1>4. \/ (failed' <=> failed) /\ \A x \in Data(pending) : x \in DOMAIN pending'
      \/ failed' /\ \E x \in Data(pending) : x \notin DOMAIN pending'
  BY <1>1, <1>3 DEF Data
<1>5. QED BY <1>1, <1>2, <1>4, OldFramesCount

\* A frame that is tried again is still pending.
LEMMA ResendCounts ==
    ASSUME CountInv, TypesOK', NEW s \in DOMAIN pending, NEW q, Resend(s, q),
           UNCHANGED <<client, server>>
    PROVE  LinkOK' /\ CountsOK'
<1>1. TypesOK
  BY DEF CountInv, XkpInv
<1>2. /\ DOMAIN pending' = DOMAIN pending
      /\ \A x \in DOMAIN pending' : /\ pending'[x].kind = pending[x].kind
                                    /\ pending'[x].amount = pending[x].amount
  BY <1>1, ResendFacts
<1>3. /\ seen' = seen /\ delivered' = delivered /\ acked' = acked /\ offset' = offset
      /\ outstanding' = outstanding /\ lastReceiptAt' = lastReceiptAt /\ (failed' <=> failed)
  BY DEF client, server
<1>4. QED BY <1>2, <1>3, OldFramesCount DEF Data

LEMMA CountStep ==
    ASSUME CountInv, [Next]_vars
    PROVE  CountInv'
<1>1. XkpInv' /\ TypesOK'
  <2>1. XkpInv'
    BY StepKeeps DEF CountInv
  <2>2. QED BY <2>1 DEF XkpInv
<1> SUFFICES LinkOK' /\ CountsOK'
  BY <1>1 DEF CountInv
<1>2. ASSUME NEW s \in DOMAIN pending, Receive(s) PROVE LinkOK' /\ CountsOK'
  BY <1>2, ReceiveCounts
<1>3. ASSUME NEW s \in DOMAIN pending, JoinAnswered(s) PROVE LinkOK' /\ CountsOK'
  BY <1>1, <1>3, JoinCounts
<1>4. ASSUME NEW s \in DOMAIN pending, ChunkAnswered(s) PROVE LinkOK' /\ CountsOK'
  BY <1>1, <1>4, ChunkCounts
<1>5. ASSUME NEW s \in DOMAIN pending, ReceiptAnswered(s) PROVE LinkOK' /\ CountsOK'
  <2>1. /\ DOMAIN pending' = DOMAIN pending \ {s}
        /\ \A x \in DOMAIN pending' : pending'[x] = pending[x]
        /\ s \notin Data(pending)
    BY <1>5 DEF ReceiptAnswered, Without, Data
  <2>2. /\ seen' = seen /\ delivered' = delivered /\ acked' = acked /\ offset' = offset
        /\ outstanding' = outstanding /\ lastReceiptAt' = lastReceiptAt /\ (failed' <=> failed)
    BY <1>5 DEF ReceiptAnswered, Answered, server
  <2>3. \A x \in Data(pending) : x \in DOMAIN pending'
    BY <2>1 DEF Data
  <2>4. QED BY <1>1, <2>1, <2>2, <2>3, OldFramesCount
<1>6. ASSUME NEW s \in DOMAIN pending, Timeout(s) PROVE LinkOK' /\ CountsOK'
  <2>1. UNCHANGED server
    BY <1>6 DEF Timeout
  <2>2. \/ Dropped(s)
        \/ (\E q : Resend(s, q)) /\ UNCHANGED client
    BY <1>6 DEF Timeout
  <2>3. QED BY <1>1, <2>1, <2>2, DroppedCounts, ResendCounts
<1>7. ASSUME NEW s \in DOMAIN pending, Retry(s) \/ WaitExpires(s) PROVE LinkOK' /\ CountsOK'
  <2>1. CASE WaitExpires(s)
    BY <1>1, <2>1, DroppedCounts DEF WaitExpires
  <2>2. CASE Retry(s)
    BY <1>1, <2>2, ResendCounts DEF Retry
  <2>3. QED BY <1>7, <2>1, <2>2
<1>8. ASSUME (\E m \in Media : QuarantineEnds(m) \/ Cut(m)) \/ UNCHANGED vars
      PROVE  LinkOK' /\ CountsOK'
  <2>1. pending' = pending /\ UNCHANGED <<client, server>>
    BY <1>8 DEF QuarantineEnds, Cut, vars
  <2>2. /\ seen' = seen /\ delivered' = delivered /\ acked' = acked /\ offset' = offset
        /\ outstanding' = outstanding /\ lastReceiptAt' = lastReceiptAt /\ (failed' <=> failed)
    BY <2>1 DEF client, server
  <2>3. QED BY <1>1, <2>1, <2>2, OldFramesCount DEF Data
<1>9. QED BY <1>2, <1>3, <1>4, <1>5, <1>6, <1>7, <1>8 DEF Next, Event

LEMMA CountTypes ==
    ASSUME CountInv
    PROVE  /\ proven <= acked /\ acked \in Nat /\ delivered \in Nat /\ proven \in Nat
           /\ offset \in Nat /\ offset <= Upload /\ outstanding <= Window
           /\ lastReceiptAt \in Nat /\ ReceiptEvery \in Nat
           /\ acked < lastReceiptAt + ReceiptEvery
           /\ UnitsOver(pending, Data(pending)) \in Nat
           /\ UnitsOver(pending, Data(pending) \cap seen) \in Nat
           /\ UnitsOver(pending, Data(pending) \ seen) \in Nat
<1>1. TypesOK /\ LinkOK
  BY DEF CountInv, XkpInv
<1>2. FramesOK(pending, seq) /\ Data(pending) \in SUBSET DOMAIN pending
  BY <1>1, FramesTyped
<1>3. /\ Data(pending) \cap seen \in SUBSET DOMAIN pending
      /\ Data(pending) \ seen \in SUBSET DOMAIN pending
  BY <1>2
<1>4. /\ UnitsOver(pending, Data(pending)) \in Nat
      /\ UnitsOver(pending, Data(pending) \cap seen) \in Nat
      /\ UnitsOver(pending, Data(pending) \ seen) \in Nat
  BY <1>2, <1>3, OverType
<1>5. QED BY <1>1, <1>4, XkpConstants DEF CountInv, XkpInv, TypesOK, LinkOK

LEMMA PropertySums ==
    /\ Chunked = Data(pending)
    /\ \A S : UnitsIn(S) = UnitsOver(pending, S)
BY DEF Chunked, Data, UnitsIn, UnitsOver

\* Law 5 on the link, a replay pays nothing: through any loss, repeat and
\* overtaking every chunk is counted exactly once at each end.
THEOREM EveryChunkOnce == Spec => []CountedOnce
<1>1. CountInv => CountedOnce
  <2> SUFFICES ASSUME CountInv PROVE CountedOnce
    OBVIOUS
  <2> DEFINE all == UnitsOver(pending, Data(pending))
             heard == UnitsOver(pending, Data(pending) \cap seen)
             unheard == UnitsOver(pending, Data(pending) \ seen)
  <2>1. /\ proven <= acked /\ acked \in Nat /\ delivered \in Nat
        /\ offset \in Nat /\ offset <= Upload
        /\ all \in Nat /\ heard \in Nat /\ unheard \in Nat
    BY CountTypes
  <2>2. /\ acked + heard <= delivered /\ delivered + unheard <= offset
        /\ failed => acked + all < offset
        /\ ~failed => acked + all = offset /\ delivered + unheard = offset
    BY DEF CountInv, CountsOK
  <2>3. UnitsIn(Chunked) = all /\ UnitsIn(Chunked \ seen) = unheard
    BY PropertySums
  <2> HIDE DEF all, heard, unheard
  <2>4. acked <= delivered /\ delivered <= offset /\ (failed => acked < offset)
    BY <2>1, <2>2
  <2>5. QED BY <2>1, <2>2, <2>3, <2>4 DEF CountedOnce
<1>2. QED BY <1>1, CountInit, CountStep, PTL DEF Spec

\* Law 3, as far as the code keeps it: beyond the window the server gives away
\* less than one interval unproven, once the newest receipt has arrived, and the
\* window never holds more chunks than it is wide.
THEOREM ExposureIsBounded == Spec => []ExposureBounded
<1>1. CountInv => ExposureBounded
  <2> SUFFICES ASSUME CountInv PROVE ExposureBounded
    OBVIOUS
  <2> DEFINE all == UnitsOver(pending, Data(pending))
             unheard == UnitsOver(pending, Data(pending) \ seen)
  <2>1. /\ acked \in Nat /\ delivered \in Nat /\ proven \in Nat /\ offset \in Nat
        /\ lastReceiptAt \in Nat /\ ReceiptEvery \in Nat /\ outstanding <= Window
        /\ acked < lastReceiptAt + ReceiptEvery /\ all \in Nat /\ unheard \in Nat
    BY CountTypes
  <2>2. delivered + unheard <= offset /\ (~failed => acked + all = offset)
    BY DEF CountInv, CountsOK
  <2>3. Cardinality(Chunked) <= outstanding /\ UnitsIn(Chunked) = all
    BY PropertySums DEF CountInv, LinkOK
  <2> HIDE DEF all, unheard
  <2>4. ASSUME proven = lastReceiptAt, ~failed PROVE delivered - proven < ReceiptEvery + all
    BY <2>1, <2>2, <2>4
  <2>5. QED BY <2>1, <2>3, <2>4 DEF ExposureBounded
<1>2. QED BY <1>1, CountInit, CountStep, PTL DEF Spec
=============================================================================
