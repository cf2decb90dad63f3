----------------------------- MODULE GateProofs -----------------------------
(***************************************************************************)
(* Proofs about Gate, for any lists of passwords, any number of browsers   *)
(* and any limits: whom a cookie lets in, whom a changed password throws   *)
(* out, and how many guesses an address has in a window.                   *)
(***************************************************************************)
EXTENDS Gate, AccountingProofs, TLAPS

-----------------------------------------------------------------------------
(* The list of credentials. *)

\* Every credential of the list is one that the environment gives.
LEMMA ListedIsGiven ==
  ASSUME NEW f \in Files, NEW i \in DOMAIN CREDENTIALS[f]
  PROVE  /\ CREDENTIALS[f][i].name \in Names \cup {DEFAULT_NAME}
         /\ CREDENTIALS[f][i].password \in Passwords
         /\ Gives(f, CREDENTIALS[f][i].name, CREDENTIALS[f][i].password)
<1> DEFINE c == CREDENTIALS[f][i]
<1>1. f.default \in Passwords /\ f.named \in Seq(Entry)
  BY GateConstants
<1>2. i \in {0} \cup parseNamed(f.named)
  BY DEF CREDENTIALS
<1>3. CASE i = 0
  <2>1. c = [name |-> DEFAULT_NAME, password |-> f.default, wellFormed |-> TRUE]
    BY <1>3 DEF CREDENTIALS
  <2>2. QED BY <1>1, <2>1 DEF Gives
<1>4. CASE i # 0
  <2>1. i \in parseNamed(f.named) /\ i \in DOMAIN f.named
    BY <1>2, <1>4 DEF parseNamed
  <2>2. c = f.named[i]
    BY <1>2, <1>4 DEF CREDENTIALS
  <2>3. c \in Entry
    BY <1>1, <2>1, <2>2
  <2>4. ~Skipped(f.named, i)
    BY <2>1 DEF parseNamed
  <2>5. c.wellFormed /\ c.name # DEFAULT_NAME
    BY <2>2, <2>4, Zenon DEF Skipped
  <2>6. \A j \in 1 .. i - 1 : f.named[j].name = c.name => ~f.named[j].wellFormed
    BY <2>2, <2>4, Zenon DEF Skipped
  <2>7. c = [name |-> c.name, password |-> c.password, wellFormed |-> TRUE]
    BY <2>3, <2>5 DEF Entry
  <2>8. c.name \in Names \cup {DEFAULT_NAME} /\ c.password \in Passwords
    BY <2>3 DEF Entry
  <2>9. Gives(f, c.name, c.password)
    <3> DEFINE n == c.name
               p == c.password
    <3>1. f.named[i] = [name |-> n, password |-> p, wellFormed |-> TRUE]
      BY <2>2, <2>7
    <3>2. n # DEFAULT_NAME /\ \A j \in 1 .. i - 1 : f.named[j].name = n => ~f.named[j].wellFormed
      BY <2>5, <2>6
    <3> HIDE DEF n, p
    <3>3. Gives(f, n, p)
      BY <2>1, <3>1, <3>2, Zenon DEF Gives
    <3>4. QED BY <3>3 DEF n, p
  <2>10. QED BY <2>8, <2>9
<1>5. QED BY <1>3, <1>4

\* Every credential that the environment gives is in the list.
LEMMA GivenIsListed ==
  ASSUME NEW f \in Files, NEW name, NEW password, Gives(f, name, password)
  PROVE  \E i \in DOMAIN CREDENTIALS[f] :
            CREDENTIALS[f][i].name = name /\ CREDENTIALS[f][i].password = password
<1>1. DOMAIN CREDENTIALS[f] = {0} \cup parseNamed(f.named)
  BY DEF CREDENTIALS
<1>2. CASE name = DEFAULT_NAME
  <2>1. f.default = password
    BY <1>2 DEF Gives
  <2>2. CREDENTIALS[f][0] = [name |-> DEFAULT_NAME, password |-> f.default, wellFormed |-> TRUE]
    BY DEF CREDENTIALS
  <2>3. QED BY <1>1, <1>2, <2>1, <2>2
<1>3. CASE name # DEFAULT_NAME
  <2>1. PICK i \in DOMAIN f.named :
          /\ f.named[i] = [name |-> name, password |-> password, wellFormed |-> TRUE]
          /\ \A j \in 1 .. i - 1 : f.named[j].name = name => ~f.named[j].wellFormed
    BY <1>3, Zenon DEF Gives
  <2>2. f.named[i].name = name /\ f.named[i].password = password /\ f.named[i].wellFormed
    BY <2>1
  <2>3. ~Skipped(f.named, i)
    BY <1>3, <2>1, <2>2, Zenon DEF Skipped
  <2>4. f.named \in Seq(Entry)
    BY GateConstants
  <2>5. i # 0
    BY <2>4
  <2>6. i \in parseNamed(f.named) /\ i # 0
    BY <2>3, <2>5 DEF parseNamed
  <2>7. CREDENTIALS[f][i] = f.named[i]
    BY <2>6 DEF CREDENTIALS
  <2>8. QED BY <1>1, <2>2, <2>6, <2>7
<1>4. QED BY <1>2, <1>3

\* What a loop over the list ends with is a credential at one of the positions.
LEMMA LastOfIsListed ==
  ASSUME NEW f, NEW positions, NEW c \in LastOf(f, positions)
  PROVE  \E i \in positions : c = CREDENTIALS[f][i]
BY DEF LastOf

\* If there is only one, it ends with that one.
LEMMA LastOfOne ==
  ASSUME NEW f, NEW positions, NEW i \in Int, i \in positions, \A j \in positions : j = i
  PROVE  CREDENTIALS[f][i] \in LastOf(f, positions)
BY DEF LastOf

-----------------------------------------------------------------------------
(* Types, and what a cookie holds. *)

Kinds == {"random", "set"}
Token == [n : Names \cup {DEFAULT_NAME}, exp : Nat,
          key : (Kinds \X (Secrets \cup Nat)) \X Passwords]
Opening == [password : Passwords, secret : Secrets \cup {NoSecret}, run : Nat, at : Nat]

GateTypeOK ==
    /\ file \in Files /\ restarts \in Nat
    /\ failures \in [Addresses -> [Times -> Nat]]
    /\ guesses \in [Addresses -> [Times -> Nat]]
    /\ post \in [Browsers -> {"idle", "reading"}]
    /\ cookie \in [Browsers -> Token \cup {NoToken}]
    /\ opened \in [Browsers -> Opening \cup {NoToken}]
    /\ now \in Times

\* A cookie was signed by some run, under the secret that run had and with the
\* password that was posted for it, and it lasts for a lifetime.
SignedFor(token, o) ==
    /\ o \in Opening
    /\ token.key = <<SECRET(o.secret, o.run), o.password>>
    /\ token.exp = o.at + TTL

CookieOK == \A b \in Browsers : cookie[b] # NoToken => SignedFor(cookie[b], opened[b])

LEMMA SecretType ==
  ASSUME NEW s \in Secrets \cup {NoSecret}, NEW run \in Nat
  PROVE  SECRET(s, run) \in Kinds \X (Secrets \cup Nat)
BY DEF SECRET, Kinds

\* Runs share a secret only if it is set, and set to the same.
LEMMA SecretsDiffer ==
  ASSUME NEW s, NEW t, NEW run, NEW other, SECRET(s, run) = SECRET(t, other)
  PROVE  s = t /\ (s = NoSecret => run = other)
BY DEF SECRET

LEMMA SameSecret ==
  ASSUME NEW s, NEW run, NEW other, s = NoSecret => run = other
  PROVE  SECRET(s, run) = SECRET(s, other)
BY DEF SECRET

LEMMA RecentType ==
  ASSUME GateTypeOK, NEW ip \in Addresses
  PROVE  Recent(failures[ip]) \in [Times -> Nat] /\ NoHits \in [Times -> Nat]
BY DEF GateTypeOK, Recent, NoHits

LEMMA CreditType ==
  ASSUME NEW S, NEW f \in [S -> Nat], NEW a \in S
  PROVE  Credit(f, a, 1) \in [S -> Nat]
BY DEF Credit

\* A success gives a cookie under a credential of the list, with the password posted.
LEMMA SignedType ==
  ASSUME NEW f \in Files, NEW run \in Nat, NEW at \in Nat, NEW password \in Passwords,
         NEW credential \in matchPassword(f, password)
  PROVE  LET token == sign(SECRET(f.secret, run), credential, at)
             o == [password |-> password, secret |-> f.secret, run |-> run, at |-> at]
         IN token \in Token /\ o \in Opening /\ SignedFor(token, o)
<1> DEFINE s == SECRET(f.secret, run)
           token == sign(s, credential, at)
           o == [password |-> password, secret |-> f.secret, run |-> run, at |-> at]
<1>1. PICK i \in DOMAIN CREDENTIALS[f] :
        credential = CREDENTIALS[f][i] /\ CREDENTIALS[f][i].password = password
  BY LastOfIsListed DEF matchPassword
<1>2. credential.name \in Names \cup {DEFAULT_NAME} /\ credential.password = password
  BY <1>1, ListedIsGiven
<1>3. at + TTL \in Nat /\ f.secret \in Secrets \cup {NoSecret}
  BY GateConstants
<1>4. s \in Kinds \X (Secrets \cup Nat)
  BY <1>3, SecretType
<1>5. o \in Opening
  BY <1>3 DEF Opening
<1>6. SignedFor(token, o)
  BY <1>2, <1>5 DEF SignedFor, sign, KeyOf
<1> HIDE DEF s
<1>7. token \in Token
  BY <1>2, <1>3, <1>4 DEF sign, KeyOf, Token
<1>8. QED BY <1>5, <1>6, <1>7 DEF s

LEMMA GateInit == Init => GateTypeOK /\ CookieOK
<1>1. 0 \in Times
  BY GateConstants DEF Times
<1>2. QED BY <1>1 DEF Init, GateTypeOK, CookieOK, NoHits

LEMMA GateStep == GateTypeOK /\ CookieOK /\ [GateNext]_vars => GateTypeOK' /\ CookieOK'
<1> SUFFICES ASSUME GateTypeOK, CookieOK, [GateNext]_vars PROVE GateTypeOK' /\ CookieOK'
  OBVIOUS
<1> DEFINE Goal == GateTypeOK' /\ CookieOK'
<1>a. now \in Nat /\ now \in Times /\ TTL \in Nat
  BY GateConstants DEF GateTypeOK, Times
<1>1. ASSUME NEW b \in Browsers, Handler(b) PROVE Goal
  <2>a. Address[b] \in Addresses
    BY DEF Addresses
  <2>b. Recent(failures[Address[b]]) \in [Times -> Nat] /\ NoHits \in [Times -> Nat]
    BY <2>a, RecentType
  <2>1. ASSUME PostAdmitted(b) PROVE Goal
    BY <2>1, <2>b DEF PostAdmitted, pruneFailures, GateTypeOK, CookieOK
  <2>2. ASSUME PostRefused(b) PROVE Goal
    BY <2>2, <2>b DEF PostRefused, pruneFailures, GateTypeOK, CookieOK
  <2>3. ASSUME PostFails(b) PROVE Goal
    <3>1. Credit(Recent(failures[Address[b]]), now, 1) \in [Times -> Nat]
      BY <1>a, <2>b, CreditType
    <3>2. Credit(guesses[Address[b]], now, 1) \in [Times -> Nat]
      BY <1>a, <2>a, CreditType DEF GateTypeOK
    <3>3. QED BY <2>3, <3>1, <3>2 DEF PostFails, recordFailure, GateTypeOK, CookieOK
  <2>4. ASSUME NEW password \in Passwords, PostSucceeds(b, password) PROVE Goal
    <3>1. PICK credential \in matchPassword(file, password) :
            cookie' = [cookie EXCEPT ![b] = sign(SECRET(file.secret, restarts), credential, now)]
      BY <2>4 DEF PostSucceeds
    <3> DEFINE token == sign(SECRET(file.secret, restarts), credential, now)
               o == [password |-> password, secret |-> file.secret, run |-> restarts, at |-> now]
    <3>2. token \in Token /\ o \in Opening /\ SignedFor(token, o)
      BY <1>a, SignedType DEF GateTypeOK
    <3>3. cookie' = [cookie EXCEPT ![b] = token] /\ opened' = [opened EXCEPT ![b] = o]
      BY <2>4, <3>1 DEF PostSucceeds
    <3> HIDE DEF token, o
    <3>4. GateTypeOK'
      BY <2>4, <2>b, <3>2, <3>3 DEF PostSucceeds, GateTypeOK
    <3>5. CookieOK'
      BY <3>2, <3>3 DEF GateTypeOK, CookieOK
    <3>6. QED BY <3>4, <3>5
  <2>5. ASSUME Logout(b) PROVE Goal
    BY <2>5 DEF Logout, GateTypeOK, CookieOK
  <2>6. QED BY <1>1, <2>1, <2>2, <2>3, <2>4, <2>5 DEF Handler
<1>2. ASSUME Sweep PROVE Goal
  <2>1. \A ip \in Addresses : Recent(failures[ip]) \in [Times -> Nat]
    BY RecentType
  <2>2. QED BY <1>2, <2>1 DEF Sweep, GateTypeOK, CookieOK
<1>3. ASSUME Tick PROVE Goal
  <2>1. now' = now + 1 /\ now + 1 \in Times
    BY <1>3, GateConstants DEF Tick, GateTypeOK, Times
  <2>2. GateTypeOK'
    BY <1>3, <2>1 DEF Tick, GateTypeOK
  <2>3. QED BY <1>3, <2>2 DEF Tick, CookieOK
<1>4. ASSUME NEW f \in Files, Restart(f) PROVE Goal
  BY <1>4 DEF Restart, GateTypeOK, CookieOK, NoHits
<1>5. ASSUME UNCHANGED vars PROVE Goal
  BY <1>5 DEF vars, GateTypeOK, CookieOK
<1>6. QED BY <1>1, <1>2, <1>3, <1>4, <1>5 DEF GateNext

LEMMA GateInvariant == Spec => [](GateTypeOK /\ CookieOK)
BY GateInit, GateStep, PTL DEF Spec

-----------------------------------------------------------------------------
(* Whom a cookie lets in. *)

\* A cookie that lets in was signed under a credential of its name, for the
\* password that was posted for it, under the present secret.
LEMMA LetInIsListed ==
  ASSUME GateTypeOK, CookieOK, NEW b \in Browsers, handleAuth(b)
  PROVE  /\ cookie[b] # NoToken /\ opened[b] \in Opening /\ now < opened[b].at + TTL
         /\ SECRET(file.secret, restarts) = SECRET(opened[b].secret, opened[b].run)
         /\ \E i \in DOMAIN CREDENTIALS[file] :
              /\ CREDENTIALS[file][i].name = cookie[b].n
              /\ CREDENTIALS[file][i].password = opened[b].password
<1> DEFINE s == SECRET(file.secret, restarts)
           t == SECRET(opened[b].secret, opened[b].run)
<1>1. /\ cookie[b] # NoToken /\ now < cookie[b].exp
      /\ \E credential \in Signer(file, s, cookie[b]) : credential.name = cookie[b].n
  BY DEF handleAuth, verify
<1>2. PICK i \in DOMAIN CREDENTIALS[file] :
        /\ KeyOf(s, CREDENTIALS[file][i]) = cookie[b].key
        /\ CREDENTIALS[file][i].name = cookie[b].n
  BY <1>1, LastOfIsListed DEF Signer
<1>3. /\ opened[b] \in Opening /\ cookie[b].exp = opened[b].at + TTL
      /\ cookie[b].key = <<t, opened[b].password>>
  BY <1>1 DEF CookieOK, SignedFor
<1> HIDE DEF s, t
<1>4. s = t /\ CREDENTIALS[file][i].password = opened[b].password
  BY <1>2, <1>3 DEF KeyOf
<1>5. QED BY <1>1, <1>2, <1>3, <1>4 DEF s, t

\* Whom the gate lets through has posted the present password of its name less
\* than the lifetime of a cookie ago, under the secret that is set now or, with
\* none, to this run: whatever lists and secrets the process was started with.
THEOREM EarnedSessions == Spec => []SessionIsEarned
<1>1. GateTypeOK /\ CookieOK => SessionIsEarned
  <2> SUFFICES ASSUME GateTypeOK, CookieOK, NEW b \in Browsers, handleAuth(b)
               PROVE  Earned(b)
    BY DEF SessionIsEarned
  <2>1. cookie[b] # NoToken /\ now < opened[b].at + TTL
    BY LetInIsListed
  <2>2. Gives(file, cookie[b].n, opened[b].password)
    BY LetInIsListed, ListedIsGiven DEF GateTypeOK
  <2>3. file.secret = opened[b].secret /\ (file.secret = NoSecret => restarts = opened[b].run)
    BY LetInIsListed, SecretsDiffer
  <2>4. QED BY <2>1, <2>2, <2>3 DEF Earned
<1>2. QED BY <1>1, GateInvariant, PTL

\* A password that is in the list again, under the secret its sessions were opened
\* under, keeps them, wherever its name stands and whatever the runs between had,
\* if no two names of the list share a password.
THEOREM KeptSessions == Spec => []OthersKeepTheirSessions
<1>1. ASSUME GateTypeOK, CookieOK, NEW b \in Browsers, Earned(b), Distinct(file)
      PROVE  handleAuth(b)
  <2> DEFINE s == SECRET(file.secret, restarts)
             positions == {j \in DOMAIN CREDENTIALS[file] :
                             KeyOf(s, CREDENTIALS[file][j]) = cookie[b].key}
  <2>1. /\ cookie[b] # NoToken /\ now < opened[b].at + TTL
        /\ Gives(file, cookie[b].n, opened[b].password)
        /\ opened[b].secret = file.secret /\ (file.secret = NoSecret => restarts = opened[b].run)
    BY <1>1 DEF Earned
  <2>2. PICK i \in DOMAIN CREDENTIALS[file] :
          /\ CREDENTIALS[file][i].name = cookie[b].n
          /\ CREDENTIALS[file][i].password = opened[b].password
    <3>1. file \in Files
      BY <1>1 DEF GateTypeOK
    <3>2. QED BY <2>1, <3>1, GivenIsListed
  <2>3. s = SECRET(opened[b].secret, opened[b].run)
    BY <2>1, SameSecret
  <2>4. now < cookie[b].exp /\ cookie[b].key = <<s, opened[b].password>>
    BY <1>1, <2>1, <2>3 DEF CookieOK, SignedFor
  <2> HIDE DEF s
  <2>5. i \in positions
    BY <2>2, <2>4 DEF KeyOf
  <2>6. \A j \in positions : j = i
    BY <1>1, <2>2, <2>4 DEF KeyOf, Distinct
  <2>7. i \in Int
    <3>1. DOMAIN CREDENTIALS[file] = {0} \cup parseNamed(file.named) /\ file.named \in Seq(Entry)
      BY <1>1, GateConstants DEF CREDENTIALS, GateTypeOK
    <3>2. QED BY <3>1 DEF parseNamed
  <2>8. CREDENTIALS[file][i] \in Signer(file, s, cookie[b])
    <3> HIDE DEF positions
    <3>1. CREDENTIALS[file][i] \in LastOf(file, positions)
      BY <2>5, <2>6, <2>7, LastOfOne
    <3>2. QED BY <3>1 DEF Signer, positions
  <2>9. verify(file, s, cookie[b], now)
    BY <2>1, <2>2, <2>4, <2>8 DEF verify
  <2>10. QED BY <2>9 DEF s, handleAuth
<1>2. GateTypeOK /\ CookieOK => OthersKeepTheirSessions
  BY <1>1 DEF OthersKeepTheirSessions
<1>3. QED BY <1>2, GateInvariant, PTL

-----------------------------------------------------------------------------
(* How many guesses an address has. *)

\* The attempts of the window that ends at n.
RecentAt(n, hits) == [t \in Times |-> IF n < t + RATE_WINDOW THEN hits[t] ELSE 0]

LEMMA RecentIs == \A hits : Recent(hits) = RecentAt(now, hits)
BY DEF Recent, RecentAt

LEMMA TimesFinite == IsFiniteSet(Times)
BY GateConstants, FS_Interval DEF Times

LEMMA RecentAtType ==
  ASSUME NEW n, NEW hits \in [Times -> Nat]
  PROVE  RecentAt(n, hits) \in [Times -> Nat] /\ Total(RecentAt(n, hits)) \in Nat
<1>1. IsFiniteSet(Times)
  BY TimesFinite
<1>2. RecentAt(n, hits) \in [Times -> Nat]
  BY DEF RecentAt
<1>3. QED BY <1>1, <1>2, TotalType

\* What an earlier look has forgotten, a later one does not miss.
LEMMA RecentTwice ==
  ASSUME NEW n \in Nat, NEW m \in Nat, n <= m, NEW hits \in [Times -> Nat]
  PROVE  RecentAt(m, RecentAt(n, hits)) = RecentAt(m, hits)
<1>1. ASSUME NEW t \in Times PROVE RecentAt(m, RecentAt(n, hits))[t] = RecentAt(m, hits)[t]
  <2>1. t \in Nat /\ RATE_WINDOW \in Nat
    BY GateConstants DEF Times
  <2>2. QED BY <2>1 DEF RecentAt
<1>2. QED BY <1>1 DEF RecentAt

\* The window forgets as time passes.
LEMMA RecentShrinks ==
  ASSUME NEW n \in Nat, NEW hits \in [Times -> Nat]
  PROVE  Total(RecentAt(n + 1, hits)) <= Total(RecentAt(n, hits))
<1> DEFINE f == RecentAt(n, hits)
           g == RecentAt(n + 1, hits)
           h == [t \in Times |-> t]
<1>1. f \in [Times -> Nat] /\ g \in [Times -> Nat] /\ IsFiniteSet(Times)
  BY RecentAtType, TimesFinite
<1>2. h \in [Times -> Times] /\ \A x, y \in Times : h[x] = h[y] => x = y
  OBVIOUS
<1>3. ASSUME NEW t \in Times PROVE g[t] <= f[h[t]]
  <2>1. t \in Nat /\ RATE_WINDOW \in Nat /\ hits[t] \in Nat
    BY GateConstants DEF Times
  <2>2. QED BY <2>1 DEF RecentAt
<1> HIDE DEF f, g, h
<1>4. Total(g) <= Total(f)
  BY <1>1, <1>2, <1>3, TotalCovered
<1>5. QED BY <1>4 DEF f, g

\* An attempt that fails now is in the window.
LEMMA RecentCredit ==
  ASSUME NEW n \in Times, NEW hits \in [Times -> Nat]
  PROVE  /\ RecentAt(n, Credit(hits, n, 1)) = Credit(RecentAt(n, hits), n, 1)
         /\ Total(RecentAt(n, Credit(hits, n, 1))) = Total(RecentAt(n, hits)) + 1
<1> DEFINE f == RecentAt(n, hits)
<1>1. n < n + RATE_WINDOW
  BY GateConstants DEF Times
<1>2. RecentAt(n, Credit(hits, n, 1)) = Credit(f, n, 1)
  <2>1. ASSUME NEW t \in Times PROVE RecentAt(n, Credit(hits, n, 1))[t] = Credit(f, n, 1)[t]
    BY <1>1 DEF RecentAt, Credit
  <2>2. QED BY <2>1 DEF RecentAt, Credit
<1>3. f \in [Times -> Nat] /\ IsFiniteSet(Times)
  BY RecentAtType, TimesFinite
<1> HIDE DEF f
<1>4. Total(Credit(f, n, 1)) = Total(f) + 1
  BY <1>3, TotalCredit
<1>5. QED BY <1>2, <1>4 DEF f

LEMMA RecentNone ==
  ASSUME NEW n \in Nat
  PROVE  RecentAt(n, NoHits) = NoHits /\ Total(NoHits) = 0
<1>1. RecentAt(n, NoHits) = NoHits
  BY DEF RecentAt, NoHits
<1>2. Total(NoHits) = 0
  BY TotalEmpty DEF NoHits
<1>3. QED BY <1>1, <1>2

\* The browsers of an address, and those of them whose post is on the way.
At(ip) == {b \in Browsers : Address[b] = ip}
Reading(ip, p) == {b \in At(ip) : p[b] = "reading"}

LEMMA ReadingIs == \A ip : InFlight(ip) = Reading(ip, post)
BY DEF InFlight, Reading, At

LEMMA ReadingType ==
  ASSUME NEW ip, NEW p
  PROVE  /\ IsFiniteSet(At(ip)) /\ IsFiniteSet(Reading(ip, p))
         /\ Cardinality(At(ip)) \in Nat /\ Cardinality(Reading(ip, p)) \in Nat
         /\ Cardinality(Reading(ip, p)) <= Cardinality(At(ip))
<1>1. IsFiniteSet(At(ip))
  BY GateConstants, FS_Subset DEF At
<1>2. IsFiniteSet(Reading(ip, p)) /\ Cardinality(Reading(ip, p)) <= Cardinality(At(ip))
  BY <1>1, FS_Subset DEF Reading
<1>3. QED BY <1>1, <1>2, FS_CardinalityType

\* A post that ends is one fewer on the way.
LEMMA ReadingEnds ==
  ASSUME NEW p \in [Browsers -> {"idle", "reading"}], NEW b \in Browsers, p[b] = "reading"
  PROVE  Cardinality(Reading(Address[b], [p EXCEPT ![b] = "idle"]))
           = Cardinality(Reading(Address[b], p)) - 1
<1> DEFINE S == Reading(Address[b], p)
           T == Reading(Address[b], [p EXCEPT ![b] = "idle"])
<1>1. T = S \ {b} /\ b \in S
  BY DEF Reading, At
<1>2. IsFiniteSet(S)
  BY ReadingType
<1> HIDE DEF S, T
<1>3. Cardinality(S \ {b}) = Cardinality(S) - 1
  BY <1>1, <1>2, FS_RemoveElement
<1>4. QED BY <1>1, <1>3 DEF S, T

\* GuessesBounded, of one address: what it has guessed, what is remembered of
\* it, the time and where the posts are.
Bounded(ip, guessed, remembered, n, p) ==
    /\ RecentAt(n, guessed) = RecentAt(n, remembered)
    /\ Total(RecentAt(n, guessed)) + Cardinality(Reading(ip, p)) < RATE_LIMIT + Cardinality(At(ip))

AllBounded == \A ip \in Addresses : Bounded(ip, guesses[ip], failures[ip], now, post)

LEMMA GuessesBoundedIs == GuessesBounded <=> AllBounded
BY RecentIs, ReadingIs DEF GuessesBounded, Bounded, At, AllBounded

\* Nobody has guessed yet: at most everybody is about to.
LEMMA BoundedAtFirst ==
  ASSUME NEW ip, NEW n \in Nat, NEW p
  PROVE  Bounded(ip, NoHits, NoHits, n, p)
BY RecentNone, ReadingType, GateConstants DEF Bounded

\* A post is let in: there is room for its failure, for the limit is not reached.
LEMMA BoundedAdmits ==
  ASSUME NEW ip, NEW n \in Nat, NEW hits \in [Times -> Nat], NEW known \in [Times -> Nat],
         NEW p, NEW q, Bounded(ip, hits, known, n, p), Total(RecentAt(n, known)) < RATE_LIMIT
  PROVE  Bounded(ip, hits, RecentAt(n, known), n, q)
<1> DEFINE F == Total(RecentAt(n, hits))
           R == Cardinality(Reading(ip, q))
           A == Cardinality(At(ip))
<1>1. RecentAt(n, RecentAt(n, known)) = RecentAt(n, known)
  BY RecentTwice
<1>2. RecentAt(n, hits) = RecentAt(n, known)
  BY DEF Bounded
<1>3. F \in Nat /\ R \in Nat /\ A \in Nat /\ R <= A /\ RATE_LIMIT \in Nat /\ F < RATE_LIMIT
  BY <1>2, RecentAtType, ReadingType, GateConstants
<1> HIDE DEF F, R, A
<1>4. F + R < RATE_LIMIT + A
  BY <1>3
<1>5. QED BY <1>1, <1>2, <1>4 DEF Bounded, F, R, A

\* Looking at the window changes nothing.
LEMMA BoundedPrunes ==
  ASSUME NEW ip, NEW n \in Nat, NEW hits, NEW known \in [Times -> Nat], NEW p,
         Bounded(ip, hits, known, n, p)
  PROVE  Bounded(ip, hits, RecentAt(n, known), n, p)
BY RecentTwice DEF Bounded

\* A post that fails counts, and is no longer on the way.
LEMMA BoundedFails ==
  ASSUME NEW b \in Browsers, NEW n \in Times, NEW hits \in [Times -> Nat],
         NEW known \in [Times -> Nat], NEW p \in [Browsers -> {"idle", "reading"}],
         p[b] = "reading", Bounded(Address[b], hits, known, n, p)
  PROVE  Bounded(Address[b], Credit(hits, n, 1), Credit(RecentAt(n, known), n, 1), n,
                 [p EXCEPT ![b] = "idle"])
<1> DEFINE F == Total(RecentAt(n, hits))
           G == Total(RecentAt(n, Credit(hits, n, 1)))
           R == Cardinality(Reading(Address[b], p))
           Q == Cardinality(Reading(Address[b], [p EXCEPT ![b] = "idle"]))
           A == Cardinality(At(Address[b]))
<1>0. n \in Nat
  BY GateConstants DEF Times
<1>1. RecentAt(n, Credit(RecentAt(n, known), n, 1)) = RecentAt(n, Credit(hits, n, 1))
  <2> DEFINE known1 == RecentAt(n, known)
  <2>1. known1 \in [Times -> Nat] /\ RecentAt(n, known1) = RecentAt(n, known)
    BY <1>0, RecentAtType, RecentTwice
  <2>2. RecentAt(n, hits) = RecentAt(n, known)
    BY DEF Bounded
  <2> HIDE DEF known1
  <2>3. RecentAt(n, Credit(known1, n, 1)) = Credit(RecentAt(n, known1), n, 1)
    BY <2>1, RecentCredit
  <2>4. RecentAt(n, Credit(hits, n, 1)) = Credit(RecentAt(n, hits), n, 1)
    BY RecentCredit
  <2>5. QED BY <2>1, <2>2, <2>3, <2>4 DEF known1
<1>2. G = F + 1 /\ Q = R - 1
  BY RecentCredit, ReadingEnds
<1>3. F \in Nat /\ R \in Nat /\ A \in Nat /\ RATE_LIMIT \in Nat
  BY RecentAtType, ReadingType, GateConstants
<1>4. F + R < RATE_LIMIT + A
  BY DEF Bounded
<1> HIDE DEF F, G, R, Q, A
<1>5. G + Q < RATE_LIMIT + A
  BY <1>2, <1>3, <1>4
<1>6. QED BY <1>1, <1>5 DEF Bounded, G, Q, A

\* Time only forgets.
LEMMA BoundedTicks ==
  ASSUME NEW ip, NEW n \in Nat, NEW hits \in [Times -> Nat], NEW known \in [Times -> Nat],
         NEW p, Bounded(ip, hits, known, n, p)
  PROVE  Bounded(ip, hits, known, n + 1, p)
<1> DEFINE F == Total(RecentAt(n, hits))
           G == Total(RecentAt(n + 1, hits))
           R == Cardinality(Reading(ip, p))
           A == Cardinality(At(ip))
<1>1. RecentAt(n + 1, hits) = RecentAt(n + 1, known)
  <2>1. /\ RecentAt(n + 1, RecentAt(n, hits)) = RecentAt(n + 1, hits)
        /\ RecentAt(n + 1, RecentAt(n, known)) = RecentAt(n + 1, known)
    <3>1. n + 1 \in Nat /\ n <= n + 1
      OBVIOUS
    <3>2. QED BY <3>1, RecentTwice
  <2>2. QED BY <2>1 DEF Bounded
<1>2. G <= F
  BY RecentShrinks
<1>3. F \in Nat /\ G \in Nat /\ R \in Nat /\ A \in Nat /\ RATE_LIMIT \in Nat
  BY RecentAtType, ReadingType, GateConstants
<1>4. F + R < RATE_LIMIT + A
  BY DEF Bounded
<1> HIDE DEF F, G, R, A
<1>5. G + R < RATE_LIMIT + A
  BY <1>2, <1>3, <1>4
<1>6. QED BY <1>1, <1>5 DEF Bounded, G, R, A

\* What is on the way from one address does not concern another.
LEMMA BoundedElsewhere ==
  ASSUME NEW b \in Browsers, NEW ip, ip # Address[b], NEW hits, NEW known, NEW n,
         NEW p \in [Browsers -> {"idle", "reading"}], NEW x, Bounded(ip, hits, known, n, p)
  PROVE  Bounded(ip, hits, known, n, [p EXCEPT ![b] = x])
<1>1. Reading(ip, [p EXCEPT ![b] = x]) = Reading(ip, p)
  BY DEF Reading, At
<1>2. QED BY <1>1 DEF Bounded

LEMMA GuessesInit == Init => GuessesBounded
<1> SUFFICES ASSUME Init, NEW ip \in Addresses
             PROVE  Bounded(ip, guesses[ip], failures[ip], now, post)
  BY GuessesBoundedIs DEF AllBounded
<1>1. guesses[ip] = NoHits /\ failures[ip] = NoHits /\ now \in Nat
  BY DEF Init
<1>2. QED BY <1>1, BoundedAtFirst

\* What a handler does for one address, to the guesses of every address.
LEMMA GuessesHandler ==
  ASSUME GateTypeOK, GuessesBounded, NEW b \in Browsers, Handler(b), NEW ip \in Addresses
  PROVE  Bounded(ip, guesses'[ip], failures'[ip], now', post')
<1> DEFINE here == Address[b]
           Goal == Bounded(ip, guesses'[ip], failures'[ip], now', post')
<1>1. /\ here \in Addresses /\ now \in Times /\ now \in Nat
      /\ failures[ip] \in [Times -> Nat] /\ guesses[ip] \in [Times -> Nat]
      /\ post \in [Browsers -> {"idle", "reading"}]
      /\ failures \in [Addresses -> [Times -> Nat]] /\ guesses \in [Addresses -> [Times -> Nat]]
  <2>1. here \in Addresses
    BY GateConstants DEF Addresses
  <2>2. now \in Times /\ now \in Nat
    BY GateConstants DEF GateTypeOK, Times
  <2>3. /\ failures \in [Addresses -> [Times -> Nat]]
        /\ guesses \in [Addresses -> [Times -> Nat]]
        /\ post \in [Browsers -> {"idle", "reading"}]
    BY DEF GateTypeOK
  <2>4. QED BY <2>1, <2>2, <2>3
<1>2. Bounded(ip, guesses[ip], failures[ip], now, post)
  BY GuessesBoundedIs DEF AllBounded
<1>3. ASSUME PostAdmitted(b) PROVE Goal
  <2>1. /\ failures' = [failures EXCEPT ![here] = RecentAt(now, failures[here])]
        /\ post' = [post EXCEPT ![b] = "reading"] /\ guesses' = guesses /\ now' = now
    BY <1>3, RecentIs DEF PostAdmitted, pruneFailures
  <2>2. CASE ip = here
    <3>1. ~(Total(RecentAt(now, failures[ip])) >= RATE_LIMIT)
      BY <1>3, <2>2, RecentIs DEF PostAdmitted, overLimit
    <3>2. Total(RecentAt(now, failures[ip])) < RATE_LIMIT
      BY <1>1, <3>1, RecentAtType, GateConstants
    <3>3. Bounded(ip, guesses[ip], RecentAt(now, failures[ip]), now, post')
      BY <1>1, <1>2, <3>2, BoundedAdmits
    <3>4. QED BY <1>1, <2>1, <2>2, <3>3
  <2>3. CASE ip # here
    <3>1. failures'[ip] = failures[ip]
      BY <1>1, <2>1, <2>3
    <3>2. QED BY <1>1, <1>2, <2>1, <2>3, <3>1, BoundedElsewhere
  <2>4. QED BY <2>2, <2>3
<1>4. ASSUME PostRefused(b) PROVE Goal
  <2>1. /\ failures' = [failures EXCEPT ![here] = RecentAt(now, failures[here])]
        /\ post' = post /\ guesses' = guesses /\ now' = now
    BY <1>4, RecentIs DEF PostRefused, pruneFailures
  <2>2. failures'[ip] = failures[ip] \/ failures'[ip] = RecentAt(now, failures[ip])
    BY <1>1, <2>1
  <2>3. QED BY <1>1, <1>2, <2>1, <2>2, BoundedPrunes
<1>5. ASSUME PostFails(b) PROVE Goal
  <2>1. /\ failures' = [failures EXCEPT ![here] = Credit(RecentAt(now, failures[here]), now, 1)]
        /\ guesses' = [guesses EXCEPT ![here] = Credit(guesses[here], now, 1)]
        /\ post' = [post EXCEPT ![b] = "idle"] /\ now' = now /\ post[b] = "reading"
    BY <1>5, RecentIs DEF PostFails, recordFailure
  <2>2. CASE ip = here
    <3>1. Bounded(Address[b], Credit(guesses[ip], now, 1),
                  Credit(RecentAt(now, failures[ip]), now, 1), now, [post EXCEPT ![b] = "idle"])
      BY <1>1, <1>2, <2>1, <2>2, BoundedFails
    <3>2. QED BY <1>1, <2>1, <2>2, <3>1
  <2>3. CASE ip # here
    <3>1. failures'[ip] = failures[ip] /\ guesses'[ip] = guesses[ip]
      BY <1>1, <2>1, <2>3
    <3>2. QED BY <1>1, <1>2, <2>1, <2>3, <3>1, BoundedElsewhere
  <2>4. QED BY <2>2, <2>3
<1>6. ASSUME NEW password \in Passwords, PostSucceeds(b, password) PROVE Goal
  <2>1. /\ failures' = [failures EXCEPT ![here] = NoHits]
        /\ guesses' = [guesses EXCEPT ![here] = NoHits]
        /\ post' = [post EXCEPT ![b] = "idle"] /\ now' = now
    BY <1>6 DEF PostSucceeds
  <2>2. CASE ip = here
    BY <1>1, <2>1, <2>2, BoundedAtFirst
  <2>3. CASE ip # here
    <3>1. failures'[ip] = failures[ip] /\ guesses'[ip] = guesses[ip]
      BY <1>1, <2>1, <2>3
    <3>2. QED BY <1>1, <1>2, <2>1, <2>3, <3>1, BoundedElsewhere
  <2>4. QED BY <2>2, <2>3
<1>7. ASSUME Logout(b) PROVE Goal
  BY <1>2, <1>7 DEF Logout
<1>8. QED BY <1>3, <1>4, <1>5, <1>6, <1>7 DEF Handler

LEMMA GuessesStep == GateTypeOK /\ GuessesBounded /\ [GateNext]_vars => GuessesBounded'
<1> SUFFICES ASSUME GateTypeOK, GuessesBounded, [GateNext]_vars,
                    NEW ip \in {Address[b] : b \in Browsers}
             PROVE  Bounded(ip, guesses'[ip], failures'[ip], now', post')
  <2>1. GuessesBounded' <=> AllBounded'
    BY GuessesBoundedIs, PTL
  <2>2. QED BY <2>1 DEF Addresses, AllBounded
<1> DEFINE Goal == Bounded(ip, guesses'[ip], failures'[ip], now', post')
<1>1. /\ ip \in Addresses /\ now \in Times /\ now \in Nat
      /\ failures[ip] \in [Times -> Nat] /\ guesses[ip] \in [Times -> Nat]
  BY GateConstants DEF GateTypeOK, Addresses, Times
<1>2. Bounded(ip, guesses[ip], failures[ip], now, post)
  BY <1>1, GuessesBoundedIs DEF AllBounded
<1>3. ASSUME NEW b \in Browsers, Handler(b) PROVE Goal
  BY <1>1, <1>3, GuessesHandler
<1>4. ASSUME Sweep PROVE Goal
  <2>1. /\ failures'[ip] = RecentAt(now, failures[ip])
        /\ guesses' = guesses /\ now' = now /\ post' = post
    BY <1>1, <1>4, RecentIs DEF Sweep
  <2>2. QED BY <1>1, <1>2, <2>1, BoundedPrunes
<1>5. ASSUME Tick PROVE Goal
  <2>1. now' = now + 1 /\ failures' = failures /\ guesses' = guesses /\ post' = post
    BY <1>5 DEF Tick
  <2>2. QED BY <1>1, <1>2, <2>1, BoundedTicks
<1>6. ASSUME NEW f \in Files, Restart(f) PROVE Goal
  <2>1. failures'[ip] = NoHits /\ guesses'[ip] = NoHits /\ now' = now
    BY <1>1, <1>6 DEF Restart
  <2>2. QED BY <1>1, <2>1, BoundedAtFirst
<1>7. ASSUME UNCHANGED vars PROVE Goal
  BY <1>2, <1>7 DEF vars
<1>8. QED BY <1>3, <1>4, <1>5, <1>6, <1>7 DEF GateNext

\* The posts of an address may interleave at every await, and the timer may run
\* between them: within one window fewer than the limit fail, and one for each
\* browser of the address, and not one of them is forgotten.
THEOREM GuessesAreBounded == Spec => []GuessesBounded
BY GuessesInit, GuessesStep, GateInvariant, PTL DEF Spec

=============================================================================
