-------------------------------- MODULE Gate --------------------------------
(***************************************************************************)
(* docker/gate/server.mjs: the password gate in front of the web site.     *)
(* nginx asks /auth about every request; a browser posts its password to   *)
(* /gate.  The process keeps no sessions: a cookie is a signed name and    *)
(* expiry, under a key derived from the secret and from the password.  It  *)
(* keeps the times of failed attempts, per address.  handlePost awaits the *)
(* body between the check of the limit and the comparison, so posts        *)
(* interleave.  SHA-256 and HMAC are taken to be injective.                *)
(***************************************************************************)
EXTENDS Accounting, Sequences

CONSTANTS
    Browsers,       \* each has at most one post on the way
    Address,        \* the address of each of them, as clientIp returns it
    Names, DEFAULT_NAME,
    Passwords,
    Secrets, NoSecret,      \* a secret that is not set, or is too short, is no secret
    Files,          \* environments: the passwords and the secret that are set
    NoToken,
    TTL,            \* lifetime of a cookie
    RATE_LIMIT, RATE_WINDOW,
    MaxTime, MaxRestarts, MaxGuesses    \* bounds

Entry == [name : Names \cup {DEFAULT_NAME}, password : Passwords, wellFormed : BOOLEAN]

ASSUME GateConstants ==
    /\ IsFiniteSet(Browsers) /\ DEFAULT_NAME \notin Names
    /\ NoSecret \notin Secrets
    /\ \A f \in Files :
         f.default \in Passwords /\ f.named \in Seq(Entry) /\ f.secret \in Secrets \cup {NoSecret}
    /\ TTL \in Nat \ {0} /\ RATE_LIMIT \in Nat \ {0} /\ RATE_WINDOW \in Nat \ {0}
    /\ MaxTime \in Nat /\ MaxRestarts \in Nat /\ MaxGuesses \in Nat

VARIABLES
    file,       \* the environment the process was started with
    failures,   \* failures: how many attempts of an address failed at each time
    post,       \* where the post of each browser is
    cookie,     \* the browsers' cookies
    now,
    restarts,   \* which run of the process this is
    guesses,    \* history: the failed attempts since the last success or restart
    opened      \* history: how each browser got its cookie

vars == <<file, failures, post, cookie, now, restarts, guesses, opened>>

Addresses == {Address[b] : b \in Browsers}

-----------------------------------------------------------------------------
\* Wrong: without a secret in the environment it is always the same.
DefaultSecret(set, run) == IF set = NoSecret THEN <<"random", 0>> ELSE <<"set", set>>

\* SECRET: the environment's, whatever the run before had, or random bytes,
\* which no other run has.
SECRET(set, run) == IF set = NoSecret THEN <<"random", run>> ELSE <<"set", set>>

\* parseNamed: a malformed entry, the default's name and a name that an entry
\* before it has taken are skipped; the first well-formed entry of a name takes it.
Skipped(entries, i) ==
    \/ ~entries[i].wellFormed
    \/ entries[i].name = DEFAULT_NAME
    \/ \E j \in 1 .. i - 1 : entries[j].wellFormed /\ entries[j].name = entries[i].name

\* Wrong: an entry that is skipped ends the list.
StopAtSkipped(entries) == {i \in DOMAIN entries : \A j \in 1 .. i : ~Skipped(entries, j)}

\* The positions of the entries that are kept.
parseNamed(entries) == {i \in DOMAIN entries : ~Skipped(entries, i)}

\* The list, by position: the default's entry is the first.
CREDENTIALS ==
    [f \in Files |-> [i \in {0} \cup parseNamed(f.named) |->
        IF i = 0 THEN [name |-> DEFAULT_NAME, password |-> f.default, wellFormed |-> TRUE]
                 ELSE f.named[i]]]

KeyOf(s, credential) == <<s, credential.password>>

\* The credential at the last of the given positions, if any: the loops of
\* matchPassword and verify do not stop at a match.
LastOf(f, positions) ==
    {CREDENTIALS[f][i] : i \in {i \in positions : \A j \in positions : j <= i}}

matchPassword(f, password) ==
    LastOf(f, {i \in DOMAIN CREDENTIALS[f] : CREDENTIALS[f][i].password = password})

sign(s, credential, at) ==
    [n |-> credential.name, exp |-> at + TTL, key |-> KeyOf(s, credential)]

Signer(f, s, token) ==
    LastOf(f, {i \in DOMAIN CREDENTIALS[f] : KeyOf(s, CREDENTIALS[f][i]) = token.key})

\* Wrong: whose key matched is not compared with the name.
verifyAnyName(f, s, token, at) ==
    token # NoToken /\ Signer(f, s, token) # {} /\ at < token.exp

verify(f, s, token, at) ==
    /\ token # NoToken
    /\ \E credential \in Signer(f, s, token) : credential.name = token.n
    /\ at < token.exp

Times == 0 .. MaxTime
NoHits == [t \in Times |-> 0]

\* The attempts of the last window.
Recent(hits) == [t \in Times |-> IF now < t + RATE_WINDOW THEN hits[t] ELSE 0]

pruneFailures(ip) == [failures EXCEPT ![ip] = Recent(@)]

\* Wrong: one attempt too many is let in.
overLimitLate(ip) == Total(Recent(failures[ip])) > RATE_LIMIT

overLimit(ip) == Total(Recent(failures[ip])) >= RATE_LIMIT

recordFailure(ip) == [failures EXCEPT ![ip] = Credit(Recent(@), now, 1)]

-----------------------------------------------------------------------------
Init ==
    /\ file \in Files
    /\ failures = [ip \in Addresses |-> NoHits]
    /\ post = [b \in Browsers |-> "idle"]
    /\ cookie = [b \in Browsers |-> NoToken]
    /\ now = 0
    /\ restarts = 0
    /\ guesses = [ip \in Addresses |-> NoHits]
    /\ opened = [b \in Browsers |-> NoToken]

\* handlePost up to the await: the limit is checked, and the body is waited for ...
PostAdmitted(b) ==
    /\ post[b] = "idle"
    /\ ~overLimit(Address[b])
    /\ failures' = pruneFailures(Address[b])
    /\ post' = [post EXCEPT ![b] = "reading"]
    /\ UNCHANGED <<file, cookie, now, restarts, guesses, opened>>

\* ... or the attempt is refused: 429.
PostRefused(b) ==
    /\ post[b] = "idle"
    /\ overLimit(Address[b])
    /\ failures' = pruneFailures(Address[b])
    /\ UNCHANGED <<file, post, cookie, now, restarts, guesses, opened>>

\* The body breaks off, is not a form with one password, or the password is nobody's.
PostFails(b) ==
    /\ post[b] = "reading"
    /\ Total(guesses[Address[b]]) < MaxGuesses
    /\ failures' = recordFailure(Address[b])
    /\ guesses' = [guesses EXCEPT ![Address[b]] = Credit(@, now, 1)]
    /\ post' = [post EXCEPT ![b] = "idle"]
    /\ UNCHANGED <<file, cookie, now, restarts, opened>>

\* The password is somebody's: the failures of the address are forgotten.
PostSucceeds(b, password) ==
    /\ post[b] = "reading"
    /\ \E credential \in matchPassword(file, password) :
         cookie' = [cookie EXCEPT ![b] = sign(SECRET(file.secret, restarts), credential, now)]
    /\ opened' = [opened EXCEPT ![b] =
         [password |-> password, secret |-> file.secret, run |-> restarts, at |-> now]]
    /\ failures' = [failures EXCEPT ![Address[b]] = NoHits]
    /\ guesses' = [guesses EXCEPT ![Address[b]] = NoHits]
    /\ post' = [post EXCEPT ![b] = "idle"]
    /\ UNCHANGED <<file, now, restarts>>

\* handleLogout, or the browser closes: the cookie is deleted, nothing else.
Logout(b) ==
    /\ cookie[b] # NoToken
    /\ cookie' = [cookie EXCEPT ![b] = NoToken]
    /\ opened' = [opened EXCEPT ![b] = NoToken]
    /\ UNCHANGED <<file, failures, post, now, restarts, guesses>>

\* The timer that forgets old failures.
Sweep ==
    /\ failures' = [ip \in Addresses |-> Recent(failures[ip])]
    /\ UNCHANGED <<file, post, cookie, now, restarts, guesses, opened>>

Tick ==
    /\ now < MaxTime
    /\ now' = now + 1
    /\ UNCHANGED <<file, failures, post, cookie, restarts, guesses, opened>>

\* The process ends and starts again, in this environment: from it come the list
\* of passwords and the secret, and nothing from the run before.
Restart(f) ==
    /\ restarts < MaxRestarts
    /\ restarts' = restarts + 1
    /\ file' = f
    /\ failures' = [ip \in Addresses |-> NoHits]
    /\ guesses' = [ip \in Addresses |-> NoHits]
    /\ post' = [b \in Browsers |-> "idle"]
    /\ UNCHANGED <<cookie, now, opened>>

Handler(b) ==
    PostAdmitted(b) \/ PostRefused(b) \/ PostFails(b) \/ Logout(b)
        \/ \E password \in Passwords : PostSucceeds(b, password)

GateNext == Sweep \/ Tick \/ (\E b \in Browsers : Handler(b)) \/ (\E f \in Files : Restart(f))

Spec == Init /\ [][GateNext]_vars

-----------------------------------------------------------------------------
\* handleAuth: nginx lets the browser through.
handleAuth(b) == verify(file, SECRET(file.secret, restarts), cookie[b], now)

\* No two names of an environment share a password.
Distinct(f) ==
    \A i, j \in DOMAIN CREDENTIALS[f] :
        CREDENTIALS[f][i].password = CREDENTIALS[f][j].password => i = j

\* An environment gives a name this password: it is the default's, or that of
\* the first well-formed entry of the name.
Gives(f, name, password) ==
    IF name = DEFAULT_NAME THEN f.default = password
    ELSE \E i \in DOMAIN f.named :
            /\ f.named[i] = [name |-> name, password |-> password, wellFormed |-> TRUE]
            /\ \A j \in 1 .. i - 1 : f.named[j].name = name => ~f.named[j].wellFormed

\* A browser has a cookie that the present environment stands by: its password
\* was posted less than the lifetime of a cookie ago, the environment gives it to
\* the name of the cookie, and the secret that was set then is the one that is
\* set now; with none set, it was posted to this run of the process.
Earned(b) ==
    /\ cookie[b] # NoToken
    /\ now < opened[b].at + TTL
    /\ Gives(file, cookie[b].n, opened[b].password)
    /\ opened[b].secret = file.secret
    /\ file.secret = NoSecret => opened[b].run = restarts

\* A browser is let through only if it has earned it, whatever the process was
\* restarted with: a password that was changed, a name that was taken off the
\* list or a secret that was rotated opens nothing any more, and without a
\* secret every cookie dies with the process.
SessionIsEarned == \A b \in Browsers : handleAuth(b) => Earned(b)

\* Changing a password ends the sessions opened with it and nobody else's: who
\* has earned it is let through, wherever the name stands in the list now, and
\* also when runs with other passwords or another secret, or none, lie between.
\* It takes passwords that differ: of two names with one password only the later
\* keeps its sessions.
OthersKeepTheirSessions == \A b \in Browsers : Earned(b) /\ Distinct(file) => handleAuth(b)

InFlight(ip) == {b \in Browsers : Address[b] = ip /\ post[b] = "reading"}

\* However the posts of an address interleave, and however often it was swept,
\* fewer than the limit, and one for each post that was on the way when the
\* limit was reached, fail within one window; and every one of them counts.
GuessesBounded ==
    \A ip \in Addresses :
        /\ Recent(guesses[ip]) = Recent(failures[ip])
        /\ Total(Recent(guesses[ip])) + Cardinality(InFlight(ip))
             < RATE_LIMIT + Cardinality({b \in Browsers : Address[b] = ip})
=============================================================================
