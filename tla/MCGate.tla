------------------------------- MODULE MCGate -------------------------------
(***************************************************************************)
(* A small instance of Gate: two browsers behind one address and four      *)
(* environments of the same two names.                                     *)
(***************************************************************************)
EXTENDS Gate, TLC

CONSTANTS b1, b2, home, legal, investor, owner, s1, s2

OneAddress == b1 :> home @@ b2 :> home

Is(name, password) == [name |-> name, password |-> password, wellFormed |-> TRUE]
Malformed(name, password) == [name |-> name, password |-> password, wellFormed |-> FALSE]

\* As first written; with passwords changed, in another order, and with entries
\* that are skipped; with the secret rotated, and a password two names share;
\* and without a secret.
FourFiles == {
    [default |-> "open", secret |-> s1,
     named |-> <<Is(legal, "l1"), Is(investor, "i1")>>],
    [default |-> "l1", secret |-> s1,
     named |-> <<Malformed(legal, "l2"), Is(owner, "l2"), Is(investor, "i1"),
                 Is(legal, "l2"), Is(investor, "open")>>],
    [default |-> "open", secret |-> s2,
     named |-> <<Is(legal, "i1"), Is(investor, "i1")>>],
    [default |-> "open", secret |-> NoSecret,
     named |-> <<Is(investor, "i1"), Is(legal, "l1")>>]}
=============================================================================
