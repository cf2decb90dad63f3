----------------------------- MODULE Accounting -----------------------------
(***************************************************************************)
(* Totals of a ledger.  A ledger is a function from accounts to amounts of *)
(* base units; its total is the number of units it holds, counted as a set *)
(* of (account, unit) pairs.  Counting a set, and not summing by recursion, *)
(* is what lets proofs reason about totals.                                *)
(***************************************************************************)
EXTENDS Naturals, FiniteSets

\* The base units ledger f holds: unit k of account a is the pair <<a, k>>.
UnitsOf(f) == UNION {{a} \X (1 .. f[a]) : a \in DOMAIN f}

\* The sum of f over its accounts.
Total(f) == Cardinality(UnitsOf(f))

\* f after n units are added to, or taken from, account a.
Credit(f, a, n) == [f EXCEPT ![a] = @ + n]
Debit(f, a, n) == [f EXCEPT ![a] = @ - n]
=============================================================================
