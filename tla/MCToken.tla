------------------------------ MODULE MCToken -------------------------------
(***************************************************************************)
(* A small instance of TokenHistory: one user and one or two bridges.      *)
(***************************************************************************)
EXTENDS TokenHistory

CONSTANTS user, kiosk

MCUsers == {user, kiosk}
MCBalance == [u \in MCUsers |-> IF u = user THEN 1 ELSE 0]
MCNone == {}
=============================================================================
