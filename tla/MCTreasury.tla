----------------------------- MODULE MCTreasury -----------------------------
(***************************************************************************)
(* A small instance of TreasuryTimelock: the owner's key is in the wrong   *)
(* hands and queues heirs, the treasury itself among them.                 *)
(***************************************************************************)
EXTENDS TreasuryTimelock

CONSTANTS founder, thief

MCUsers == {founder, thief}
MCBalance == [u \in MCUsers |-> IF u = thief THEN 2 ELSE 0]
MCNone == {}
=============================================================================
