------------------------------ MODULE MCPayout ------------------------------
(***************************************************************************)
(* Small instances of Payout: which blocks hold which transfers.           *)
(***************************************************************************)
EXTENDS Payout

CONSTANTS noCursor

\* One fee, one fee before two transfers that are none, two fees.
OneFee == <<"fee">>
MixedKinds == <<"fee", "small", "foreign">>
TwoFees == <<"fee", "fee">>
=============================================================================
