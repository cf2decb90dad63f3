----------------------------- MODULE FeePayout ------------------------------
(***************************************************************************)
(* What the fee payout promises (gateway-api/app/payout/worker.py:1-22),   *)
(* free of ledgers, callbacks and retries: a fee transfer is paid out in   *)
(* KES at most once, its XKN is burned at most once, and only after it was *)
(* paid.                                                                   *)
(***************************************************************************)
EXTENDS Naturals

CONSTANTS Fees      \* the transfers of fees from the beneficiary to the bridge

VARIABLES paid, burned

Init == paid = [k \in Fees |-> 0] /\ burned = [k \in Fees |-> 0]

Pay(k) == paid[k] = 0 /\ paid' = [paid EXCEPT ![k] = 1] /\ UNCHANGED burned

Burn(k) ==
    /\ paid[k] = 1
    /\ burned[k] = 0
    /\ burned' = [burned EXCEPT ![k] = 1]
    /\ UNCHANGED paid

Next == \E k \in Fees : Pay(k) \/ Burn(k)

Spec == Init /\ [][Next]_<<paid, burned>>
=============================================================================
