------------------------------ MODULE MCOnramp ------------------------------
(***************************************************************************)
(* Small instances of Onramp: who buys how much over which rail.           *)
(***************************************************************************)
EXTENDS Onramp, TLC

CONSTANTS alice, bob, noOrder

Start8 == alice :> "a" @@ bob :> "b"

\* Three purchases, each with a key of its own.
Three == {1, 2, 3}
ThreeBuyers == <<alice, alice, bob>>
ThreeRails == <<"daraja", "jenga", "jenga">>
ThreeKes == <<1, 2, 2>>
Hasty == {3}

\* The same purchase twice.
Two == {1, 2}
SameBuyer == <<alice, alice>>
SameRail == <<"jenga", "jenga">>
SameKes == <<1, 1>>
Nobody == {}
=============================================================================
