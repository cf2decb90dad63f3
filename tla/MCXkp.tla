------------------------------- MODULE MCXkp -------------------------------
(***************************************************************************)
(* An upload over a fast medium of the grid and a slow radio.              *)
(***************************************************************************)
EXTENDS Xkp

CONSTANTS plc, lora

MCMtu == [m \in {plc, lora, NoMedium} |-> IF m = plc THEN 2 ELSE 1]
=============================================================================
