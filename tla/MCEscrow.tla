------------------------------ MODULE MCEscrow ------------------------------
(***************************************************************************)
(* Small instances of Escrow: what its clients signed, and what they did   *)
(* not sign but somebody submits all the same.                             *)
(***************************************************************************)
EXTENDS Escrow

CONSTANTS alice, bob, node

MCUsers == {alice, bob, node}
MCBalance == [u \in MCUsers |-> IF u = alice THEN 3 ELSE IF u = bob THEN 1 ELSE 0]

MCTicket(c, seq, units, expiry) ==
    [client |-> c, nodeAdmin |-> node, sequenceNumber |-> seq,
     cumulativeUnits |-> units, epochExpiry |-> expiry]

\* A growing series, one of them out of order, one short-lived, and a forgery.
MCSignedTickets ==
    {MCTicket(alice, 1, 1, 9), MCTicket(alice, 2, 3, 1), MCTicket(alice, 3, 2, 9),
     MCTicket(bob, 1, 2, 9)}
MCTickets == MCSignedTickets \cup {MCTicket(alice, 4, 9, 9)}

MCAuth(kind, c, to, n, nonce, deadline) ==
    [kind |-> kind, client |-> c, to |-> to, amount |-> n,
     nonce |-> nonce, deadline |-> deadline]

\* Two over the same nonce, the next nonce, a short deadline, a forgery.
MCSignedAuths ==
    {MCAuth("Withdraw", alice, bob, 2, 0, 9),
     MCAuth("TransferDeposit", alice, bob, 1, 0, 9),
     MCAuth("TransferDeposit", alice, alice, 1, 1, 2),
     MCAuth("Withdraw", alice, EscrowAddr, 1, 1, 9),
     MCAuth("Withdraw", alice, ZeroAddr, 1, 1, 9),
     MCAuth("Withdraw", bob, alice, 1, 0, 2)}
MCAuths == MCSignedAuths \cup
    {MCAuth("Withdraw", alice, node, 1, 0, 9),
     MCAuth("TransferDeposit", alice, node, 1, 1, 9)}

MCPermit(u, n, nonce, deadline) ==
    [owner |-> u, value |-> n, nonce |-> nonce, deadline |-> deadline]
MCSignedPermits == {MCPermit(alice, 2, 0, 9), MCPermit(alice, 1, 1, 2)}
MCPermits == MCSignedPermits \cup {MCPermit(bob, 1, 0, 9)}

MCNone == {}
=============================================================================
