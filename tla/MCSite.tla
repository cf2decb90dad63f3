------------------------------- MODULE MCSite -------------------------------
(***************************************************************************)
(* A small instance of Site.  Balances are in tenths of a shilling; a      *)
(* chunk costs 5 KES, so that the caps are reached after a few.            *)
(***************************************************************************)
EXTENDS Site

SmallParams == [price |-> 50, fee |-> 10, band |-> 1 .. 500, mintCap |-> 1500, receipt |-> 2,
                onlineCap |-> 20, offlineCap |-> 5, epoch |-> 24, voucher |-> 24]

SmallWealth == [amina |-> 2000, baraka |-> 500]

SmallForms == [
    setup |-> {[price |-> 50, fee |-> 10], [price |-> 100, fee |-> 5]},
    topup |-> {[who |-> "amina", amount |-> 100, fail |-> FALSE], [who |-> "amina", amount |-> 20, fail |-> TRUE]},
    fill |-> {[who |-> "amina", amount |-> 50]},
    browse |-> {[who |-> "amina", target |-> 3, offline |-> FALSE], [who |-> "amina", target |-> 8, offline |-> FALSE],
                [who |-> "amina", target |-> 3, offline |-> TRUE]},
    settle |-> {<<>>},
    nodeout |-> {[mode |-> "claim"], [mode |-> "both"]},
    fee |-> {[by |-> "mallory"]},
    send |-> {[who |-> "amina", amount |-> 10, from |-> "wallet"], [who |-> "amina", amount |-> 10, from |-> "meter"]},
    unlock |-> {[who |-> "amina", amount |-> 10, old |-> FALSE], [who |-> "amina", amount |-> 10, old |-> TRUE]},
    cashout |-> {[who |-> "amina", amount |-> 20, fail |-> TRUE], [who |-> "amina", amount |-> 10, fail |-> FALSE]},
    whatif |-> {}]

SmallDefaults == [
    setup |-> [price |-> 50, fee |-> 10], topup |-> [who |-> "amina", amount |-> 100, fail |-> FALSE],
    fill |-> [who |-> "amina", amount |-> 50], browse |-> [who |-> "amina", target |-> 3, offline |-> FALSE],
    settle |-> <<>>, nodeout |-> [mode |-> "both"], fee |-> [by |-> "mallory"],
    send |-> [who |-> "amina", amount |-> 10, from |-> "wallet"],
    unlock |-> [who |-> "amina", amount |-> 10, old |-> FALSE],
    cashout |-> [who |-> "amina", amount |-> 20, fail |-> FALSE], whatif |-> <<>>]

\* Calls of the console, by their default callers: those whose effect no button
\* and no drill has by itself.
AnyCall == [fn |-> "claim", caller |-> "kiosk", owner |-> "amina", to |-> "amina",
            spender |-> "kiosk", contract |-> "escrow", allowed |-> TRUE, amount |-> 1]

SomeCalls == {
    [AnyCall EXCEPT !.fn = "setBridge", !.caller = "owner", !.amount = 50, !.to = "kiosk"],
    [AnyCall EXCEPT !.fn = "bridgeMint", !.amount = 10],
    [AnyCall EXCEPT !.fn = "bridgeBurn"],
    [AnyCall EXCEPT !.fn = "approve", !.caller = "amina", !.amount = 10, !.spender = "escrow"],
    [AnyCall EXCEPT !.fn = "transferFrom", !.to = "baraka"],
    [AnyCall EXCEPT !.fn = "permit", !.amount = 5],
    [AnyCall EXCEPT !.fn = "deposit", !.caller = "amina"],
    [AnyCall EXCEPT !.fn = "setPricePerUnit", !.caller = "owner", !.amount = 100],
    [AnyCall EXCEPT !.fn = "setFeeBps", !.caller = "owner", !.amount = 3],
    [AnyCall EXCEPT !.fn = "queueBeneficiary", !.caller = "owner", !.to = "mallory"],
    [AnyCall EXCEPT !.fn = "activateBeneficiary", !.caller = "mallory"],
    [AnyCall EXCEPT !.fn = "transferOwnership", !.caller = "owner", !.to = "founder"],
    [AnyCall EXCEPT !.fn = "acceptOwnership", !.caller = "founder"],
    [AnyCall EXCEPT !.fn = "signTicket", !.caller = "amina"],
    [AnyCall EXCEPT !.fn = "issueVoucher", !.amount = 20],
    [AnyCall EXCEPT !.fn = "stkPush", !.caller = "amina", !.amount = 10],
    [AnyCall EXCEPT !.fn = "b2cPayout", !.amount = 10],
    [AnyCall EXCEPT !.fn = "fundGas"],
    [AnyCall EXCEPT !.fn = "warp", !.amount = 25],
    [AnyCall EXCEPT !.fn = "loseDevice", !.caller = "amina"]}

\* Play all from the beginning, and over an open browse step.
BeforeAndAtBrowse == {1, 4}

ThreeScenes == <<2, 1, 3>>
BothModes == {"hold", "auto"}
=============================================================================
