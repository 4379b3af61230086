------------------------------ MODULE MCTradeDm ------------------------------
(* Small instances of TradeDm: the DMs of one sell order and of one buy order. *)
EXTENDS TradeDm

CONSTANTS o1, o2

MCOrders == {o1}
MCTwoOrders == {o1, o2}
MCOrderKind == [o \in {o1} |-> "sell"]
MCTwoOrderKinds == [o \in {o1, o2} |-> IF o = o1 THEN "sell" ELSE "buy"]

\* A DM without an order snapshot, and one with.
Dm(at, o, action) ==
    [at |-> at, order |-> o, action |-> action, snapshot |-> FALSE,
     status |-> NoStatus, parties |-> FALSE, tells |-> {}]

Snap(at, o, action, s, parties) ==
    [Dm(at, o, action) EXCEPT !.snapshot = TRUE, !.status = s, !.parties = parties]

Tell(at, o, action, fact) == [Dm(at, o, action) EXCEPT !.tells = {fact}]

\* A trade that goes through a dispute and ends: every kind of write.
DisputedTrade(o) ==
    {Dm(1, o, "waiting-seller-to-pay"),
     Snap(2, o, "hold-invoice-payment-accepted", "active", TRUE),
     Dm(3, o, "fiat-sent-ok"),
     Tell(4, o, "dispute-initiated-by-peer", "dispute_id"),
     Tell(5, o, "admin-took-dispute", "solver"),
     Dm(6, o, "purchase-completed")}

\* A payout that fails once: settled, completed, and settled again on retry.
RetriedPayout(o) ==
    {Snap(1, o, "buyer-took-order", "active", TRUE),
     Dm(2, o, "hold-invoice-payment-settled"),
     Dm(3, o, "purchase-completed"),
     [Dm(4, o, "add-invoice") EXCEPT !.status = "settled-hold-invoice"],
     Dm(5, o, "cant-do")}

MCSellDms == DisputedTrade(o1)
MCTwoOrderDms ==
    (RetriedPayout(o1) \ {Dm(5, o1, "cant-do")})
    \cup {Dm(1, o2, "waiting-seller-to-pay"),
          Snap(2, o2, "buyer-took-order", NoStatus, TRUE),
          Dm(3, o2, "canceled")}
=============================================================================
