--------------------------- MODULE MCRestoreSession ---------------------------
(* A disputed trade of this installation and an order of an earlier one, with  *)
(* a current answer and one from before the dispute.                          *)
EXTENDS RestoreSession

CONSTANTS o1, o2

MCOrders == {o1, o2}
MCOrderKind == [o \in MCOrders |-> IF o = o1 THEN "sell" ELSE "buy"]

Dm(at, o, action) ==
    [at |-> at, order |-> o, action |-> action, snapshot |-> FALSE,
     status |-> NoStatus, parties |-> FALSE, tells |-> {}]

MCDms ==
    {[Dm(1, o1, "hold-invoice-payment-accepted")
         EXCEPT !.snapshot = TRUE, !.status = "active", !.parties = TRUE],
     [Dm(2, o1, "dispute-initiated-by-peer") EXCEPT !.tells = {"dispute_id"}],
     Dm(4, o2, "fiat-sent-ok")}

Info(o, s) == [order |-> o, status |-> s]

MCAnswers ==
    {[orders |-> {Info(o1, "fiat-sent")}, disputes |-> {}],
     [orders |-> {Info(o1, "dispute"), Info(o2, "waiting-payment")},
      disputes |-> {[order |-> o1, solver |-> TRUE]}]}

MCSaved == {"new-order", "maker-bond"}
MCUnsaved == {"hold-invoice"}
=============================================================================
