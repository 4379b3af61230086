------------------------------ MODULE MCDmRouter ------------------------------
(* A trade that is taken and goes on, with DMs of the daemon's own that look   *)
(* like replies to the calls.                                                 *)
EXTENDS DmRouter

CONSTANTS o1, c1, c2, c3

MCOrders == {o1}
MCCalls == {c1, c2, c3}
MCOrderOf == [c \in MCCalls |-> o1]

\* Taken, invoiced, disputed.
MCOp ==
    [c \in MCCalls |-> CASE c = c1 -> "take" [] c = c2 -> "invoice" [] OTHER -> "dispute"]

Tells(o, action) == [order |-> o, action |-> action, rid |-> NoCall]

MCUpdates == {Tells(o1, "waiting-seller-to-pay"), Tells(o1, "dispute-initiated-by-peer")}
=============================================================================
