----------------------------- MODULE MCClientBook -----------------------------
(* One order that is listed, edited and taken, and an event of somebody else's. *)
EXTENDS ClientBook

CONSTANTS o1, r1, r2, s1, s2

MCOrders == {o1}
MCRelays == {r1, r2}
MCStarts == {s1, s2}
MCCurrencies == {"USD"}

Event(at, s, author) ==
    [order |-> o1, author |-> author, at |-> at, kind |-> TRUE, status |-> s, fiat |-> "USD"]

MCRevisions ==
    [o \in MCOrders |-> <<Event(1, "pending", "mostro"), Event(2, "something-new", "mostro"),
                          Event(3, "in-progress", "mostro")>>]
MCNoise == {Event(9, "pending", "another")}
=============================================================================
