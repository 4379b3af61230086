------------------------------- MODULE OrderBook -------------------------------
(***************************************************************************)
(* The public order book as a function of the events relays return.         *)
(*                                                                         *)
(* The daemon publishes an order as an addressable event and again whenever  *)
(* it changes; a relay keeps one revision of it, perhaps an old one, and a   *)
(* query returns what several relays have in any order, with whatever else   *)
(* a relay that does not honour the author filter sends.                     *)
(***************************************************************************)
EXTENDS Naturals, Sequences, SequencesExt

CONSTANTS
    Orders,      \* order ids
    Currencies,  \* the currencies the client asks for; {} for all
    Mostro       \* the author of genuine events

\* An order event, as the tags the book reads: d, k, s and f.
EventType ==
    [order : Orders, author : STRING, at : Nat, kind : BOOLEAN, status : STRING, fiat : STRING]

NoEntry == [at |-> 0, status |-> "null", fiat |-> ""]

\* The statuses statusFromString knows that the book tells apart.
KnownStatus == {"pending", "in-progress", "canceled"}

\* orderFromTags: a status the client does not know reads as pending, a missing
\* one stays null.
OrderFromTags(e) ==
    [at     |-> e.at,
     status |-> IF e.status \in KnownStatus \cup {"null"} THEN e.status ELSE "pending",
     fiat   |-> e.fiat]

\* A book that believes the relays' author filter.
FetchFromAnyone(events) == events

\* fetchMostroOrderEvents checks the author again; what it keeps stays in its place.
FetchMostroOrderEvents(events) ==
    [i \in {j \in DOMAIN events : events[j].author = Mostro} |-> events[i]]

\* The places of the events of an order that have a kind.
Revised(events, o) == {i \in DOMAIN events : events[i].order = o /\ events[i].kind}

\* The entry of the event at the one place of a set, if there is one.
EntryAt(events, places) ==
    IF places = {} THEN NoEntry ELSE OrderFromTags(events[CHOOSE i \in places : TRUE])

\* An aggregation that takes the last event of each order.
AggregateLastSeen(events) ==
    [o \in Orders |-> EntryAt(events, {i \in Revised(events, o) :
                                         \A j \in Revised(events, o) : j =< i})]

\* aggregateLatestOrdersById: the newest event of each order that has a kind;
\* of two of the same second, the first.
AggregateLatestOrdersById(events) ==
    [o \in Orders |-> EntryAt(events, {i \in Revised(events, o) :
        \A j \in Revised(events, o) \ {i} : \/ events[j].at < events[i].at
                                            \/ events[j].at = events[i].at /\ i < j})]

\* pendingOrdersForBook.
PendingOrdersForBook(latest) ==
    {o \in Orders : /\ latest[o].status = "pending"
                    /\ Currencies = {} \/ latest[o].fiat \in Currencies}

\* fetchPublicOrderBook: the listed orders, each with the time of its event.
FetchPublicOrderBook(events) ==
    LET latest == AggregateLatestOrdersById(FetchMostroOrderEvents(events))
    IN  [o \in PendingOrdersForBook(latest) |-> latest[o].at]
=============================================================================
