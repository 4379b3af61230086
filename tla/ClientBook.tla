------------------------------ MODULE ClientBook ------------------------------
(***************************************************************************)
(* The life of a client - start() and stop() - and the order book it keeps   *)
(* polling.                                                                 *)
(*                                                                         *)
(* start() makes a router and a poller after it has waited for the relays    *)
(* and the store, and says that the client is started when its first refresh *)
(* has ended: a second start(), or a stop(), in between goes unnoticed.  A   *)
(* poller starts a query every 30 seconds, longer than the pool lets one     *)
(* take, so its own refreshes do not overlap.                               *)
(***************************************************************************)
EXTENDS OrderBook, FiniteSets

CONSTANTS
    Revisions,   \* the events the daemon publishes of each order, oldest first
    Noise,       \* events of others a relay may return
    Relays,
    Starts,      \* calls of start()
    MaxStops,    \* bound on calls of stop()
    NoPoller     \* no timer

ASSUME ClientBookAssumption ==
    /\ Revisions \in [Orders -> Seq(EventType)]
    /\ \A o \in Orders : \A i \in DOMAIN Revisions[o] :
          /\ Revisions[o][i].order = o /\ Revisions[o][i].author = Mostro
          /\ Revisions[o][i].kind /\ Revisions[o][i].at > 0
          /\ \A j \in DOMAIN Revisions[o] :
                i < j => Revisions[o][i].at < Revisions[o][j].at
    /\ Noise \subseteq EventType
    /\ \A e \in Noise : e.author # Mostro

ASSUME BoundsAssumption ==
    /\ IsFiniteSet(Orders) /\ IsFiniteSet(Relays) /\ IsFiniteSet(Noise)
    /\ NoPoller \notin Starts
    /\ MaxStops \in Nat

VARIABLES
    calls,       \* how far each start() is
    started,     \* MostroClient.started
    timer,       \* orderBookTimer: the poller a stop() would end
    pollers,     \* the intervals that are running
    routers,     \* the routers whose subscriptions are open
    holds,       \* how many revisions of each order have reached each relay
    query,       \* the refresh of each poller that is under way
    book,        \* the listed orders, with the time of the event shown
    overlapped,  \* has a start() met another start() or a stop()?
    stops

lifecycle == <<calls, started, timer, pollers, routers, overlapped, stops>>
vars == <<lifecycle, holds, query, book>>

Idle == [going |-> FALSE, full |-> FALSE, result |-> <<>>]

Listings(o) == {Revisions[o][i].at : i \in {j \in DOMAIN Revisions[o] :
                                              OrderFromTags(Revisions[o][j]).status = "pending"}}

InProgress == {c \in Starts : calls[c] \notin {"idle", "done"}}

\* Every listed order was published as pending, by the daemon itself.
TypeOK ==
    /\ calls \in [Starts -> {"idle", "info", "load", "book", "done"}]
    /\ started \in BOOLEAN /\ overlapped \in BOOLEAN
    /\ timer \in Starts \cup {NoPoller}
    /\ pollers \subseteq Starts /\ routers \subseteq Starts
    /\ \A r \in Relays, o \in Orders : holds[r][o] \in 0..Len(Revisions[o])
    /\ DOMAIN book \subseteq Orders
    /\ \A o \in DOMAIN book : book[o] \in Listings(o)
    /\ stops \in 0..MaxStops

Init ==
    /\ calls = [c \in Starts |-> "idle"]
    /\ started = FALSE
    /\ timer = NoPoller /\ pollers = {} /\ routers = {}
    /\ holds = [r \in Relays |-> [o \in Orders |-> 0]]
    /\ query = [c \in Starts |-> Idle]
    /\ book = <<>>
    /\ overlapped = FALSE /\ stops = 0
-----------------------------------------------------------------------------
(* start() and stop().                                                      *)

Start(c) ==
    /\ calls[c] = "idle"
    /\ calls' = [calls EXCEPT ![c] = IF started THEN "done" ELSE "info"]
    /\ overlapped' = (overlapped \/ (~started /\ InProgress # {}))
    /\ UNCHANGED <<started, timer, pollers, routers, stops, holds, query, book>>

\* pool.get has ended; the router subscribes as the active orders are tracked.
MakeRouter(c) ==
    /\ calls[c] = "info"
    /\ calls' = [calls EXCEPT ![c] = "load"]
    /\ routers' = routers \cup {c}
    /\ UNCHANGED <<started, timer, pollers, overlapped, stops, holds, query, book>>

\* What a query that starts now returns: the events of the relays that answer.
Answer(A) ==
    Noise \cup
        UNION {{Revisions[o][holds[r][o]] : r \in {s \in A : holds[s][o] > 0}} : o \in Orders}

BeginQuery(c) ==
    \E A \in SUBSET Relays : \E events \in SetToSeqs(Answer(A)) :
        query' = [query EXCEPT ![c] = [going  |-> TRUE,
                                       full   |-> A = Relays,
                                       result |-> FetchPublicOrderBook(events)]]

\* The poller is set, and a first refresh begins.
StartPoller(c) ==
    /\ calls[c] = "load"
    /\ calls' = [calls EXCEPT ![c] = "book"]
    /\ timer' = c /\ pollers' = pollers \cup {c}
    /\ BeginQuery(c)
    /\ UNCHANGED <<started, routers, overlapped, stops, holds, book>>

\* The interval of a poller has passed.
Tick(c) ==
    /\ c \in pollers /\ calls[c] = "done"
    /\ ~query[c].going
    /\ BeginQuery(c)
    /\ UNCHANGED <<lifecycle, holds, book>>

\* A refresh that never clears the mark that it is under way.
EndRefreshStillGoing(c) ==
    /\ query[c].going
    /\ book' = query[c].result
    /\ IF calls[c] = "book"
       THEN /\ started' = TRUE
            /\ calls' = [calls EXCEPT ![c] = "done"]
       ELSE UNCHANGED <<started, calls>>
    /\ UNCHANGED <<timer, pollers, routers, overlapped, stops, holds, query>>

\* refreshOrderBook shows what its query returned, which is nothing when it
\* failed, whether or not the client has been stopped since.  The first one of
\* a start() marks it started.
EndRefresh(c) ==
    /\ query[c].going
    /\ query' = [query EXCEPT ![c] = Idle]
    /\ book' = query[c].result
    /\ IF calls[c] = "book"
       THEN /\ started' = TRUE
            /\ calls' = [calls EXCEPT ![c] = "done"]
       ELSE UNCHANGED <<started, calls>>
    /\ UNCHANGED <<timer, pollers, routers, overlapped, stops, holds>>

\* A stop() that leaves the interval to find out for itself.
StopWithoutClearing ==
    /\ stops < MaxStops
    /\ stops' = stops + 1
    /\ started' = FALSE /\ timer' = NoPoller
    /\ routers' = {}
    /\ overlapped' = (overlapped \/ InProgress # {})
    /\ UNCHANGED <<calls, pollers, holds, query, book>>

Stop ==
    /\ stops < MaxStops
    /\ stops' = stops + 1
    /\ started' = FALSE /\ timer' = NoPoller
    /\ pollers' = pollers \ {timer}
    /\ routers' = {}
    /\ overlapped' = (overlapped \/ InProgress # {})
    /\ UNCHANGED <<calls, holds, query, book>>
-----------------------------------------------------------------------------

\* A newer revision reaches a relay.
Spread(r, o) ==
    /\ \E n \in (holds[r][o] + 1)..Len(Revisions[o]) : holds' = [holds EXCEPT ![r][o] = n]
    /\ UNCHANGED <<lifecycle, query, book>>

Next ==
    \/ \E c \in Starts : \/ Start(c) \/ MakeRouter(c) \/ StartPoller(c)
                         \/ Tick(c) \/ EndRefresh(c)
    \/ Stop
    \/ \E r \in Relays, o \in Orders : Spread(r, o)

Spec == Init /\ [][Next]_vars

\* Awaits and intervals end.  What a query returns is not under any fairness.
Fairness ==
    \A c \in Starts : /\ WF_vars(MakeRouter(c)) /\ WF_vars(StartPoller(c))
                      /\ WF_vars(Tick(c)) /\ WF_vars(EndRefresh(c))

FairSpec == Spec /\ Fairness
-----------------------------------------------------------------------------
(* Properties.                                                              *)

\* A client whose start() and stop() have not met has, when it is started, the
\* one poller that stop() would end and one router, and none when it is
\* stopped.
OnePoller ==
    ~overlapped /\ InProgress = {} =>
        /\ pollers = IF started THEN {timer} ELSE {}
        /\ Cardinality(routers) = (IF started THEN 1 ELSE 0)

\* In such a client a refresh of the running poller that all relays have
\* answered never shows an order as it was before what the book shows, whatever
\* the order of the events: the newest event wins (orderbook.ts:148) and the
\* refresh that began last ends last.  (One that a stop() overtook may still
\* show what it asked before.)
BookAdvances ==
    [][\A c \in pollers :
          /\ query[c].going /\ ~query'[c].going /\ query[c].full
          /\ ~overlapped
          => \A o \in DOMAIN book \cap DOMAIN book' : book[o] =< book'[o]]_vars

\* An order that is taken, on every relay, leaves the book as long as a poller
\* runs, however many run and however their refreshes overlap.
TakenOrderLeavesBook ==
    \A o \in Orders :
        (/\ pollers # {}
         /\ \A r \in Relays : holds[r][o] = Len(Revisions[o])
         /\ Revisions[o][Len(Revisions[o])].status \in KnownStatus \ {"pending"})
        ~> (o \notin DOMAIN book \/ pollers = {})
=============================================================================
