--------------------------- MODULE ClientBookProofs ---------------------------
(***************************************************************************)
(* One poller, and a book that does not go back, for any number of starts,  *)
(* stops, relays, orders and revisions.                                     *)
(*                                                                         *)
(* The argument: a start() that meets no other owns the client until it is  *)
(* done, so there is one poller; a query returns revisions that relays had  *)
(* when it began, one that all relays answered the newest of them; and what *)
(* the other queries and the book show was at the relays before.            *)
(***************************************************************************)
EXTENDS ClientBook, FiniteSetTheorems, TLAPS

-----------------------------------------------------------------------------
(* The life of the client.                                                  *)

\* What a start() that is under way has set up so far.
SetUpSoFar(c) ==
    /\ calls[c] \in {"info", "load"} => pollers = {}
    /\ calls[c] = "info" => routers = {}
    /\ calls[c] \in {"load", "book"} => routers = {c}
    /\ calls[c] = "book" => pollers = {c} /\ timer = c

\* In a client whose start() and stop() have not met, one start() at a time is
\* under way, and the routers and pollers are its own or the started client's.
LifeInv ==
    ~overlapped =>
        /\ InProgress = {} =>
              /\ pollers = IF started THEN {timer} ELSE {}
              /\ routers = IF started THEN {timer} ELSE {}
        /\ InProgress # {} =>
              ~started /\ \E c \in Starts : InProgress = {c} /\ SetUpSoFar(c)

\* The types without the book.
LifeType ==
    /\ calls \in [Starts -> {"idle", "info", "load", "book", "done"}]
    /\ started \in BOOLEAN /\ overlapped \in BOOLEAN
    /\ timer \in Starts \cup {NoPoller}
    /\ pollers \subseteq Starts /\ routers \subseteq Starts
    /\ stops \in 0..MaxStops

LEMMA LifeInit == Init => LifeType /\ LifeInv
<1> SUFFICES ASSUME Init PROVE LifeType /\ LifeInv
  OBVIOUS
<1>1. LifeType
  <2>1. MaxStops \in Nat
    BY BoundsAssumption
  <2>2. stops \in 0..MaxStops
    BY <2>1 DEF Init
  <2>. QED  BY <2>2 DEF Init, LifeType
<1>2. InProgress = {}
  BY DEF Init, InProgress
<1>3. LifeInv
  BY <1>2 DEF Init, LifeInv
<1>. QED  BY <1>1, <1>3

LEMMA LifeNext ==
    ASSUME LifeType, LifeInv, [Next]_vars
    PROVE  LifeType' /\ LifeInv'
<1> USE DEF LifeType
<1>1. ASSUME NEW c \in Starts, Start(c) PROVE LifeType' /\ LifeInv'
  <2>1. LifeType'
    BY <1>1 DEF Start
  <2>2. CASE started
    <3>1. InProgress' = InProgress
      BY <1>1, <2>2 DEF Start, InProgress
    <3>2. overlapped' = overlapped
      BY <1>1, <2>2 DEF Start
    <3>3. ~overlapped => InProgress = {}
      BY <2>2 DEF LifeInv
    <3>. QED  BY <1>1, <2>1, <3>1, <3>2, <3>3 DEF LifeInv, Start
  <2>3. CASE ~started /\ ~overlapped'
    <3>1. InProgress = {} /\ ~overlapped
      BY <1>1, <2>3 DEF Start
    <3>2. InProgress' = {c} /\ calls'[c] = "info"
      BY <1>1, <2>3, <3>1 DEF Start, InProgress
    <3>3. pollers' = {} /\ routers' = {} /\ ~started'
      BY <1>1, <2>3, <3>1 DEF Start, LifeInv
    <3>4. SetUpSoFar(c)'
      BY <3>2, <3>3 DEF SetUpSoFar
    <3>. QED  BY <2>1, <3>2, <3>3, <3>4 DEF LifeInv
  <2>. QED  BY <2>1, <2>2, <2>3 DEF LifeInv
<1>2. ASSUME NEW c \in Starts, MakeRouter(c) PROVE LifeType' /\ LifeInv'
  <2>1. LifeType'
    BY <1>2 DEF MakeRouter
  <2>2. c \in InProgress
    BY <1>2 DEF MakeRouter, InProgress
  <2>3. InProgress' = InProgress /\ calls'[c] = "load"
    BY <1>2 DEF MakeRouter, InProgress
  <2>4. ASSUME ~overlapped PROVE InProgress = {c} /\ SetUpSoFar(c) /\ ~started
    BY <2>2, <2>4 DEF LifeInv
  <2>5. ASSUME ~overlapped PROVE SetUpSoFar(c)'
    BY <1>2, <2>3, <2>4, <2>5 DEF SetUpSoFar, MakeRouter
  <2>. QED  BY <1>2, <2>1, <2>3, <2>4, <2>5 DEF LifeInv, MakeRouter
<1>3. ASSUME NEW c \in Starts, StartPoller(c) PROVE LifeType' /\ LifeInv'
  <2>1. LifeType'
    BY <1>3 DEF StartPoller
  <2>2. c \in InProgress
    BY <1>3 DEF StartPoller, InProgress
  <2>3. InProgress' = InProgress /\ calls'[c] = "book"
    BY <1>3 DEF StartPoller, InProgress
  <2>4. ASSUME ~overlapped PROVE InProgress = {c} /\ SetUpSoFar(c) /\ ~started
    BY <2>2, <2>4 DEF LifeInv
  <2>5. ASSUME ~overlapped PROVE SetUpSoFar(c)'
    BY <1>3, <2>3, <2>4, <2>5 DEF SetUpSoFar, StartPoller
  <2>. QED  BY <1>3, <2>1, <2>3, <2>4, <2>5 DEF LifeInv, StartPoller
<1>4. ASSUME NEW c \in Starts, EndRefresh(c) PROVE LifeType' /\ LifeInv'
  <2>1. LifeType'
    BY <1>4 DEF EndRefresh
  <2>2. CASE calls[c] # "book"
    <3>1. UNCHANGED lifecycle
      BY <1>4, <2>2 DEF EndRefresh, lifecycle
    <3>. QED  BY <2>1, <3>1 DEF LifeInv, lifecycle, InProgress, SetUpSoFar
  <2>3. CASE calls[c] = "book" /\ ~overlapped
    <3>1. InProgress = {c} /\ SetUpSoFar(c)
      BY <2>3 DEF LifeInv, InProgress
    <3>2. InProgress' = {} /\ started' = TRUE
      BY <1>4, <2>3, <3>1 DEF EndRefresh, InProgress
    <3>3. pollers' = {timer'} /\ routers' = {timer'}
      BY <1>4, <2>3, <3>1 DEF EndRefresh, SetUpSoFar
    <3>. QED  BY <2>1, <3>2, <3>3 DEF LifeInv
  <2>4. overlapped' = overlapped
    BY <1>4 DEF EndRefresh
  <2>. QED  BY <2>1, <2>2, <2>3, <2>4 DEF LifeInv
<1>5. CASE Stop
  <2>1. LifeType'
    <3>1. MaxStops \in Nat
      BY BoundsAssumption
    <3>2. stops' \in 0..MaxStops
      BY <1>5, <3>1 DEF Stop
    <3>. QED  BY <1>5, <3>2 DEF Stop
  <2>2. InProgress' = InProgress
    BY <1>5 DEF Stop, InProgress
  <2>3. ASSUME ~overlapped' PROVE InProgress = {} /\ pollers' = {} /\ routers' = {} /\ ~started'
    BY <1>5, <2>3 DEF Stop, LifeInv
  <2>. QED  BY <2>1, <2>2, <2>3 DEF LifeInv
<1>6. CASE UNCHANGED lifecycle
  BY <1>6 DEF LifeInv, lifecycle, InProgress, SetUpSoFar
<1>7. ASSUME NEW c \in Starts, Tick(c) PROVE UNCHANGED lifecycle
  BY <1>7 DEF Tick
<1>8. ASSUME NEW r \in Relays, NEW o \in Orders, Spread(r, o) PROVE UNCHANGED lifecycle
  BY <1>8 DEF Spread
<1>9. UNCHANGED vars => UNCHANGED lifecycle
  BY DEF vars
<1>. QED  BY <1>1, <1>2, <1>3, <1>4, <1>5, <1>6, <1>7, <1>8, <1>9 DEF Next

LEMMA OnePollerInv == LifeType /\ LifeInv => OnePoller
<1> SUFFICES ASSUME LifeType, LifeInv, ~overlapped, InProgress = {}
             PROVE  /\ pollers = IF started THEN {timer} ELSE {}
                    /\ Cardinality(routers) = (IF started THEN 1 ELSE 0)
  BY DEF OnePoller
<1>1. Cardinality({}) = 0 /\ Cardinality({timer}) = 1
  BY FS_EmptySet, FS_Singleton
<1>. QED  BY <1>1 DEF LifeInv, LifeType

\* A client whose start() and stop() have not met has the one poller that stop()
\* would end and one router when it is started, and none when it is stopped.
THEOREM OnePollerHolds == Spec => []OnePoller
<1>1. LifeType /\ LifeInv /\ [Next]_vars => (LifeType /\ LifeInv)'
  BY LifeNext
<1>. QED  BY <1>1, LifeInit, OnePollerInv, PTL DEF Spec

-----------------------------------------------------------------------------
(* What a query returns.                                                    *)

HoldsType == holds \in [Relays -> [Orders -> Nat]] /\ \A r \in Relays, o \in Orders : holds[r][o] =< Len(Revisions[o])

\* The time of the revision of an order that a relay has.
TimeAt(r, o) == Revisions[o][holds[r][o]].at

\* The revisions of an order.
LEMMA RevisionsAre ==
    ASSUME NEW o \in Orders
    PROVE  /\ Len(Revisions[o]) \in Nat /\ DOMAIN Revisions[o] = 1..Len(Revisions[o])
           /\ \A i \in DOMAIN Revisions[o] :
                 /\ Revisions[o][i].order = o /\ Revisions[o][i].author = Mostro
                 /\ Revisions[o][i].kind /\ Revisions[o][i].at \in Nat
                 /\ \A j \in DOMAIN Revisions[o] :
                       i < j => Revisions[o][i].at < Revisions[o][j].at
<1>1. Revisions[o] \in Seq(EventType)
  BY ClientBookAssumption
<1>2. Len(Revisions[o]) \in Nat /\ DOMAIN Revisions[o] = 1..Len(Revisions[o])
  BY <1>1
<1>3. \A i \in DOMAIN Revisions[o] : Revisions[o][i] \in EventType
  BY <1>1
<1>4. \A i \in DOMAIN Revisions[o] : Revisions[o][i].at \in Nat
  BY <1>3 DEF EventType
<1>5. \A i \in DOMAIN Revisions[o] :
         /\ Revisions[o][i].order = o /\ Revisions[o][i].author = Mostro
         /\ Revisions[o][i].kind
         /\ \A j \in DOMAIN Revisions[o] : i < j => Revisions[o][i].at < Revisions[o][j].at
  BY ClientBookAssumption
<1>. QED  BY <1>2, <1>4, <1>5

\* What a relay has of an order is a revision of it.
LEMMA HeldIsRevision ==
    ASSUME HoldsType, NEW r \in Relays, NEW o \in Orders, holds[r][o] > 0
    PROVE  holds[r][o] \in DOMAIN Revisions[o] /\ TimeAt(r, o) \in Nat
BY RevisionsAre DEF HoldsType, TimeAt

\* The answer of the relays.
LEMMA AnswerIs ==
    ASSUME NEW A \in SUBSET Relays, NEW e
    PROVE  e \in Answer(A) <=>
              \/ e \in Noise
              \/ \E o \in Orders, r \in A : holds[r][o] > 0 /\ e = Revisions[o][holds[r][o]]
<1> DEFINE of(o) == {Revisions[o][holds[r][o]] : r \in {s \in A : holds[s][o] > 0}}
           all == {of(o) : o \in Orders}
<1>1. \A o : e \in of(o) <=> \E r \in A : holds[r][o] > 0 /\ e = Revisions[o][holds[r][o]]
  OBVIOUS
<1>2. (e \in Answer(A)) = (e \in UNION all \/ e \in Noise)
  BY DEF Answer
<1> HIDE DEF of
<1>3. e \in UNION all <=> \E o \in Orders : e \in of(o)
  OBVIOUS
<1> HIDE DEF all
<1>. QED  BY <1>1, <1>2, <1>3

\* The answer of the relays is a finite set.
LEMMA AnswerIsFinite ==
    ASSUME NEW A \in SUBSET Relays
    PROVE  IsFiniteSet(Answer(A))
<1> DEFINE pairs == Relays \X Orders
           f == [p \in pairs |-> Revisions[p[2]][holds[p[1]][p[2]]]]
           values == {f[p] : p \in pairs}
<1>1. IsFiniteSet(Orders) /\ IsFiniteSet(Relays) /\ IsFiniteSet(Noise)
  BY BoundsAssumption
<1>2. IsFiniteSet(pairs)
  BY <1>1, FS_Product
<1>3. Answer(A) \subseteq values \cup Noise
  <2> SUFFICES ASSUME NEW o \in Orders, NEW r \in A PROVE Revisions[o][holds[r][o]] \in values
    BY AnswerIs
  <2>1. <<r, o>> \in pairs /\ f[<<r, o>>] = Revisions[o][holds[r][o]]
    OBVIOUS
  <2>. QED  BY <2>1
<1> HIDE DEF f, pairs
<1>4. f \in Surjection(pairs, values)
  BY DEF Surjection, f
<1> HIDE DEF values
<1>5. IsFiniteSet(values)
  BY <1>2, <1>4, FS_Surjection
<1>6. IsFiniteSet(values \cup Noise)
  BY <1>1, <1>5, FS_Union
<1>. QED  BY <1>3, <1>6, FS_Subset

\* Every event of the answer is in the list once.
LEMMA ListedOnce ==
    ASSUME NEW A \in SUBSET Relays, NEW events \in SetToSeqs(Answer(A))
    PROVE  /\ \A i \in DOMAIN events : events[i] \in Answer(A)
           /\ \A e \in Answer(A) : \E i \in DOMAIN events : events[i] = e
           /\ DOMAIN events \subseteq Nat
           /\ \A i, j \in DOMAIN events : events[i] = events[j] => i = j
<1> DEFINE n == Cardinality(Answer(A))
<1>1. IsFiniteSet(Answer(A)) /\ n \in Nat
  BY AnswerIsFinite, FS_CardinalityType
<1>2. events \in [1..n -> Answer(A)] /\ \A i, j \in 1..n : i # j => events[i] # events[j]
  BY DEF SetToSeqs
<1>3. events \in Injection(1..n, Answer(A))
  BY <1>2 DEF Injection, IsInjective
<1>4. Cardinality(1..n) = n
  <2>1. Cardinality(1..n) = IF 1 > n THEN 0 ELSE n - 1 + 1
    BY <1>1, FS_Interval
  <2>. QED  BY <1>1, <2>1
<1>5. events \in Surjection(1..n, Answer(A))
  BY <1>1, <1>3, <1>4, FS_Injection
<1>6. \A e \in Answer(A) : \E i \in 1..n : events[i] = e
  BY <1>5 DEF Surjection
<1>. QED  BY <1>1, <1>2, <1>6

\* The book of a query that the relays in A answered: of every order it lists a
\* revision that one of them had, and none of them had a newer one.
LEMMA QueryShows ==
    ASSUME HoldsType, NEW A \in SUBSET Relays, NEW events \in SetToSeqs(Answer(A)),
           NEW o \in DOMAIN FetchPublicOrderBook(events)
    PROVE  LET shown == FetchPublicOrderBook(events)[o]
           IN /\ o \in Orders /\ shown \in Listings(o)
              /\ \E r \in A : holds[r][o] > 0 /\ shown = TimeAt(r, o)
              /\ \A r \in A : holds[r][o] > 0 => TimeAt(r, o) =< shown
<1> DEFINE kept     == FetchMostroOrderEvents(events)
           revised  == Revised(kept, o)
           precedes(j, i) == \/ kept[j].at < kept[i].at
                             \/ kept[j].at = kept[i].at /\ i < j
           newest   == {i \in revised : \A j \in revised \ {i} : precedes(j, i)}
           first    == CHOOSE i \in newest : TRUE
           latest   == AggregateLatestOrdersById(kept)
<1>1. o \in Orders /\ latest[o].status = "pending" /\ FetchPublicOrderBook(events)[o] = latest[o].at
  BY DEF FetchPublicOrderBook, PendingOrdersForBook
<1>2. latest[o] = IF newest = {} THEN NoEntry ELSE OrderFromTags(kept[first])
  BY <1>1 DEF AggregateLatestOrdersById, EntryAt
<1> HIDE DEF latest, first, newest, revised
<1>3. newest # {} /\ latest[o] = OrderFromTags(kept[first])
  <2>1. NoEntry.status # "pending"
    BY DEF NoEntry
  <2>. QED  BY <1>1, <1>2, <2>1
<1>4. \A i \in revised : /\ i \in DOMAIN events /\ kept[i] = events[i]
                         /\ events[i].author = Mostro /\ events[i].order = o
  BY DEF FetchMostroOrderEvents, Revised, revised
<1>5. \A i \in revised : \E r \in A : holds[r][o] > 0 /\ kept[i] = Revisions[o][holds[r][o]]
  <2> SUFFICES ASSUME NEW i \in revised
               PROVE  \E r \in A : holds[r][o] > 0 /\ events[i] = Revisions[o][holds[r][o]]
    BY <1>4
  <2>1. events[i] \in Answer(A) /\ events[i] \notin Noise
    BY <1>4, ListedOnce, ClientBookAssumption
  <2>2. PICK p \in Orders, r \in A : holds[r][p] > 0 /\ events[i] = Revisions[p][holds[r][p]]
    BY <2>1, AnswerIs
  <2>3. p = o
    BY <1>4, <2>2, HeldIsRevision, RevisionsAre
  <2>. QED  BY <2>2, <2>3
<1>6. ASSUME NEW r \in A, holds[r][o] > 0
      PROVE  \E i \in revised : kept[i] = Revisions[o][holds[r][o]]
  <2>1. Revisions[o][holds[r][o]] \in Answer(A)
    BY <1>1, <1>6, AnswerIs
  <2>2. PICK i \in DOMAIN events : events[i] = Revisions[o][holds[r][o]]
    BY <2>1, ListedOnce
  <2>3. events[i].author = Mostro /\ events[i].order = o /\ events[i].kind
    BY <1>1, <1>6, <2>2, HeldIsRevision, RevisionsAre
  <2>4. i \in revised /\ kept[i] = events[i]
    BY <2>3 DEF FetchMostroOrderEvents, Revised, revised
  <2>. QED  BY <2>2, <2>4
<1>7. first \in revised /\ \A j \in revised \ {first} : precedes(j, first)
  BY <1>3 DEF first, newest
<1>8. PICK r \in A : holds[r][o] > 0 /\ kept[first] = Revisions[o][holds[r][o]]
  BY <1>5, <1>7
<1>9. holds[r][o] \in DOMAIN Revisions[o]
  BY <1>1, <1>8, HeldIsRevision
<1>10. FetchPublicOrderBook(events)[o] = TimeAt(r, o)
  BY <1>1, <1>3, <1>8 DEF OrderFromTags, TimeAt
<1>11. TimeAt(r, o) \in Listings(o)
  BY <1>1, <1>3, <1>8, <1>9 DEF Listings, TimeAt
<1>12. ASSUME NEW s \in A, holds[s][o] > 0 PROVE TimeAt(s, o) =< TimeAt(r, o)
  <2>1. PICK j \in revised : kept[j] = Revisions[o][holds[s][o]]
    BY <1>6, <1>12
  <2>2. TimeAt(s, o) \in Nat /\ TimeAt(r, o) \in Nat
    BY <1>1, <1>8, <1>12, HeldIsRevision
  <2>3. kept[j].at = TimeAt(s, o) /\ kept[first].at = TimeAt(r, o)
    BY <1>8, <2>1 DEF TimeAt
  <2>4. j = first \/ precedes(j, first)
    BY <1>7
  <2>. QED  BY <2>2, <2>3, <2>4
<1>. QED  BY <1>1, <1>8, <1>10, <1>11, <1>12

-----------------------------------------------------------------------------
(* The book.                                                                *)

Books == UNION {[D -> Nat] : D \in SUBSET Orders}

BookType ==
    /\ HoldsType
    /\ book \in Books
    /\ query \in [Starts -> [going : BOOLEAN, full : BOOLEAN, result : Books]]

\* What is shown was listed, and some relay has had it.
Genuine(shown) ==
    \A o \in DOMAIN shown :
        /\ shown[o] \in Listings(o)
        /\ \E r \in Relays : holds[r][o] > 0 /\ shown[o] =< TimeAt(r, o)

AllGenuine == Genuine(book) /\ \A c \in Starts : Genuine(query[c].result)

NotBehind(shown, other) == \A o \in DOMAIN shown \cap DOMAIN other : shown[o] =< other[o]

\* A full query of the running poller is ahead of the book and of all queries.
FullIsAhead(c) ==
    query[c].going /\ query[c].full =>
        /\ NotBehind(book, query[c].result)
        /\ \A d \in Starts : query[d].going => NotBehind(query[d].result, query[c].result)

RunningIsAhead == ~overlapped => \A c \in pollers : FullIsAhead(c)

\* The inductive invariant.
BookInv == LifeType /\ LifeInv /\ BookType /\ AllGenuine /\ RunningIsAhead
BookRest == BookType /\ AllGenuine /\ RunningIsAhead

LEMMA BooksAre ==
    /\ \A b \in Books : DOMAIN b \subseteq Orders /\ \A o \in DOMAIN b : b[o] \in Nat
    /\ \A b : /\ b = [o \in DOMAIN b |-> b[o]] /\ DOMAIN b \subseteq Orders
              /\ \A o \in DOMAIN b : b[o] \in Nat
              => b \in Books
BY DEF Books

LEMMA EmptyBook == <<>> \in Books /\ DOMAIN <<>> = {}
<1>1. DOMAIN <<>> = {}
  OBVIOUS
<1>2. <<>> = [o \in {} |-> 0]
  OBVIOUS
<1>3. <<>> \in [{} -> Nat]
  BY <1>2
<1>. QED  BY <1>1, <1>3 DEF Books

\* The times of an order are naturals.
LEMMA ListingsAre == \A o \in Orders : Listings(o) \subseteq Nat
BY RevisionsAre DEF Listings

\* A query begins.
LEMMA QueryBegins ==
    ASSUME BookType, AllGenuine, NEW c \in Starts, BeginQuery(c), holds' = holds, book' = book
    PROVE  /\ BookType' /\ AllGenuine'
           /\ \A d \in Starts \ {c} : query'[d] = query[d]
           /\ FullIsAhead(c)'
<1>1. PICK A \in SUBSET Relays : \E events \in SetToSeqs(Answer(A)) :
         query' = [query EXCEPT ![c] = [going  |-> TRUE, full |-> A = Relays,
                                        result |-> FetchPublicOrderBook(events)]]
  BY DEF BeginQuery
<1>2. PICK events \in SetToSeqs(Answer(A)) :
         query' = [query EXCEPT ![c] = [going  |-> TRUE, full |-> A = Relays,
                                        result |-> FetchPublicOrderBook(events)]]
  BY <1>1
<1> DEFINE result == FetchPublicOrderBook(events)
<1>3. \A o \in DOMAIN result :
         /\ o \in Orders /\ result[o] \in Listings(o)
         /\ \E r \in A : holds[r][o] > 0 /\ result[o] = TimeAt(r, o)
         /\ \A r \in A : holds[r][o] > 0 => TimeAt(r, o) =< result[o]
  BY QueryShows DEF BookType
<1>4. result = [o \in DOMAIN result |-> result[o]]
  BY DEF FetchPublicOrderBook
<1> HIDE DEF result
<1>5. query' = [query EXCEPT ![c] = [going  |-> TRUE, full |-> A = Relays, result |-> result]]
  BY <1>2 DEF result
<1>6. result \in Books
  BY <1>3, <1>4, ListingsAre, BooksAre
<1>7. Genuine(result)
  <2> SUFFICES ASSUME NEW o \in DOMAIN result
               PROVE  /\ result[o] \in Listings(o)
                      /\ \E r \in Relays : holds[r][o] > 0 /\ result[o] =< TimeAt(r, o)
    BY DEF Genuine
  <2>1. PICK r \in A : holds[r][o] > 0 /\ result[o] = TimeAt(r, o)
    BY <1>3
  <2>2. TimeAt(r, o) \in Nat
    BY <1>3, <2>1, HeldIsRevision DEF BookType
  <2>. QED  BY <1>3, <2>1, <2>2
<1>8. BookType'
  BY <1>5, <1>6 DEF BookType, HoldsType
<1>9. /\ query'[c] = [going  |-> TRUE, full |-> A = Relays, result |-> result]
      /\ \A d \in Starts \ {c} : query'[d] = query[d]
  BY <1>5 DEF BookType
<1>10. AllGenuine'
  <2>1. Genuine(book)'
    BY DEF AllGenuine, Genuine, TimeAt
  <2>2. Genuine(query[c].result)'
    BY <1>7, <1>9 DEF Genuine, TimeAt
  <2>3. \A d \in Starts \ {c} : Genuine(query[d].result)'
    BY <1>9 DEF AllGenuine, Genuine, TimeAt
  <2>. QED  BY <2>1, <2>2, <2>3 DEF AllGenuine
<1>11. ASSUME A = Relays, NEW shown, Genuine(shown), DOMAIN shown \subseteq Orders
       PROVE  NotBehind(shown, result)
  <2> SUFFICES ASSUME NEW o \in DOMAIN shown, o \in DOMAIN result PROVE shown[o] =< result[o]
    BY DEF NotBehind
  <2>1. PICK r \in Relays : holds[r][o] > 0 /\ shown[o] =< TimeAt(r, o)
    BY <1>11 DEF Genuine
  <2>2. TimeAt(r, o) =< result[o]
    BY <1>3, <1>11, <2>1
  <2>3. TimeAt(r, o) \in Nat /\ shown[o] \in Nat /\ result[o] \in Nat
    BY <1>3, <1>11, <2>1, HeldIsRevision, ListingsAre DEF BookType, Genuine
  <2>. QED  BY <2>1, <2>2, <2>3
<1>12. FullIsAhead(c)'
  <2> SUFFICES ASSUME A = Relays
               PROVE  /\ NotBehind(book, result)
                      /\ \A d \in Starts : NotBehind(query'[d].result, result)
    <3>1. query'[c].full = (A = Relays) /\ query'[c].result = result
      BY <1>9
    <3>. QED  BY <3>1 DEF FullIsAhead, NotBehind
  <2>1. NotBehind(book, result)
    BY <1>11, BooksAre DEF AllGenuine, BookType
  <2>2. ASSUME NEW d \in Starts \ {c} PROVE NotBehind(query'[d].result, result)
    <3>1. query[d].result \in Books
      BY DEF BookType
    <3>. QED  BY <1>9, <1>11, <3>1, BooksAre DEF AllGenuine
  <2>3. NotBehind(result, result)
    BY <1>6, BooksAre DEF NotBehind
  <2>. QED  BY <1>9, <2>1, <2>2, <2>3
<1>. QED  BY <1>8, <1>9, <1>10, <1>12

LEMMA BookInit == Init => BookInv
<1> SUFFICES ASSUME Init PROVE BookInv
  OBVIOUS
<1>1. LifeType /\ LifeInv
  BY LifeInit
<1>2. <<>> \in Books /\ DOMAIN <<>> = {}
  BY EmptyBook
<1>3. HoldsType
  BY RevisionsAre DEF Init, HoldsType
<1>4. BookType
  BY <1>2, <1>3 DEF Init, BookType, Idle
<1>5. \A c \in Starts : query[c].result = <<>> /\ ~query[c].going
  BY DEF Init, Idle
<1>6. AllGenuine
  BY <1>2, <1>5 DEF Init, AllGenuine, Genuine
<1>7. RunningIsAhead
  BY DEF RunningIsAhead, Init
<1>. QED  BY <1>1, <1>4, <1>6, <1>7 DEF BookInv

LEMMA BookNext == BookInv /\ [Next]_vars => BookInv'
<1> SUFFICES ASSUME BookInv, [Next]_vars PROVE BookInv'
  OBVIOUS
<1>1. LifeType' /\ LifeInv'
  BY LifeNext DEF BookInv
<1>2. ASSUME UNCHANGED <<holds, query, book>>,
             ~overlapped' => ~overlapped /\ pollers' \subseteq pollers
      PROVE  BookRest'
  <2>1. BookType' /\ AllGenuine'
    BY <1>2 DEF BookInv, BookType, HoldsType, AllGenuine, Genuine, TimeAt
  <2>2. \A c : FullIsAhead(c) => FullIsAhead(c)'
    BY <1>2 DEF FullIsAhead, NotBehind
  <2>3. RunningIsAhead'
    BY <1>2, <2>2 DEF BookInv, RunningIsAhead
  <2>. QED  BY <2>1, <2>3 DEF BookRest
<1>3. ASSUME NEW c \in Starts, StartPoller(c) \/ Tick(c) PROVE BookRest'
  <2>1. BeginQuery(c) /\ holds' = holds /\ book' = book /\ overlapped' = overlapped
    BY <1>3 DEF StartPoller, Tick, lifecycle
  <2>2. BookType' /\ AllGenuine' /\ FullIsAhead(c)'
    BY <2>1, QueryBegins DEF BookInv
  <2>3. c \in pollers'
    BY <1>3 DEF StartPoller, Tick, lifecycle
  <2>4. ~overlapped' => pollers' = {c}
    BY <1>1, <2>3 DEF LifeInv, LifeType, SetUpSoFar, InProgress
  <2>5. RunningIsAhead'
    BY <2>2, <2>4 DEF RunningIsAhead
  <2>. QED  BY <2>2, <2>5 DEF BookRest
<1>4. ASSUME NEW c \in Starts, EndRefresh(c) PROVE BookRest'
  <2>1. /\ query[c].going /\ query' = [query EXCEPT ![c] = Idle] /\ book' = query[c].result
        /\ holds' = holds /\ pollers' = pollers /\ overlapped' = overlapped
    BY <1>4 DEF EndRefresh
  <2>2. <<>> \in Books /\ DOMAIN <<>> = {}
    BY EmptyBook
  <2>3. BookType'
    BY <2>1, <2>2 DEF BookInv, BookType, HoldsType, Idle
  <2>4. query'[c] = Idle /\ \A d \in Starts \ {c} : query'[d] = query[d]
    BY <2>1 DEF BookInv, BookType
  <2>5. AllGenuine'
    <3>1. Genuine(query[c].result)' 
      BY <2>1, <2>2, <2>4 DEF Idle, Genuine
    <3>2. Genuine(book)'
      BY <2>1 DEF BookInv, AllGenuine, Genuine, TimeAt
    <3>3. \A d \in Starts \ {c} : Genuine(query[d].result)'
      BY <2>1, <2>4 DEF BookInv, AllGenuine, Genuine, TimeAt
    <3>. QED  BY <3>1, <3>2, <3>3 DEF AllGenuine
  <2>6. ASSUME NEW d \in pollers, ~overlapped PROVE FullIsAhead(d)'
    <3>1. d \in Starts /\ FullIsAhead(d)
      BY <2>6 DEF BookInv, LifeType, RunningIsAhead
    <3>2. CASE d = c
      BY <2>4, <3>2 DEF FullIsAhead, Idle
    <3>3. CASE d # c
      BY <2>1, <2>4, <3>1, <3>3 DEF FullIsAhead, NotBehind, Idle
    <3>. QED  BY <3>2, <3>3
  <2>7. RunningIsAhead'
    BY <2>1, <2>6 DEF RunningIsAhead
  <2>. QED  BY <2>3, <2>5, <2>7 DEF BookRest
<1>5. ASSUME NEW r \in Relays, NEW o \in Orders, Spread(r, o) PROVE BookRest'
  <2>1. PICK n \in (holds[r][o] + 1)..Len(Revisions[o]) : holds' = [holds EXCEPT ![r][o] = n]
    BY <1>5 DEF Spread
  <2>2. UNCHANGED <<query, book, pollers, overlapped>>
    BY <1>5 DEF Spread, lifecycle
  <2>3. HoldsType
    BY DEF BookInv, BookType
  <2>4. n \in Nat /\ holds[r][o] \in Nat /\ holds[r][o] < n /\ n =< Len(Revisions[o])
    BY <2>1, <2>3, RevisionsAre DEF HoldsType
  <2>5. \A s \in Relays, p \in Orders :
           holds'[s][p] = IF s = r /\ p = o THEN n ELSE holds[s][p]
    BY <2>1, <2>3 DEF HoldsType
  <2>6. HoldsType'
    <3>1. holds' \in [Relays -> [Orders -> Nat]]
      BY <2>1, <2>3, <2>4 DEF HoldsType
    <3>. QED  BY <2>3, <2>4, <2>5, <3>1 DEF HoldsType
  <2>7. BookType'
    BY <2>2, <2>6 DEF BookInv, BookType
  <2>8. \A s \in Relays, p \in Orders :
           holds[s][p] > 0 => holds'[s][p] > 0 /\ TimeAt(s, p) =< TimeAt(s, p)' /\ TimeAt(s, p)' \in Nat
    <3> SUFFICES ASSUME NEW s \in Relays, NEW p \in Orders, holds[s][p] > 0
                 PROVE  /\ holds'[s][p] > 0 /\ TimeAt(s, p) =< TimeAt(s, p)' /\ TimeAt(s, p)' \in Nat
      OBVIOUS
    <3>1. holds[s][p] \in DOMAIN Revisions[p] /\ TimeAt(s, p) \in Nat
      BY <2>3, HeldIsRevision
    <3>2. CASE s = r /\ p = o
      BY <2>4, <2>5, <3>1, <3>2, RevisionsAre DEF TimeAt
    <3>3. CASE ~(s = r /\ p = o)
      BY <2>5, <3>1, <3>3 DEF TimeAt
    <3>. QED  BY <3>2, <3>3
  <2>9. ASSUME NEW shown \in Books, Genuine(shown)
        PROVE  \A p \in DOMAIN shown :
                  /\ shown[p] \in Listings(p)
                  /\ \E s \in Relays : holds'[s][p] > 0 /\ shown[p] =< TimeAt(s, p)'
    <3> SUFFICES ASSUME NEW p \in DOMAIN shown
                 PROVE  \E s \in Relays : holds'[s][p] > 0 /\ shown[p] =< TimeAt(s, p)'
      BY <2>9 DEF Genuine
    <3>1. PICK s \in Relays : holds[s][p] > 0 /\ shown[p] =< TimeAt(s, p)
      BY <2>9 DEF Genuine
    <3>2. p \in Orders /\ shown[p] \in Nat
      BY BooksAre
    <3>3. TimeAt(s, p) \in Nat
      BY <2>3, <3>1, <3>2, HeldIsRevision
    <3>. QED  BY <2>8, <3>1, <3>2, <3>3
  <2>10. AllGenuine'
    <3>1. book \in Books /\ \A c \in Starts : query[c].result \in Books
      BY DEF BookInv, BookType
    <3>2. Genuine(book)'
      BY <2>2, <2>9, <3>1 DEF BookInv, AllGenuine, Genuine
    <3>3. \A c \in Starts : Genuine(query[c].result)'
      BY <2>2, <2>9, <3>1 DEF BookInv, AllGenuine, Genuine
    <3>. QED  BY <3>2, <3>3 DEF AllGenuine
  <2>11. RunningIsAhead'
    BY <2>2 DEF BookInv, RunningIsAhead, FullIsAhead, NotBehind
  <2>. QED  BY <2>7, <2>10, <2>11 DEF BookRest
<1>6. ASSUME NEW c \in Starts, Start(c) \/ MakeRouter(c) PROVE BookRest'
  <2>1. UNCHANGED <<holds, query, book, pollers>>
    BY <1>6 DEF Start, MakeRouter
  <2>2. Start(c) => (overlapped => overlapped')
    BY DEF Start
  <2>3. MakeRouter(c) => (overlapped => overlapped')
    BY DEF MakeRouter
  <2>. QED  BY <1>2, <1>6, <2>1, <2>2, <2>3
<1>7. ASSUME Stop PROVE BookRest'
  <2>1. UNCHANGED <<holds, query, book>> /\ pollers' \subseteq pollers /\ (overlapped => overlapped')
    BY <1>7 DEF Stop
  <2>. QED  BY <1>2, <2>1
<1>8. ASSUME UNCHANGED vars PROVE BookRest'
  <2>1. UNCHANGED <<holds, query, book, pollers, overlapped>>
    BY <1>8 DEF vars, lifecycle
  <2>. QED  BY <1>2, <2>1
<1>9. BookRest'
  BY <1>3, <1>4, <1>5, <1>6, <1>7, <1>8 DEF Next
<1>. QED  BY <1>1, <1>9 DEF BookInv, BookRest

THEOREM BookInvHolds == Spec => []BookInv
BY BookInit, BookNext, PTL DEF Spec

LEMMA BookInvType == BookInv => TypeOK
BY BooksAre DEF BookInv, LifeType, BookType, HoldsType, AllGenuine, Genuine, TypeOK

\* Every listed order was published as pending, by the daemon itself, whatever
\* else the relays return.
THEOREM TypeCorrect == Spec => []TypeOK
BY BookInvHolds, BookInvType, PTL

\* A full refresh of the running poller never shows an order as it was before
\* what the book shows, whatever the order of the events.
THEOREM BookAdvancesHolds == Spec => BookAdvances
<1> DEFINE Step ==
       \A c \in pollers :
          /\ query[c].going /\ ~query'[c].going /\ query[c].full
          /\ ~overlapped
          => \A o \in DOMAIN book \cap DOMAIN book' : book[o] =< book'[o]
<1>1. BookInv /\ [Next]_vars => [Step]_vars
  <2> SUFFICES ASSUME BookInv, Next, NEW c \in pollers,
                      query[c].going, ~query'[c].going, query[c].full, ~overlapped
               PROVE  \A o \in DOMAIN book \cap DOMAIN book' : book[o] =< book'[o]
    OBVIOUS
  <2>1. c \in Starts /\ query \in [Starts -> [going : BOOLEAN, full : BOOLEAN, result : Books]]
    BY DEF BookInv, LifeType, BookType
  <2>2. book' = query[c].result
    <3>1. query' # query
      OBVIOUS
    <3>2. ASSUME NEW d \in Starts, EndRefresh(d) PROVE d = c /\ book' = query[d].result
      <4>1. query' = [query EXCEPT ![d] = Idle] /\ book' = query[d].result
        BY <3>2 DEF EndRefresh
      <4>. QED  BY <2>1, <4>1
    <3>3. ASSUME NEW d \in Starts, StartPoller(d) \/ Tick(d) PROVE FALSE
      <4>1. BeginQuery(d)
        BY <3>3 DEF StartPoller, Tick
      <4>2. PICK full, result :
               query' = [query EXCEPT ![d] = [going |-> TRUE, full |-> full, result |-> result]]
        BY <4>1 DEF BeginQuery
      <4>. QED  BY <2>1, <4>2
    <3>4. ASSUME NEW d \in Starts, Start(d) \/ MakeRouter(d) PROVE FALSE
      BY <3>1, <3>4 DEF Start, MakeRouter
    <3>5. ~Stop /\ \A r \in Relays, o \in Orders : ~Spread(r, o)
      BY <3>1 DEF Stop, Spread
    <3>. QED  BY <3>2, <3>3, <3>4, <3>5 DEF Next
  <2>3. NotBehind(book, query[c].result)
    BY <2>1 DEF BookInv, RunningIsAhead, FullIsAhead
  <2>. QED  BY <2>2, <2>3 DEF NotBehind
<1>. QED  BY <1>1, BookInvHolds, PTL DEF Spec, BookAdvances
=============================================================================
