------------------------------- MODULE DmRouter -------------------------------
(***************************************************************************)
(* Requests to the daemon and the router that finds their replies among the *)
(* DMs of a trade key.                                                      *)
(*                                                                         *)
(* A call registers two waiters for its key (one before it publishes, whose *)
(* promise nobody reads, one in its loop), publishes, and looks at each DM  *)
(* of the key until one has an action it expects or is a cant-do.  A DM     *)
(* resolves every waiter of its key and is then routed to its order, if the *)
(* router tracks it.  createOrder, takeOrder, submitInvoice and rateUser    *)
(* compare the request id of the reply; cancelOrder, sendTradeAction and    *)
(* openDispute do not.                                                     *)
(*                                                                         *)
(* pool.publish returns one promise per relay in an array, and awaiting an  *)
(* array waits for none of them: a request that no relay takes goes         *)
(* unnoticed, and the loop's waiter is there before any reply.  Each order  *)
(* has a trade key of its own and stands for it here.                       *)
(***************************************************************************)
EXTENDS Naturals

CONSTANTS
    Orders,             \* order ids
    Calls,              \* calls of the client's methods, each made once
    Op,                 \* which method each call is of
    OrderOf,            \* the order it is about
    Updates,            \* DMs the daemon sends of its own accord
    MaxRestarts,        \* bound on restarts
    NoCall,             \* request_id of a DM that answers nobody
    NoDm                \* no answer

\* createOrder, takeOrder; submitInvoice, rateUser; cancelOrder,
\* sendTradeAction, openDispute.
Opens == {"create", "take"}
Checked == Opens \cup {"invoice", "rate"}
Ops == Checked \cup {"cancel", "complete", "dispute"}

\* The actions each roundtrip waits for besides cant-do.
Expected(op) ==
    CASE op = "create"   -> {"new-order", "pay-bond-invoice"}
      [] op = "take"     -> {"take-sell", "take-buy", "pay-invoice", "pay-bond-invoice",
                             "add-invoice"}
      [] op = "invoice"  -> {"waiting-seller-to-pay", "hold-invoice-payment-accepted"}
      [] op = "rate"     -> {"rate-received"}
      [] op = "cancel"   -> {"cooperative-cancel-initiated-by-you",
                             "cooperative-cancel-accepted", "canceled"}
      [] op = "complete" -> {"fiat-sent-ok", "hold-invoice-payment-settled"}
      [] op = "dispute"  -> {"dispute-initiated-by-you", "dispute-initiated-by-peer"}
      [] OTHER           -> {}

\* The ones its method then accepts as the answer.
Answers(op) == Expected(op) \ {"take-sell", "take-buy"}

\* The actions a DM may have; "other" is any that no call waits for, also one the
\* protocol does not know, which the reader lets through.
Actions == (UNION {Expected(op) : op \in Ops}) \cup {"cant-do", "other"}

DmType == [order : Orders, action : Actions, rid : Calls \cup {NoCall}]

ASSUME DmRouterAssumption ==
    /\ Op \in [Calls -> Ops]
    /\ OrderOf \in [Calls -> Orders]
    /\ \A c, d \in Calls :
          Op[c] \in Opens /\ Op[d] \in Opens /\ OrderOf[c] = OrderOf[d] => c = d
    /\ Updates \subseteq DmType
    /\ \A m \in Updates : m.rid = NoCall
    /\ MaxRestarts \in Nat
    /\ NoCall \notin Calls
    /\ NoDm \notin DmType

VARIABLES
    pc,          \* how far each call is
    answer,      \* the DM that ended it
    waiters,     \* the waiters of each call the router still holds
    subscribed,  \* orders whose key has a subscription
    tracked,     \* orders the router routes and the client holds the key of
    seen,        \* DMs delivered in this session
    handled,     \* DMs given to onOrderMessage in this session
    heard,       \* DMs delivered while a call was waiting
    requests,    \* calls whose request a relay took
    decided,     \* requests the daemon has answered
    accepted,    \* requests it has accepted
    sent,        \* DMs it has sent
    restarts

client == <<pc, answer, waiters, subscribed, tracked, seen, handled, heard>>
daemon == <<requests, decided, accepted, sent>>
vars == <<client, daemon, restarts>>

Pcs == {"idle", "waiting", "returned", "threw", "timed-out", "lost"}

TypeOK ==
    /\ pc \in [Calls -> Pcs]
    /\ answer \in [Calls -> DmType \cup {NoDm}]
    /\ waiters \in [Calls -> SUBSET {"first", "loop"}]
    /\ subscribed \subseteq Orders
    /\ tracked \subseteq subscribed
    /\ sent \subseteq DmType
    /\ handled \subseteq seen /\ seen \subseteq sent
    /\ heard \in [Calls -> SUBSET DmType]
    /\ accepted \subseteq decided /\ decided \subseteq requests /\ requests \subseteq Calls
    /\ restarts \in 0..MaxRestarts

-----------------------------------------------------------------------------
(* What a call makes of a DM.                                               *)

\* The condition that ends the loop of roundtrip.
Matches(c, m) == m.action \in Expected(Op[c]) \cup {"cant-do"}

\* A method that takes any reply for its own.
SucceedsForAnyRequest(c, m) ==
    \/ Op[c] \in {"cancel", "complete"}
    \/ Op[c] = "dispute" /\ m.action # "cant-do"
    \/ Op[c] \in Checked /\ m.action \in Answers(Op[c])

\* A method that takes any reply to its request for a success.
SucceedsOnRefusal(c, m) ==
    \/ Op[c] \in {"cancel", "complete", "dispute"}
    \/ Op[c] \in Checked /\ m.rid = c

\* Does the method return, rather than throw, on the reply roundtrip gave it?
Succeeds(c, m) ==
    \/ Op[c] \in {"cancel", "complete"}
    \/ Op[c] = "dispute" /\ m.action # "cant-do"
    \/ Op[c] \in Checked /\ m.rid = c /\ m.action \in Answers(Op[c])

\* The calls whose loop gets a DM.
Listening(m) == {c \in Calls : OrderOf[c] = m.order /\ "loop" \in waiters[c] /\ pc[c] = "waiting"}

\* A loop that awaits its first waiter again instead of a fresh one.
WaitersThatAreNotRenewed(m) ==
    [c \in Calls |-> IF OrderOf[c] = m.order THEN {} ELSE waiters[c]]

\* A DM resolves every waiter of its key; a call it does not end registers one
\* again.
WaitersAfter(m) ==
    [c \in Calls |-> IF OrderOf[c] # m.order THEN waiters[c]
                     ELSE IF c \in Listening(m) /\ ~Matches(c, m) THEN {"loop"} ELSE {}]

\* A DM that was a reply is not routed.
RoutedUnlessReply(m) ==
    m.order \in tracked /\ \A c \in Calls : OrderOf[c] = m.order => waiters[c] = {}

\* routeTracked: a DM is routed whether or not it resolved a waiter.
Routed(m) == m.order \in tracked

-----------------------------------------------------------------------------

Init ==
    /\ pc = [c \in Calls |-> "idle"]
    /\ answer = [c \in Calls |-> NoDm]
    /\ waiters = [c \in Calls |-> {}]
    /\ subscribed = {}
    /\ tracked = {}
    /\ seen = {}
    /\ handled = {}
    /\ heard = [c \in Calls |-> {}]
    /\ requests = {}
    /\ decided = {}
    /\ accepted = {}
    /\ sent = {}
    /\ restarts = 0

\* A method is called and waits.  All but the opening ones need a trade key.
Call(c) ==
    /\ pc[c] = "idle"
    /\ Op[c] \notin Opens => OrderOf[c] \in tracked
    /\ pc' = [pc EXCEPT ![c] = "waiting"]
    /\ waiters' = [waiters EXCEPT ![c] = {"first", "loop"}]
    /\ subscribed' = subscribed \cup {OrderOf[c]}
    /\ \E taken \in BOOLEAN : requests' = IF taken THEN requests \cup {c} ELSE requests
    /\ UNCHANGED <<answer, tracked, seen, handled, heard, decided, accepted, sent, restarts>>

\* The relay delivers a DM of a subscribed key: handleEvent, then the calls
\* whose waiters it resolved.  A call that opens an order tracks it.
Deliver(m) ==
    /\ m \in sent \ seen
    /\ m.order \in subscribed
    /\ seen' = seen \cup {m}
    /\ handled' = IF Routed(m) THEN handled \cup {m} ELSE handled
    /\ waiters' = WaitersAfter(m)
    /\ LET ended == {c \in Listening(m) : Matches(c, m)}
       IN  /\ pc' = [c \in Calls |-> IF c \notin ended THEN pc[c]
                                     ELSE IF Succeeds(c, m) THEN "returned" ELSE "threw"]
           /\ answer' = [c \in Calls |-> IF c \in ended THEN m ELSE answer[c]]
           /\ tracked' = tracked \cup {OrderOf[c] : c \in {d \in ended : Op[d] \in Opens
                                                                          /\ Succeeds(d, m)}}
    /\ heard' = [c \in Calls |-> IF pc[c] = "waiting" /\ OrderOf[c] = m.order
                                 THEN heard[c] \cup {m} ELSE heard[c]]
    /\ UNCHANGED <<subscribed, daemon, restarts>>

\* FETCH_EVENTS_TIMEOUT_MS pass without a DM; the waiter stays with the router.
Timeout(c) ==
    /\ pc[c] = "waiting"
    /\ pc' = [pc EXCEPT ![c] = "timed-out"]
    /\ UNCHANGED <<answer, waiters, subscribed, tracked, seen, handled, heard, daemon, restarts>>

\* A start() that remembers the trades and leaves their keys unsubscribed.
RestartWithoutSubscribing ==
    /\ restarts < MaxRestarts
    /\ restarts' = restarts + 1
    /\ pc' = [c \in Calls |-> IF pc[c] = "waiting" THEN "lost" ELSE pc[c]]
    /\ waiters' = [c \in Calls |-> {}]
    /\ seen' = {}
    /\ handled' = {}
    /\ \E kept \in SUBSET tracked : tracked' = kept
    /\ subscribed' = {}
    /\ UNCHANGED <<answer, heard, daemon>>

\* The process ends and start() makes a new router, which tracks the orders
\* whose rows are saved and not over (TradeDm says which); the relay delivers
\* everything again.
Restart ==
    /\ restarts < MaxRestarts
    /\ restarts' = restarts + 1
    /\ pc' = [c \in Calls |-> IF pc[c] = "waiting" THEN "lost" ELSE pc[c]]
    /\ waiters' = [c \in Calls |-> {}]
    /\ seen' = {}
    /\ handled' = {}
    /\ \E kept \in SUBSET tracked : tracked' = kept /\ subscribed' = kept
    /\ UNCHANGED <<answer, heard, daemon>>

-----------------------------------------------------------------------------
(* The daemon.                                                              *)

Opened == {OrderOf[c] : c \in {d \in accepted : Op[d] \in Opens}}

\* It answers each request once, with its request id.
Decide(c) ==
    /\ c \in requests \ decided
    /\ decided' = decided \cup {c}
    /\ \/ /\ accepted' = accepted \cup {c}
          /\ \E a \in Answers(Op[c]) :
                sent' = sent \cup {[order |-> OrderOf[c], action |-> a, rid |-> c]}
       \/ /\ accepted' = accepted
          /\ sent' = sent \cup {[order |-> OrderOf[c], action |-> "cant-do", rid |-> c]}
    /\ UNCHANGED <<client, requests, restarts>>

\* And tells the parties of an order what the other has done.
Update(m) ==
    /\ m \in Updates \ sent
    /\ m.order \in Opened
    /\ sent' = sent \cup {m}
    /\ UNCHANGED <<client, requests, decided, accepted, restarts>>

Next ==
    \/ \E c \in Calls : Call(c) \/ Timeout(c) \/ Decide(c)
    \/ \E m \in sent : Deliver(m)
    \/ \E m \in Updates : Update(m)
    \/ Restart

Spec == Init /\ [][Next]_vars

-----------------------------------------------------------------------------
(* Properties.                                                              *)

\* A call that compares request ids never returns on the reply to another
\* call or on a DM that answers nobody, although DMs of the same action reach
\* its key.
ReturnsOnOwnAnswer ==
    \A c \in Calls : pc[c] = "returned" /\ Op[c] \in Checked => answer[c].rid = c

\* The client tracks an order, and will save and show it, only when the daemon
\* has opened it: a refusal or a stray DM on the fresh key opens nothing.
TrackedWasOpened == tracked \subseteq Opened

\* A call times out only if nothing it waits for was delivered while it
\* waited: the DM that overtakes a reply does not cost the reply its waiter
\* (client.ts:982-984).
TimedOutUnanswered ==
    \A c \in Calls : pc[c] = "timed-out" => ~\E m \in heard[c] : Matches(c, m)

\* Every DM that came for a tracked order was given to its handler, replies
\* included, but for those that came while the order was being opened.
DmsReachTheirOrder ==
    \A m \in seen :
        /\ m.order \in tracked
        /\ m \notin handled
        => \E c \in Calls : Op[c] \in Opens /\ m \in heard[c]
=============================================================================
