---------------------------- MODULE DmRouterProofs ----------------------------
(***************************************************************************)
(* Theorems about DmRouter, for every set of orders and calls, whatever the  *)
(* daemon says of its own accord, and any number of restarts: replies go to  *)
(* the calls that asked for them, none that came in time is missed, only     *)
(* what the daemon opened is tracked, and DMs of tracked orders are routed.   *)
(***************************************************************************)
EXTENDS DmRouter, TLAPS

\* The daemon answers a request under its id, and only what it accepts by
\* anything but a refusal.
AnswersAreDecided ==
    \A m \in sent : m.rid \in Calls =>
        /\ m.order = OrderOf[m.rid]
        /\ m.action # "cant-do" => m.rid \in accepted

\* A call that waits has a waiter for the next DM of its key.
LoopAwaits == \A c \in Calls : pc[c] = "waiting" => "loop" \in waiters[c]

\* A call hears nothing before it is made, and nothing it waited for unless it
\* ends then.
HeardInVain ==
    \A c \in Calls :
        /\ pc[c] = "idle" => heard[c] = {}
        /\ pc[c] \in {"waiting", "timed-out"} => \A m \in heard[c] : ~Matches(c, m)

Opener(c, o) == Op[c] \in Opens /\ OrderOf[c] = o

\* A key is subscribed once the call that opens its order has been made, and
\* only DMs of subscribed keys arrive.
SubscribedWhenOpening ==
    /\ \A o \in subscribed : \E c \in Calls : Opener(c, o) /\ pc[c] # "idle"
    /\ \A m \in seen : m.order \in subscribed

\* While an order is being opened, every DM of it was routed or heard.
OpeningHears ==
    \A m \in seen, c \in Calls :
        Opener(c, m.order) /\ pc[c] = "waiting" => m \in handled \/ m \in heard[c]

\* The inductive invariant.
IInv ==
    /\ TypeOK
    /\ AnswersAreDecided
    /\ LoopAwaits
    /\ HeardInVain
    /\ SubscribedWhenOpening
    /\ OpeningHears
    /\ ReturnsOnOwnAnswer
    /\ TrackedWasOpened
    /\ DmsReachTheirOrder

-----------------------------------------------------------------------------
(* The operators.                                                           *)

\* What a call accepts is the name of an action, and never a refusal.
LEMMA AnswersAreActions ==
    ASSUME NEW op \in Ops
    PROVE  Answers(op) \subseteq Actions /\ "cant-do" \notin Answers(op)
<1>1. "cant-do" \notin Expected(op)
  <2>1. CASE op \in Opens
    BY <2>1 DEF Opens, Expected
  <2>2. CASE op \in Checked \ Opens
    BY <2>2 DEF Checked, Opens, Expected
  <2>3. CASE op \in Ops \ Checked
    BY <2>3 DEF Ops, Checked, Opens, Expected
  <2>. QED  BY <2>1, <2>2, <2>3
<1>. QED  BY <1>1 DEF Answers, Actions

\* An opening call succeeds on an answer of its own only.
LEMMA OpeningSucceedsOnItsAnswer ==
    ASSUME NEW c \in Calls, NEW m, Op[c] \in Opens, Succeeds(c, m)
    PROVE  m.rid = c /\ m.action # "cant-do"
  BY AnswersAreActions, DmRouterAssumption DEF Succeeds, Opens, Ops, Checked

-----------------------------------------------------------------------------

\* The initial state satisfies the inductive invariant.
LEMMA InitIInv ==
    ASSUME Init
    PROVE  IInv
  BY DmRouterAssumption
     DEF Init, IInv, TypeOK, AnswersAreDecided, LoopAwaits, HeardInVain, SubscribedWhenOpening,
         OpeningHears, ReturnsOnOwnAnswer, TrackedWasOpened, DmsReachTheirOrder, Pcs

\* A method that is called waits, and has heard nothing yet.
LEMMA CallKeepsIInv ==
    ASSUME IInv, NEW c \in Calls, Call(c)
    PROVE  IInv'
<1>1. /\ pc[c] = "idle" /\ pc' = [pc EXCEPT ![c] = "waiting"]
      /\ waiters' = [waiters EXCEPT ![c] = {"first", "loop"}]
      /\ subscribed' = subscribed \cup {OrderOf[c]}
      /\ requests \subseteq requests' /\ requests' \subseteq requests \cup {c}
      /\ UNCHANGED <<answer, tracked, seen, handled, heard, decided, accepted, sent, restarts>>
  BY DEF Call
<1>2. TypeOK
  BY DEF IInv
<1>3. TypeOK'
  BY <1>1, <1>2, DmRouterAssumption DEF TypeOK, Pcs
<1>4. AnswersAreDecided' /\ LoopAwaits' /\ ReturnsOnOwnAnswer' /\ TrackedWasOpened'
      /\ DmsReachTheirOrder'
  BY <1>1, <1>2
     DEF IInv, TypeOK, AnswersAreDecided, LoopAwaits, ReturnsOnOwnAnswer, TrackedWasOpened, Opened,
         DmsReachTheirOrder
<1>5. HeardInVain'
  BY <1>1, <1>2 DEF IInv, TypeOK, HeardInVain, Matches
<1>6. SubscribedWhenOpening'
  <2>1. \E d \in Calls : Opener(d, OrderOf[c]) /\ pc'[d] # "idle"
    <3>1. CASE Op[c] \in Opens
      BY <1>1, <1>2, <3>1 DEF Opener, TypeOK
    <3>2. CASE Op[c] \notin Opens
      <4>1. OrderOf[c] \in subscribed
        BY <1>2, <3>2 DEF Call, TypeOK
      <4>. QED  BY <1>1, <1>2, <4>1 DEF IInv, SubscribedWhenOpening, TypeOK
    <3>. QED  BY <3>1, <3>2
  <2>2. \A o \in subscribed : \E d \in Calls : Opener(d, o) /\ pc'[d] # "idle"
    BY <1>1, <1>2 DEF IInv, SubscribedWhenOpening, TypeOK
  <2>. QED  BY <1>1, <2>1, <2>2 DEF IInv, SubscribedWhenOpening, Opener
<1>7. OpeningHears'
  <2> SUFFICES ASSUME NEW m \in seen, NEW d \in Calls, Opener(d, m.order), pc'[d] = "waiting"
               PROVE  m \in handled \/ m \in heard[d]
    BY <1>1 DEF OpeningHears, Opener
  <2>1. CASE d = c
    <3>1. PICK e \in Calls : Opener(e, m.order) /\ pc[e] # "idle"
      BY DEF IInv, SubscribedWhenOpening
    <3>2. e = c
      BY <2>1, <3>1, DmRouterAssumption DEF Opener
    <3>. QED  BY <1>1, <3>1, <3>2
  <2>2. CASE d # c
    BY <1>1, <1>2, <2>2 DEF IInv, OpeningHears, TypeOK
  <2>. QED  BY <2>1, <2>2
<1>. QED  BY <1>3, <1>4, <1>5, <1>6, <1>7 DEF IInv

\* A call that times out has heard nothing it waited for.
LEMMA TimeoutKeepsIInv ==
    ASSUME IInv, NEW c \in Calls, Timeout(c)
    PROVE  IInv'
<1>1. TypeOK' /\ AnswersAreDecided' /\ LoopAwaits' /\ HeardInVain'
  BY DmRouterAssumption
     DEF IInv, Timeout, daemon, TypeOK, Pcs, AnswersAreDecided, LoopAwaits, HeardInVain, Matches
<1>2. SubscribedWhenOpening' /\ OpeningHears'
  <2>1. pc' = [pc EXCEPT ![c] = "timed-out"] /\ pc \in [Calls -> Pcs]
        /\ UNCHANGED <<subscribed, seen, handled, heard>>
    BY DEF IInv, Timeout, TypeOK
  <2>. QED  BY <2>1 DEF IInv, SubscribedWhenOpening, OpeningHears, Opener
<1>3. ReturnsOnOwnAnswer' /\ TrackedWasOpened' /\ DmsReachTheirOrder'
  BY DEF IInv, Timeout, daemon, TypeOK, ReturnsOnOwnAnswer, TrackedWasOpened, Opened,
         DmsReachTheirOrder
<1>. QED  BY <1>1, <1>2, <1>3 DEF IInv

\* A restart forgets the session, and tracks and subscribes the same orders.
LEMMA RestartKeepsIInv ==
    ASSUME IInv, Restart
    PROVE  IInv'
<1>1. /\ restarts' \in 0..MaxRestarts
      /\ pc' = [c \in Calls |-> IF pc[c] = "waiting" THEN "lost" ELSE pc[c]]
      /\ waiters' = [c \in Calls |-> {}]
      /\ seen' = {} /\ handled' = {}
      /\ tracked' \subseteq tracked /\ subscribed' = tracked'
      /\ UNCHANGED <<answer, heard, requests, decided, accepted, sent>>
  BY DmRouterAssumption DEF IInv, TypeOK, Restart, daemon
<1>2. TypeOK' /\ AnswersAreDecided' /\ LoopAwaits' /\ HeardInVain'
  BY <1>1 DEF IInv, TypeOK, Pcs, AnswersAreDecided, LoopAwaits, HeardInVain, Matches
<1>3. SubscribedWhenOpening'
  <2>1. \A o \in subscribed : \E c \in Calls : Opener(c, o) /\ pc'[c] # "idle"
    BY <1>1 DEF IInv, SubscribedWhenOpening
  <2>. QED  BY <1>1, <2>1 DEF IInv, TypeOK, SubscribedWhenOpening, Opener
<1>4. OpeningHears' /\ ReturnsOnOwnAnswer' /\ TrackedWasOpened' /\ DmsReachTheirOrder'
  BY <1>1 DEF IInv, OpeningHears, ReturnsOnOwnAnswer, TrackedWasOpened, Opened, DmsReachTheirOrder
<1>. QED  BY <1>2, <1>3, <1>4 DEF IInv

-----------------------------------------------------------------------------

\* A DM that is delivered ends the calls that wait for it, is heard by the
\* others that wait, and is routed if its order is tracked.
LEMMA DeliverKeepsIInv ==
    ASSUME IInv, NEW m \in sent, Deliver(m)
    PROVE  IInv'
<1> DEFINE ended == {c \in Listening(m) : Matches(c, m)}
<1>1. /\ m \notin seen /\ m.order \in subscribed
      /\ seen' = seen \cup {m}
      /\ handled' = IF m.order \in tracked THEN handled \cup {m} ELSE handled
      /\ waiters' = WaitersAfter(m)
      /\ pc' = [c \in Calls |-> IF c \notin ended THEN pc[c]
                                ELSE IF Succeeds(c, m) THEN "returned" ELSE "threw"]
      /\ answer' = [c \in Calls |-> IF c \in ended THEN m ELSE answer[c]]
      /\ tracked' = tracked \cup {OrderOf[c] : c \in {d \in ended : Op[d] \in Opens
                                                                     /\ Succeeds(d, m)}}
      /\ heard' = [c \in Calls |-> IF pc[c] = "waiting" /\ OrderOf[c] = m.order
                                   THEN heard[c] \cup {m} ELSE heard[c]]
      /\ UNCHANGED <<subscribed, requests, decided, accepted, sent, restarts>>
  BY DEF Deliver, Routed, daemon
<1>2. TypeOK /\ m \in DmType
  BY DEF IInv, TypeOK
<1>3. \A c \in ended : c \in Calls /\ pc[c] = "waiting" /\ OrderOf[c] = m.order
  BY DEF Listening
<1>4. \A c \in Calls : pc[c] = "waiting" /\ OrderOf[c] = m.order => c \in Listening(m)
  BY DEF Listening, IInv, LoopAwaits
<1> HIDE DEF ended
<1>5. \A c \in Calls : /\ c \in ended => pc'[c] \in {"returned", "threw"}
                       /\ c \notin ended => pc'[c] = pc[c]
  BY <1>1
<1>6. TypeOK'
  <2>1. tracked' \subseteq subscribed'
    BY <1>1, <1>2, <1>3 DEF TypeOK
  <2>2. waiters' \in [Calls -> SUBSET {"first", "loop"}]
    BY <1>1, <1>2 DEF TypeOK, WaitersAfter
  <2>3. pc' \in [Calls -> Pcs]
    BY <1>1, <1>2 DEF TypeOK, Pcs
  <2>4. /\ answer' \in [Calls -> DmType \cup {NoDm}]
        /\ heard' \in [Calls -> SUBSET DmType]
        /\ handled' \subseteq seen' /\ seen' \subseteq sent'
    BY <1>1, <1>2 DEF TypeOK
  <2>. QED  BY <1>1, <1>2, <2>1, <2>2, <2>3, <2>4 DEF TypeOK
<1>7. AnswersAreDecided'
  BY <1>1 DEF IInv, AnswersAreDecided
<1>8. LoopAwaits'
  <2> SUFFICES ASSUME NEW c \in Calls, pc'[c] = "waiting"
               PROVE  "loop" \in waiters'[c]
    BY DEF LoopAwaits
  <2>1. pc[c] = "waiting" /\ c \notin ended
    BY <1>5
  <2>2. CASE OrderOf[c] = m.order
    BY <1>1, <1>4, <2>1, <2>2 DEF WaitersAfter, ended
  <2>3. CASE OrderOf[c] # m.order
    BY <1>1, <2>1, <2>3 DEF WaitersAfter, IInv, LoopAwaits
  <2>. QED  BY <2>2, <2>3
<1>9. HeardInVain'
  <2> SUFFICES ASSUME NEW c \in Calls
               PROVE  /\ pc'[c] = "idle" => heard'[c] = {}
                      /\ pc'[c] \in {"waiting", "timed-out"} =>
                            \A n \in heard'[c] : ~Matches(c, n)
    BY DEF HeardInVain, Matches
  <2>1. CASE c \in ended
    BY <1>5, <2>1
  <2>2. CASE c \notin ended
    <3>1. pc[c] = "waiting" /\ OrderOf[c] = m.order => ~Matches(c, m)
      BY <1>4, <2>2 DEF ended
    <3>. QED  BY <1>1, <1>5, <2>2, <3>1 DEF IInv, HeardInVain
  <2>. QED  BY <2>1, <2>2
<1>10. SubscribedWhenOpening'
  <2>1. \A c \in Calls : pc[c] # "idle" => pc'[c] # "idle"
    BY <1>5
  <2>. QED  BY <1>1, <2>1 DEF IInv, SubscribedWhenOpening, Opener
<1>11. \A n \in seen', c \in Calls :
          Opener(c, n.order) /\ pc[c] = "waiting" => n \in handled' \/ n \in heard'[c]
  <2> TAKE n \in seen', c \in Calls
  <2> HAVE Opener(c, n.order) /\ pc[c] = "waiting"
  <2>1. CASE n = m
    BY <1>1, <2>1 DEF Opener
  <2>2. CASE n \in seen
    <3>1. n \in handled \/ n \in heard[c]
      BY <2>2 DEF IInv, OpeningHears
    <3>. QED  BY <1>1, <3>1
  <2>. QED  BY <1>1, <2>1, <2>2
<1>12. OpeningHears'
  <2>1. \A c \in Calls : pc'[c] = "waiting" => pc[c] = "waiting"
    BY <1>5
  <2>. QED  BY <1>11, <2>1 DEF OpeningHears, Opener
<1>13. ReturnsOnOwnAnswer'
  <2> SUFFICES ASSUME NEW c \in Calls, pc'[c] = "returned", Op[c] \in Checked
               PROVE  answer'[c].rid = c
    BY DEF ReturnsOnOwnAnswer
  <2>1. CASE c \in ended
    <3>1. Succeeds(c, m) /\ answer'[c] = m
      BY <1>1, <2>1
    <3>. QED  BY <3>1 DEF Succeeds, Checked, Opens
  <2>2. CASE c \notin ended
    BY <1>1, <1>5, <2>2 DEF IInv, ReturnsOnOwnAnswer
  <2>. QED  BY <2>1, <2>2
<1>14. TrackedWasOpened'
  <2>1. ASSUME NEW c \in ended, Op[c] \in Opens, Succeeds(c, m)
        PROVE  c \in accepted
    <3>1. c \in Calls /\ m.rid = c /\ m.action # "cant-do"
      BY <1>3, <2>1, OpeningSucceedsOnItsAnswer
    <3>. QED  BY <3>1 DEF IInv, AnswersAreDecided
  <2>. QED  BY <1>1, <2>1 DEF IInv, TrackedWasOpened, Opened
<1>15. DmsReachTheirOrder'
  <2> SUFFICES ASSUME NEW n \in seen', n.order \in tracked', n \notin handled'
               PROVE  \E c \in Calls : Op[c] \in Opens /\ n \in heard'[c]
    BY DEF DmsReachTheirOrder
  <2>1. CASE n.order \in tracked
    <3>1. n \in seen /\ n \notin handled
      BY <1>1, <2>1
    <3>2. PICK c \in Calls : Op[c] \in Opens /\ n \in heard[c]
      BY <2>1, <3>1 DEF IInv, DmsReachTheirOrder
    <3>. QED  BY <1>1, <3>2
  <2>2. CASE n.order \notin tracked
    <3>1. PICK c \in ended : Op[c] \in Opens /\ OrderOf[c] = n.order
      BY <1>1, <2>2
    <3>. QED  BY <1>3, <1>11, <3>1 DEF Opener
  <2>. QED  BY <2>1, <2>2
<1>. QED  BY <1>6, <1>7, <1>8, <1>9, <1>10, <1>12, <1>13, <1>14, <1>15 DEF IInv

-----------------------------------------------------------------------------

\* The daemon answers a request, or tells of an order, in a DM nobody has seen.
LEMMA DaemonKeepsIInv ==
    ASSUME IInv, (\E c \in Calls : Decide(c)) \/ (\E m \in Updates : Update(m))
    PROVE  IInv'
<1>1. UNCHANGED <<pc, answer, waiters, subscribed, tracked, seen, handled, heard, restarts>>
      /\ accepted \subseteq accepted' /\ sent \subseteq sent'
  BY DEF Decide, Update, client
<1>2. TypeOK' /\ AnswersAreDecided'
  <2>1. ASSUME NEW c \in Calls, Decide(c)
        PROVE  TypeOK' /\ AnswersAreDecided'
    <3>1. Op[c] \in Ops /\ OrderOf[c] \in Orders
      BY DmRouterAssumption
    <3>2. PICK a \in Actions :
             /\ sent' = sent \cup {[order |-> OrderOf[c], action |-> a, rid |-> c]}
             /\ a # "cant-do" => c \in accepted'
             /\ accepted' \subseteq accepted \cup {c}
      <4>1. "cant-do" \in Actions /\ Answers(Op[c]) \subseteq Actions
        BY <3>1, AnswersAreActions DEF Actions
      <4>2. CASE \E a \in Answers(Op[c]) :
                   sent' = sent \cup {[order |-> OrderOf[c], action |-> a, rid |-> c]}
        BY <2>1, <4>1, <4>2 DEF Decide
      <4>3. CASE sent' = sent \cup {[order |-> OrderOf[c], action |-> "cant-do", rid |-> c]}
        BY <2>1, <4>1, <4>3 DEF Decide
      <4>. QED  BY <2>1, <4>2, <4>3 DEF Decide
    <3>3. [order |-> OrderOf[c], action |-> a, rid |-> c] \in DmType
      BY <3>1 DEF DmType
    <3>4. decided' = decided \cup {c} /\ c \in requests /\ requests' = requests
      BY <2>1 DEF Decide
    <3>5. TypeOK'
      BY <1>1, <3>2, <3>3, <3>4 DEF IInv, TypeOK
    <3>6. AnswersAreDecided'
      BY <1>1, <3>2 DEF IInv, AnswersAreDecided
    <3>. QED  BY <3>5, <3>6
  <2>2. ASSUME NEW m \in Updates, Update(m)
        PROVE  TypeOK' /\ AnswersAreDecided'
    BY <1>1, <2>2, DmRouterAssumption DEF Update, IInv, TypeOK, AnswersAreDecided
  <2>. QED  BY <2>1, <2>2
<1>3. LoopAwaits' /\ HeardInVain' /\ SubscribedWhenOpening' /\ OpeningHears'
  BY <1>1 DEF IInv, LoopAwaits, HeardInVain, Matches, SubscribedWhenOpening, OpeningHears, Opener
<1>4. ReturnsOnOwnAnswer' /\ TrackedWasOpened' /\ DmsReachTheirOrder'
  BY <1>1 DEF IInv, ReturnsOnOwnAnswer, TrackedWasOpened, Opened, DmsReachTheirOrder
<1>. QED  BY <1>2, <1>3, <1>4 DEF IInv

\* Every step keeps the inductive invariant.
LEMMA NextKeepsIInv ==
    ASSUME IInv, [Next]_vars
    PROVE  IInv'
<1>1. CASE UNCHANGED vars
  BY <1>1
     DEF vars, client, daemon, IInv, TypeOK, AnswersAreDecided, LoopAwaits, HeardInVain, Matches,
         SubscribedWhenOpening, OpeningHears, Opener, ReturnsOnOwnAnswer, TrackedWasOpened, Opened,
         DmsReachTheirOrder
<1>. QED
  BY <1>1, CallKeepsIInv, TimeoutKeepsIInv, DeliverKeepsIInv, RestartKeepsIInv, DaemonKeepsIInv
     DEF Next

-----------------------------------------------------------------------------

\* The inductive invariant holds in every reachable state.
THEOREM IInvHolds == Spec => []IInv
<1>1. Init => IInv
  BY InitIInv
<1>2. IInv /\ [Next]_vars => IInv'
  BY NextKeepsIInv
<1>. QED  BY <1>1, <1>2, PTL DEF Spec

\* The state always has its type.
THEOREM TypeCorrect == Spec => []TypeOK
<1>1. IInv => TypeOK
  BY DEF IInv
<1>. QED  BY <1>1, IInvHolds, PTL

\* Calls that compare request ids return on their own answers only, whatever
\* other calls and the daemon put on their key.
THEOREM ReturnsOnOwnAnswerHolds == Spec => []ReturnsOnOwnAnswer
<1>1. IInv => ReturnsOnOwnAnswer
  BY DEF IInv
<1>. QED  BY <1>1, IInvHolds, PTL

\* What the client tracks the daemon has opened.
THEOREM TrackedWasOpenedHolds == Spec => []TrackedWasOpened
<1>1. IInv => TrackedWasOpened
  BY DEF IInv
<1>. QED  BY <1>1, IInvHolds, PTL

\* No call times out on a reply that was delivered while it waited.
THEOREM TimedOutUnansweredHolds == Spec => []TimedOutUnanswered
<1>1. IInv => TimedOutUnanswered
  BY DEF IInv, HeardInVain, TimedOutUnanswered
<1>. QED  BY <1>1, IInvHolds, PTL

\* The DMs of tracked orders are routed, but for those of their opening.
THEOREM DmsReachTheirOrderHolds == Spec => []DmsReachTheirOrder
<1>1. IInv => DmsReachTheirOrder
  BY DEF IInv
<1>. QED  BY <1>1, IInvHolds, PTL
=============================================================================
