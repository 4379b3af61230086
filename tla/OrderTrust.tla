----------------------------- MODULE OrderTrust -----------------------------
(***************************************************************************)
(* Who stands behind an order of the book (extension/tg): the token a maker *)
(* signs into the payment methods (token.ts, api.ts), the claims published  *)
(* in social indexes (social.ts, join.ts, viewer.ts), and the order that is *)
(* honoured when several carry one token (firstSeen.ts).                    *)
(*                                                                          *)
(* Kind, currency, premium and daemon are the same for all orders here; an  *)
(* order's amounts are one fixed amount or the two ends of a range.         *)
(***************************************************************************)
EXTENDS Integers, Sequences, FiniteSets

CONSTANTS
    Makers,     \* identities
    Nobody,     \* no identity, no token, no order, no verdict, an amount that is null
    MaxOrders, MaxSightings     \* bounds on the orders, and on what is noted or judged

Amounts38383 == {<<10>>, <<5, 20>>}

\* A segment of the payment methods is a method or a token.
Method == [method |-> "cash", token |-> Nobody]

\* What is signed, and the token.
Variants == {"v1", "v1r"}
Challenges == [tag : Variants, amounts : Amounts38383, base : Seq({Method}), nonce : Nat]
Tokens == [variant : Variants, nonce : Nat, by : Makers, over : Challenges]

ASSUME OrderTrustAssumption ==
    /\ Nobody \notin Makers /\ Nobody \notin Nat /\ Nobody \notin Tokens
    /\ MaxOrders \in Nat /\ MaxSightings \in Nat

VARIABLES
    book,       \* the order events, in the order they were placed
    claims,     \* the identities claimed for each order, in the order the claims came
    birth,      \* the earliest observation of each order
    first,      \* the order each token belongs to, and since when
    sightings,  \* what was observed: the order and whether it was judged
    judged      \* the last order judged, and the verdict

trustVars == <<book, claims, birth, first, sightings, judged>>

Unborn == MaxSightings + 1
Placed == DOMAIN book

-----------------------------------------------------------------------------
(* Tokens.                                                                  *)
IsTgToken(segment) == segment.token # Nobody
TokensOf(pm) == {i \in DOMAIN pm : IsTgToken(pm[i])}

\* The methods without the tokens: the n-th is the n-th segment that is no token.
NthOf(positions, n) == CHOOSE i \in positions : Cardinality({j \in positions : j <= i}) = n
CanonicalBase(pm) ==
    LET methods == DOMAIN pm \ TokensOf(pm)
    IN [n \in 1..Cardinality(methods) |-> pm[NthOf(methods, n)]]

VariantOf38383(fa) == IF Len(fa) >= 2 THEN "v1r" ELSE "v1"
Challenge(fa, base, nonce) == [tag |-> VariantOf38383(fa), amounts |-> fa, base |-> base, nonce |-> nonce]

BuildPmToken(identity, fa, base, nonce) ==
    [variant |-> VariantOf38383(fa), nonce |-> nonce, by |-> identity, over |-> Challenge(fa, base, nonce)]

TgSegment(identity, fa, base, nonce) ==
    [method |-> "", token |-> BuildPmToken(identity, fa, base, nonce)]

\* buildOrderBinding: an older token in the methods is dropped.
BuildOrderBinding(identity, fa, pm, nonce) ==
    Append(CanonicalBase(pm), TgSegment(identity, fa, CanonicalBase(pm), nonce))

VerifyPmToken(fa, base, token, identity) ==
    /\ token.variant = VariantOf38383(fa)
    /\ token.by = identity /\ token.over = Challenge(fa, base, token.nonce)

\* From the tags of the event.
VerifyOrderBinding(order, identity) ==
    \E i \in TokensOf(order.pm) :
        /\ TokensOf(order.pm) = {i}
        /\ VerifyPmToken(order.fa, CanonicalBase(order.pm), order.pm[i].token, identity)

\* From the order that orderFromTags makes of the event.
SmallOrderOf(order) ==
    LET range == Len(order.fa) >= 2
    IN [min_amount |-> IF range THEN order.fa[1] ELSE Nobody,
        max_amount |-> IF range THEN order.fa[2] ELSE Nobody,
        fiat_amount |-> IF range THEN 0 ELSE order.fa[1], payment_method |-> order.pm]

VerifyOrderBindingFromOrder(small, identity) ==
    \E i \in TokensOf(small.payment_method) :
        /\ TokensOf(small.payment_method) = {i}
        /\ VerifyPmToken(IF small.min_amount # Nobody /\ small.max_amount # Nobody
                         THEN <<small.min_amount, small.max_amount>> ELSE <<small.fiat_amount>>,
                         CanonicalBase(small.payment_method),
                         small.payment_method[i].token, identity)

-----------------------------------------------------------------------------
(* Claims.                                                                  *)
AddClaim(list, identity) ==
    IF \E i \in DOMAIN list : list[i] = identity THEN list ELSE Append(list, identity)

\* annotateOne: the first claim whose identity signed the token.
SignedAmong(order, list) ==
    {i \in DOMAIN list : VerifyOrderBindingFromOrder(SmallOrderOf(order), list[i])}

\* Only the first claim is looked at.
AnnotatesByFirstClaim(o) ==
    IF 1 \in SignedAmong(book[o], claims[o]) THEN claims[o][1] ELSE Nobody

Annotate(o) ==
    LET signed == SignedAmong(book[o], claims[o])
    IN IF signed = {} THEN Nobody
       ELSE claims[o][CHOOSE i \in signed : \A j \in signed : i <= j]

-----------------------------------------------------------------------------
(* First seen.  The n-th observation happens at local time n.               *)
Earlier(m, n) == IF m < n THEN m ELSE n
Now == Len(sightings) + 1
TokenOf(o) == book[o].pm[CHOOSE i \in TokensOf(book[o].pm) : TRUE].token
FirstOf(token) == IF token \in DOMAIN first THEN first[token] ELSE [order |-> 0, ts |-> Unborn]
Honour(token, o, ts) ==
    first' = [t \in DOMAIN first \cup {token} |-> IF t = token THEN [order |-> o, ts |-> ts] ELSE first[t]]

\* A claim that is never given up to an earlier order.
FirstJudgedWins(o, token, ts) ==
    IF FirstOf(token).order \notin {0, o} THEN judged' = [order |-> o, verdict |-> "invalid"] /\ UNCHANGED first
    ELSE judged' = [order |-> o, verdict |-> "valid"] /\ Honour(token, o, ts)

Check(o, token, ts) ==
    CASE FirstOf(token).order = o ->
            judged' = [order |-> o, verdict |-> "valid"] /\ UNCHANGED first
      [] FirstOf(token).order # o /\ ts > FirstOf(token).ts ->
            judged' = [order |-> o, verdict |-> "invalid"] /\ UNCHANGED first
      [] OTHER ->
            judged' = [order |-> o, verdict |-> "valid"] /\ Honour(token, o, ts)

-----------------------------------------------------------------------------
TrustInit ==
    /\ book = <<>> /\ claims = <<>> /\ birth = <<>> /\ first = <<>> /\ sightings = <<>>
    /\ judged = Nobody

\* The daemon publishes an order; signer is the identity that signed these very terms.
Publish(fa, pm, signer) ==
    /\ Len(book) < MaxOrders
    /\ book' = Append(book, [fa |-> fa, pm |-> pm, signer |-> signer])
    /\ claims' = Append(claims, <<>>)
    /\ birth' = Append(birth, Unborn)
    /\ UNCHANGED <<first, sightings, judged>>

\* The methods are new ones, or those of an older order with what was in them.
Place(m) ==
    \E fa \in Amounts38383, pm \in {<<Method>>} \cup {book[o].pm : o \in Placed} :
        Publish(fa, BuildOrderBinding(m, fa, pm, Len(book) + 1), m)

PlaceWithoutToken == Publish(<<10>>, <<Method>>, Nobody)

\* The identity that has signed these methods for these amounts.
SignerOf(fa, pm) ==
    LET same == {o \in Placed : book[o].fa = fa /\ book[o].pm = pm}
    IN IF same = {} THEN Nobody ELSE book[CHOOSE o \in same : TRUE].signer

\* The methods of an order used again as they are, for the same amounts or others.
PlaceCopy(o) ==
    \E fa \in Amounts38383 : Publish(fa, book[o].pm, SignerOf(fa, book[o].pm))

PlaceWithTwoTokens(m, o) ==
    /\ TokensOf(book[o].pm) # {}
    /\ Publish(book[o].fa, Append(book[o].pm, TgSegment(m, book[o].fa, <<Method>>, Len(book) + 1)),
               Nobody)

\* A revision of m's social index reaches the viewer, on refresh or live; it
\* lists orders of m and, as claims are hints, any others.
AddSocialIndex(m, orders) ==
    /\ claims' = [o \in Placed |-> IF o \in orders THEN AddClaim(claims[o], m) ELSE claims[o]]
    /\ claims' # claims
    /\ UNCHANGED <<book, birth, first, sightings, judged>>

\* A live order event.
NoteOrder(o) ==
    /\ Len(sightings) < MaxSightings
    /\ birth' = [birth EXCEPT ![o] = Earlier(@, Now)]
    /\ sightings' = Append(sightings, [order |-> o, judged |-> FALSE])
    /\ UNCHANGED <<book, claims, first, judged>>

\* An order whose maker is known is judged, by its birth or else by now.
ObserveOrder(o) ==
    /\ Len(sightings) < MaxSightings /\ Annotate(o) # Nobody
    /\ LET ts == Earlier(birth[o], Now)
       IN birth' = [birth EXCEPT ![o] = ts] /\ Check(o, TokenOf(o), ts)
    /\ sightings' = Append(sightings, [order |-> o, judged |-> TRUE])
    /\ UNCHANGED <<book, claims>>

TrustNext ==
    \/ PlaceWithoutToken
    \/ \E m \in Makers : Place(m) \/ \E o \in Placed : PlaceWithTwoTokens(m, o)
    \/ \E o \in Placed : PlaceCopy(o) \/ NoteOrder(o) \/ ObserveOrder(o)
    \/ \E m \in Makers, orders \in SUBSET Placed : AddSocialIndex(m, orders)

-----------------------------------------------------------------------------
\* An order is attributed to the identity that signed its terms as soon as that
\* identity claims it, whoever else claims it and in whatever order the claims
\* came, and to nobody otherwise; the event and the order read from it agree.
\* join.ts:27 "Claims are HINTS: `annotateOrders` still verifies each candidate
\* against the order's pm binding token."
AnnotationMatchesSigner ==
    \A o \in Placed :
        /\ Annotate(o) = IF \E i \in DOMAIN claims[o] : claims[o][i] = book[o].signer
                         THEN book[o].signer ELSE Nobody
        /\ \A m \in Makers : VerifyOrderBinding(book[o], m)
                             <=> VerifyOrderBindingFromOrder(SmallOrderOf(book[o]), m)

\* Of the orders with one token, in whatever order they are judged, an order is
\* refused only if another was observed before it, and it is refused if that
\* one was judged before: firstSeen.ts:4 "The order that saw the pair first
\* wins; the later one is rejected."
FirstObservedWins ==
    judged # Nobody =>
        LET Seen(o) == {n \in DOMAIN sightings : sightings[n].order = o}
            before == {p \in Placed \ {judged.order} :
                         /\ TokensOf(book[p].pm) # {} /\ TokenOf(p) = TokenOf(judged.order)
                         /\ \E n \in Seen(p) : \A k \in Seen(judged.order) : n < k}
            last   == CHOOSE n \in Seen(judged.order) :
                         sightings[n].judged /\ \A k \in Seen(judged.order) : sightings[k].judged => k <= n
        IN /\ judged.verdict = "invalid" => before # {}
           /\ (\E n \in 1..last : sightings[n].order \in before /\ sightings[n].judged)
              => judged.verdict = "invalid"
=============================================================================
