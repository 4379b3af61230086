------------------------------ MODULE Messages ------------------------------
(***************************************************************************)
(* Protocol messages: what the builders put in them, what they are on the   *)
(* wire and what is read back (message.ts, order.ts, verify.ts, wire.ts,    *)
(* flow.ts, invoice.ts, admin.ts).  Objects are functions from field names; *)
(* fiat code, payment method and premium of an order are the one field      *)
(* terms, and the maker's rating, which is never sent, is left out.         *)
(***************************************************************************)
EXTENDS Integers, Sequences

CONSTANTS
    Null,       \* null, and the outcome of a builder that throws
    Malformed   \* the outcome of a reader that throws

-----------------------------------------------------------------------------
(* What is written and read.  A field of "must" is there, one of "nullable" *)
(* is written as null, one of "omitted" is left out when null; a tuple      *)
(* is read by position and has all its fields.                              *)
Object(must, nullable, omitted) ==
    [must |-> must, nullable |-> nullable, omitted |-> omitted, tuple |-> FALSE]
Tuple(must, nullable) ==
    [must |-> must, nullable |-> nullable, omitted |-> {}, tuple |-> TRUE]

Fields(shape) == shape.must \cup shape.nullable \cup shape.omitted

OrderShape == Object({"amount", "fiat_amount", "terms"},
                     {"kind", "status", "min_amount", "max_amount", "created_at", "expires_at"},
                     {"id", "buyer_trade_pubkey", "seller_trade_pubkey", "buyer_invoice"})

KindShape == Object({"action"}, {"request_id", "trade_index", "payload"}, {"id"})

PayloadShape ==
    [order |-> OrderShape,
     payment_request |-> Tuple({"invoice"}, {"order", "amount"}),
     text_message |-> Object({"text"}, {}, {}),
     peer |-> Object({"pubkey"}, {}, {"reputation"}),
     rating_user |-> Object({"rating"}, {}, {}),
     amount |-> Object({"amount"}, {}, {}),
     dispute |-> Tuple({"dispute_id"}, {"info"}),
     cant_do |-> Object({}, {"reason"}, {}),
     next_trade |-> Tuple({"pubkey", "index"}, {}),
     payment_failed |-> Object({"payment_attempts", "payment_retries_interval"}, {}, {}),
     restore_data |-> Object({}, {"orders", "disputes"}, {}),
     ids |-> Object({"ids"}, {}, {}),
     orders |-> Object({"orders"}, {}, {}),
     bond_resolution |-> Object({"slash_seller", "slash_buyer"}, {}, {}),
     bond_payout_request |-> Object({"order", "slashed_at"}, {}, {}),
     cashu_lock_proof |-> Object({"token", "mint_url", "buyer_pubkey", "seller_pubkey",
                                  "mostro_pubkey"}, {}, {"fee_token"}),
     cashu_signatures |-> Object({"signatures"}, {}, {})]

\* The payloads with an order inside.
HoldsOrder == {"payment_request", "bond_payout_request"}

MessageVariant == {"order", "dispute", "cant-do", "rate", "dm", "restore"}

\* The objects of a shape, with these values in its fields.
ObjectsOf(shape, values) ==
    {v \in [Fields(shape) -> values \cup {Null}] : \A f \in shape.must : v[f] # Null}

Scalars == STRING \cup Int \cup BOOLEAN
SmallOrders == ObjectsOf(OrderShape, Scalars)
PayloadValues(variant) ==
    IF variant \in HoldsOrder
    THEN {v \in ObjectsOf(PayloadShape[variant], Scalars \cup SmallOrders) :
             \A f \in DOMAIN v : v[f] \in (IF f = "order" THEN SmallOrders ELSE Scalars) \cup {Null}}
    ELSE ObjectsOf(PayloadShape[variant], Scalars)
Payloads(variant) == [variant : {variant}, value : PayloadValues(variant)]

\* The messages without a payload, or with one of this variant.
Kinds(variant) ==
    [id : STRING \cup {Null}, request_id : Nat \cup {Null}, trade_index : Nat \cup {Null},
     action : STRING, payload : Payloads(variant) \cup {Null}]
Messages(variant) == [variant : MessageVariant, value : Kinds(variant)]

\* What is on the wire of them: with F of the fields of a payload, G of those of
\* an order in it, K of those of the message.
Sent(shape) == {(Fields(shape) \ shape.omitted) \cup some : some \in SUBSET shape.omitted}
JsonOrders(G) == [G -> Scalars \cup {Null}]
JsonValues(F, G) == [F -> Scalars \cup JsonOrders(G) \cup {Null}]
JsonPayloads(variant, F, G) == [variant : {variant}, value : JsonValues(F, G)]
JsonKinds(variant, K, F, G) == [K -> Scalars \cup JsonPayloads(variant, F, G) \cup {Null}]
JsonMessages(variant, K, F, G) == [variant : MessageVariant, value : JsonKinds(variant, K, F, G)]

\* Null and Malformed are none of these.
ASSUME MessagesAssumption ==
    /\ Null # Malformed
    /\ \A x \in {Null, Malformed} :
          /\ x \notin Scalars /\ x \notin SmallOrders
          /\ \A variant \in DOMAIN PayloadShape :
                /\ x \notin PayloadValues(variant) /\ x \notin Payloads(variant)
                /\ x \notin Messages(variant)
                /\ \A F \in Sent(PayloadShape[variant]), G \in Sent(OrderShape) :
                      /\ x \notin JsonOrders(G) /\ x \notin JsonValues(F, G)
                      /\ x \notin JsonPayloads(variant, F, G)
                      /\ x \notin JsonKinds(variant, Fields(KindShape), F, G)

Written(shape, value) ==
    [f \in {g \in DOMAIN value : value[g] # Null \/ g \notin shape.omitted} |-> value[f]]

\* A reader that takes a zero or an empty value for null.
ReadsZeroAsNull(shape, json) ==
    IF /\ \A f \in shape.must : f \in DOMAIN json /\ json[f] # Null
       /\ shape.tuple => Fields(shape) \subseteq DOMAIN json
    THEN [f \in Fields(shape) |->
             IF f \in DOMAIN json /\ ~(f \in {"amount", "request_id"} /\ json[f] = 0)
             THEN json[f] ELSE Null]
    ELSE Malformed

Read(shape, json) ==
    IF /\ \A f \in shape.must : f \in DOMAIN json /\ json[f] # Null
       /\ shape.tuple => Fields(shape) \subseteq DOMAIN json
    THEN [f \in Fields(shape) |-> IF f \in DOMAIN json THEN json[f] ELSE Null]
    ELSE Malformed

PayloadToJson(payload) ==
    IF payload = Null THEN Null
    ELSE LET value == Written(PayloadShape[payload.variant], payload.value)
         IN [variant |-> payload.variant,
             value   |-> IF payload.variant \in HoldsOrder /\ value.order # Null
                         THEN [value EXCEPT !.order = Written(OrderShape, @)] ELSE value]

PayloadFromJson(json) ==
    CASE json = Null -> Null
      [] json # Null /\ json.variant \notin DOMAIN PayloadShape -> Malformed
      [] OTHER ->
            LET value == Read(PayloadShape[json.variant], json.value)
                inner == json.variant \in HoldsOrder /\ value # Malformed /\ value.order # Null
                order == IF inner THEN Read(OrderShape, value.order) ELSE Null
            IN IF value = Malformed \/ order = Malformed THEN Malformed
               ELSE [variant |-> json.variant,
                     value   |-> IF inner THEN [value EXCEPT !.order = order] ELSE value]

MessageToJson(message) ==
    [variant |-> message.variant,
     value   |-> Written(KindShape, [message.value EXCEPT !.payload = PayloadToJson(@)])]

MessageFromJson(json) ==
    LET kind    == Read(KindShape, json.value)
        payload == IF kind = Malformed THEN Malformed ELSE PayloadFromJson(kind.payload)
    IN IF json.variant \notin MessageVariant \/ payload = Malformed THEN Malformed
       ELSE [variant |-> json.variant, value |-> [kind EXCEPT !.payload = payload]]

-----------------------------------------------------------------------------
(* Which payload goes with which action (an action the protocol does not    *)
(* have is refused; none is built here).                                    *)
VariantOf(kind) == IF kind.payload = Null THEN "none" ELSE kind.payload.variant

PayloadsOf(action) ==
    CASE action = "new-order" -> {"order"}
      [] action \in {"pay-invoice", "pay-bond-invoice", "add-invoice"} -> {"payment_request"}
      [] action = "add-bond-invoice" -> {"bond_payout_request", "payment_request"}
      [] action \in {"admin-settle", "admin-cancel"} -> {"none", "bond_resolution"}
      [] action = "add-cashu-escrow" -> {"cashu_lock_proof"}
      [] action = "cashu-pm-signature" -> {"cashu_signatures"}
      [] action \in {"last-trade-index", "restore-session"} -> {"none"}
      [] action = "payment-failed" -> {"payment_failed"}
      [] action = "rate-user" -> {"rating_user"}
      [] action = "cant-do" -> {"cant_do"}
      [] action = "orders" -> {"ids", "orders"}
      [] OTHER -> ({"none"} \cup DOMAIN PayloadShape) \ {"bond_resolution", "bond_payout_request"}

NeedsNoId == {"new-order", "last-trade-index", "restore-session", "rate-user", "cant-do", "orders"}

VerifyMessageKind(kind) ==
    /\ VariantOf(kind) \in PayloadsOf(kind.action)
    /\ kind.action \notin NeedsNoId => kind.id # Null
    /\ kind.action = "cashu-pm-signature" => kind.payload.value.signatures # <<>>

-----------------------------------------------------------------------------
(* Builders.                                                                *)
NewMessage(variant, id, request_id, trade_index, action, payload) ==
    [variant |-> variant,
     value   |-> [id |-> id, request_id |-> request_id, trade_index |-> trade_index,
                  action |-> action, payload |-> payload]]

Payload(variant, value) == [variant |-> variant, value |-> value]
Verified(message) == IF VerifyMessageKind(message.value) THEN message ELSE Null

NewSmallOrder(given) ==
    [f \in Fields(OrderShape) |-> IF f \in DOMAIN given THEN given[f] ELSE Null]

\* lastTradeIndex is the index before the one that was reserved.
BuildNewOrder(lastTradeIndex, input, requestId) ==
    IF input.days < 1 THEN Null
    ELSE LET order == NewSmallOrder(
                 [kind |-> input.kind, status |-> "pending", amount |-> input.amount, terms |-> "usd",
                  fiat_amount |-> IF input.range THEN 0 ELSE 10,
                  min_amount |-> IF input.range THEN 5 ELSE Null,
                  max_amount |-> IF input.range THEN 20 ELSE Null,
                  created_at |-> 0, expires_at |-> input.days])
         IN Verified(NewMessage("order", Null, requestId, lastTradeIndex + 1, "new-order",
                                Payload("order", order)))

BuildTradeMessage(orderId, requestId, action, payload, tradeIndex) ==
    Verified(NewMessage("order", orderId, requestId, tradeIndex, action, payload))

TakeActionForOrder(order) ==
    CASE order.kind = "buy" -> "take-buy" [] order.kind = "sell" -> "take-sell" [] OTHER -> Null

BuildTakeOrderPayload(action, invoice, amount) ==
    CASE action = "take-buy" /\ amount = Null -> Null
      [] action = "take-buy" /\ amount # Null -> Payload("amount", [amount |-> amount])
      [] action = "take-sell" /\ invoice # "" ->
            Payload("payment_request", [order |-> Null, invoice |-> invoice, amount |-> amount])
      [] OTHER -> Payload("amount", [amount |-> IF amount = Null THEN 0 ELSE amount])

\* The remainder of a range order is announced under the next trade key.
ComputeNextTradePayload(order, nextKey, nextIndex) ==
    IF order.min_amount = Null \/ order.max_amount = Null THEN Null
    ELSE IF order.max_amount - order.fiat_amount < order.min_amount THEN Null
    ELSE Payload("next_trade", [pubkey |-> nextKey, index |-> nextIndex])

\* An invoice stands for its class; one that is not of a class is refused.
InvoicePayload(invoice) ==
    IF invoice \in {"bolt11", "lnurl", "ln-address"}
    THEN Payload("payment_request", [order |-> Null, invoice |-> invoice, amount |-> Null])
    ELSE Null

BuildInvoiceMessage(orderId, requestId, action, invoice) ==
    IF InvoicePayload(invoice) = Null THEN Null
    ELSE Verified(NewMessage("order", orderId, requestId, Null, action, InvoicePayload(invoice)))

BuildRateUserMessage(orderId, requestId, rating) ==
    IF rating \notin 1..5 THEN Null
    ELSE Verified(NewMessage("order", orderId, requestId, Null, "rate-user",
                             Payload("rating_user", [rating |-> rating])))

BuildDisputeMessage(orderId, requestId) ==
    Verified(NewMessage("order", orderId, requestId, Null, "dispute", Null))

BondSlashToPayload(slashSeller, slashBuyer) ==
    IF slashSeller \/ slashBuyer
    THEN Payload("bond_resolution", [slash_seller |-> slashSeller, slash_buyer |-> slashBuyer])
    ELSE Null

BuildAdminMessage(id, requestId, action, payload) ==
    Verified(NewMessage("dispute", id, requestId, Null, action, payload))
=============================================================================
