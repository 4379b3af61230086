------------------------------ MODULE Exchange ------------------------------
(***************************************************************************)
(* What the calls of MostroClient say to the daemon and what they return:   *)
(* the message of a call is built, wrapped, read by the daemon, answered    *)
(* and the answer is turned into the result (client.ts, flow.ts,            *)
(* transport.ts, dmRouter.ts sendDm).  How a call waits is DmRouter's; here *)
(* calls follow one another, and their DMs come late and in any order.      *)
(*                                                                          *)
(* A key stands for its public key, a NIP-44 conversation key for the two   *)
(* keys it is made of, and a signature for its signer and what is signed.   *)
(***************************************************************************)
EXTENDS Messages, FiniteSets

CONSTANTS
    TradeKeys,  \* the client's trade keys, a sequence: the n-th call that needs one takes the n-th
    Amounts,    \* amounts of sats
    MaxCalls,   \* bound on the calls
    MaxStrays   \* bound on the notifications nobody asked for

ASSUME ExchangeAssumption ==
    /\ TradeKeys \in Seq(STRING) /\ Amounts \subseteq Nat
    /\ MaxCalls \in 0..Len(TradeKeys)

\* Every string of this module is a string, which the provers have to be told.
ASSUME StringsAssumption ==
    {"", "identity", "mostro", "new", "taken", "next", "d", "other", "order", "sell", "buy", "usd",
     "new-order", "take-buy", "take-sell", "add-invoice", "pay-invoice", "pay-bond-invoice",
     "fiat-sent", "release", "rate-user", "admin-settle", "cancel", "dispute", "cant-do",
     "bolt11", "lnurl", "ln-address", "gibberish", "bond", "hold",
     "pending", "waiting-maker-bond", "waiting-payment", "waiting-buyer-invoice",
     "waiting-seller-to-pay", "hold-invoice-payment-accepted", "fiat-sent-ok",
     "hold-invoice-payment-settled", "rate-received", "admin-settled",
     "cooperative-cancel-accepted", "cooperative-cancel-initiated-by-you", "canceled",
     "dispute-initiated-by-you", "dispute-initiated-by-peer",
     "failed", "order-created", "bond-invoice", "hold-invoice", "accepted", "rated", "confirmed",
     "already-cooperatively-canceled", "disputed", "done"} \subseteq STRING

\* Null is neither a proof nor a result.
ASSUME NullAssumption ==
    /\ \A variant \in DOMAIN PayloadShape, K \in Sent(KindShape) :
          \A F \in Sent(PayloadShape[variant]), G \in Sent(OrderShape) :
             Null \notin [by : STRING, over : STRING \X JsonMessages(variant, K, F, G)]
    /\ Null \notin [type : STRING, order : STRING \cup {Null}, invoice : STRING \cup {Null},
                    amount : Nat \cup {Null}]

VARIABLES
    calls,      \* the calls in order; a call's request id is its number less one
    results,    \* their results; one fewer while a call waits
    opened,     \* what the daemon read, by call
    decisions,  \* what the daemon decided, by call
    dms,        \* the DMs the daemon sent
    handled,    \* those of them that the router was given
    held        \* the trade key of each order the client holds

exchangeVars == <<calls, results, opened, decisions, dms, handled, held>>

Identity == "identity"
Mostro == "mostro"
Waiting == Len(results) < Len(calls)
Last == Len(calls)

-----------------------------------------------------------------------------
(* Envelopes.                                                               *)
Proof(identity, trade, json) == [by |-> identity, over |-> <<trade, json>>]

WrapMessage(message, identity, trade, receiver) ==
    LET json == MessageToJson(message)
    IN [kind |-> 14, pubkey |-> trade, to |-> receiver, key |-> {trade, receiver},
        json |-> json, sig |-> [by |-> trade, over |-> json],
        proof |-> IF identity # trade THEN Proof(identity, trade, json) ELSE Null]

\* Null when the receiver's key does not decrypt it.
UnwrapMessage(event, receiver) ==
    CASE event.kind # 14 -> Malformed
      [] event.kind = 14 /\ event.key # {receiver, event.pubkey} -> Null
      [] OTHER ->
            LET message == MessageFromJson(event.json)
            IN IF \/ event.sig # Null /\ event.sig # [by |-> event.pubkey, over |-> event.json]
                  \/ event.proof # Null
                     /\ event.proof # Proof(event.proof.by, event.pubkey, event.json)
                  \/ message = Malformed
               THEN Malformed
               ELSE [message |-> message, sender |-> event.pubkey,
                     identity |-> IF event.proof = Null THEN event.pubkey ELSE event.proof.by]

\* The daemon signs the event only.
DaemonDm(json, trade) ==
    [kind |-> 14, pubkey |-> Mostro, to |-> trade, key |-> {Mostro, trade},
     json |-> json, sig |-> Null, proof |-> Null]

-----------------------------------------------------------------------------
(* Calls: what is asked, the message, the answers waited for.               *)
Opening ==
    {[op |-> "create", kind |-> "sell", amount |-> a, range |-> a = 0, days |-> 1] : a \in Amounts}
    \cup {[op |-> "create", kind |-> "sell", amount |-> 0, range |-> FALSE, days |-> 0]}
    \cup [op : {"take"}, kind : {"buy", "sell"}, invoice : {"", "bolt11"}, amount : {Null, 0}]
    \cup {[op |-> "take", kind |-> Null, invoice |-> "", amount |-> Null]}

\* Of an order that is held; fiat is what an order of range 5 to 20 was taken for.
Following ==
    {[op |-> "invoice", invoice |-> i] : i \in {"ln-address", "gibberish"}}
    \cup {[op |-> "complete", action |-> c[1], fiat |-> c[2]] : c \in {<<"fiat-sent", 10>>, <<"release", 18>>}}
    \cup {[op |-> "rate", rating |-> r] : r \in {0, 1}}
    \cup {[op |-> "settle", slashSeller |-> s, slashBuyer |-> FALSE] : s \in BOOLEAN}
    \cup {[op |-> "cancel"], [op |-> "dispute"]}

Build(input, orderId, requestId, index) ==
    CASE input.op = "create"   -> BuildNewOrder(index - 1, input, requestId)
      [] input.op = "take"     ->
            LET action == TakeActionForOrder(input)
            IN IF action = Null THEN Null
               ELSE BuildTradeMessage(orderId, requestId, action,
                        BuildTakeOrderPayload(action, input.invoice, input.amount), index)
      [] input.op = "invoice"  -> BuildInvoiceMessage(orderId, requestId, "add-invoice", input.invoice)
      [] input.op = "complete" ->
            LET order == [min_amount |-> 5, max_amount |-> 20, fiat_amount |-> input.fiat]
            IN BuildTradeMessage(orderId, requestId, input.action,
                                 ComputeNextTradePayload(order, "next", index), Null)
      [] input.op = "rate"     -> BuildRateUserMessage(orderId, requestId, input.rating)
      [] input.op = "settle"   -> BuildAdminMessage(orderId, requestId, "admin-settle",
                                      BondSlashToPayload(input.slashSeller, input.slashBuyer))
      [] input.op = "cancel"   -> BuildTradeMessage(orderId, requestId, "cancel", Null, Null)
      [] input.op = "dispute"  -> BuildDisputeMessage(orderId, requestId)

Expected(op) ==
    CASE op = "create"   -> {"new-order", "pay-bond-invoice"}
      [] op = "take"     -> {"take-sell", "take-buy", "pay-invoice", "pay-bond-invoice", "add-invoice"}
      [] op = "invoice"  -> {"waiting-seller-to-pay", "hold-invoice-payment-accepted"}
      [] op = "complete" -> {"fiat-sent-ok", "hold-invoice-payment-settled"}
      [] op = "rate"     -> {"rate-received"}
      [] op = "settle"   -> {"admin-settled", "cooperative-cancel-accepted"}
      [] op = "cancel"   -> {"cooperative-cancel-initiated-by-you", "cooperative-cancel-accepted",
                             "canceled"}
      [] op = "dispute"  -> {"dispute-initiated-by-you", "dispute-initiated-by-peer"}

-----------------------------------------------------------------------------
(* Results.                                                                 *)
Result(type, order, invoice, amount) ==
    [type |-> type, order |-> order, invoice |-> invoice, amount |-> amount]
Failed == Result("failed", Null, Null, Null)

Else(value, other) == IF value = Null THEN other ELSE value

\* A maker's bond falls back on the amount of the order it comes with.
HandleNewOrderResponse(kind) ==
    LET value == kind.payload.value
    IN CASE kind.action = "new-order" /\ VariantOf(kind) = "order" ->
              Result("order-created", value.id, Null, Null)
         [] kind.action = "pay-bond-invoice" /\ VariantOf(kind) = "payment_request" ->
              Result("bond-invoice", IF value.order = Null THEN Else(kind.id, "") ELSE value.order.id,
                     value.invoice,
                     Else(value.amount, IF value.order = Null THEN Null ELSE value.order.amount))
         [] OTHER -> Failed

HandleTakeOrderResponse(kind, orderId) ==
    LET value == kind.payload.value
    IN CASE kind.action = "pay-invoice" /\ VariantOf(kind) = "payment_request" ->
              Result("hold-invoice", orderId, value.invoice, value.amount)
         [] kind.action = "pay-bond-invoice" /\ VariantOf(kind) = "payment_request" ->
              Result("bond-invoice", orderId, value.invoice, value.amount)
         [] kind.action = "add-invoice" /\ VariantOf(kind) = "order" ->
              Result("add-invoice", orderId, Null, value.amount)
         [] OTHER -> Failed

\* These are told apart by the action alone.
HandleByAction(kind, orderId, type) ==
    IF kind.action \in DOMAIN type THEN Result(type[kind.action], orderId, Null, Null) ELSE Failed

HandleAddInvoiceResponse(kind, orderId) ==
    HandleByAction(kind, orderId, [a \in Expected("invoice") |-> "accepted"])

HandleRateUserResponse(kind, orderId) ==
    HandleByAction(kind, orderId, [a \in Expected("rate") |-> "rated"])

HandleAdminFinalizeResponse(kind, orderId) ==
    HandleByAction(kind, orderId, [a \in Expected("settle") |->
        IF a = "admin-settled" THEN "confirmed" ELSE "already-cooperatively-canceled"])

\* These take whatever answer comes first.
Unchecked == {"complete", "cancel", "dispute"}

HandleDisputeNotification(kind, orderId) ==
    IF VariantOf(kind) = "dispute" THEN Result("disputed", kind.id, Null, Null) ELSE Failed

HandledBy(op, kind, orderId) ==
    CASE op = "create"  -> HandleNewOrderResponse(kind)
      [] op = "take"    -> HandleTakeOrderResponse(kind, orderId)
      [] op = "invoice" -> HandleAddInvoiceResponse(kind, orderId)
      [] op = "rate"    -> HandleRateUserResponse(kind, orderId)
      [] op = "settle"  -> HandleAdminFinalizeResponse(kind, orderId)
      [] op = "dispute" -> HandleDisputeNotification(kind, orderId)
      [] op \in {"complete", "cancel"} -> Result("done", orderId, Null, Null)

\* An answer is taken for the call's own without looking at its request id.
HandlesAny(call, kind) ==
    IF kind.action = "cant-do" THEN Failed ELSE HandledBy(call.op, kind, call.order)

\* The result of a call that was answered with kind.
Handle(call, kind) ==
    IF \/ kind.action = "cant-do" /\ call.op \notin {"complete", "cancel"}
       \/ call.op \notin Unchecked /\ kind.request_id # call.rid
    THEN Failed ELSE HandledBy(call.op, kind, call.order)

-----------------------------------------------------------------------------
(* The daemon: what it may decide, and what it then sends.                  *)
Decision(result, action, payload) == [result |-> result, action |-> action, payload |-> payload]

DaemonOrder(id, amount, status) ==
    NewSmallOrder([id |-> id, kind |-> "sell", status |-> status, amount |-> amount,
                   fiat_amount |-> 10, terms |-> "usd", created_at |-> 1])

Request(order, invoice, amount) ==
    Payload("payment_request", [order |-> order, invoice |-> invoice, amount |-> amount])

Decided(call) ==
    LET id == IF call.op = "create" THEN "new" ELSE call.order
        order(a, s) == DaemonOrder(id, a, s)
    IN {Decision(Failed, "cant-do", Payload("cant_do", [reason |-> Null]))}
       \cup
       CASE call.op = "create" ->
              {Decision(Result("order-created", id, Null, Null), "new-order",
                        Payload("order", order(0, "pending")))}
              \cup UNION {{Decision(Result("bond-invoice", id, "bond", a), "pay-bond-invoice", p) :
                              p \in {Request(order(a, "waiting-maker-bond"), "bond", Null),
                                     Request(Null, "bond", a)}} : a \in Amounts}
         [] call.op = "take" ->
              {Decision(Result("hold-invoice", id, "hold", a), "pay-invoice",
                        Request(order(a, "waiting-payment"), "hold", a)) : a \in Amounts}
              \cup {Decision(Result("bond-invoice", id, "bond", a), "pay-bond-invoice",
                             Request(Null, "bond", a)) : a \in Amounts}
              \cup {Decision(Result("add-invoice", id, Null, a), "add-invoice",
                             Payload("order", order(a, "waiting-buyer-invoice"))) : a \in Amounts}
         [] call.op = "invoice" ->
              {Decision(Result("accepted", id, Null, Null), a, Null) : a \in Expected("invoice")}
         [] call.op = "rate" ->
              {Decision(Result("rated", id, Null, Null), "rate-received", Null)}
         [] call.op = "settle" ->
              {Decision(Result("confirmed", id, Null, Null), "admin-settled", Null),
               Decision(Result("already-cooperatively-canceled", id, Null, Null),
                        "cooperative-cancel-accepted", Null)}
         [] call.op = "dispute" ->
              {Decision(Result("disputed", id, Null, Null), "dispute-initiated-by-you",
                        Payload("dispute", [dispute_id |-> "d", info |-> Null]))}
         [] call.op \in {"complete", "cancel"} ->
              {Decision(Result("done", id, Null, Null), a, Null) : a \in Expected(call.op)}

\* Notifications of what happens to an order; the last has a payload of a later protocol.
Notices(id) ==
    {MessageToJson(NewMessage("order", id, Null, Null, n[1], n[2])) : n \in
        {<<"pay-invoice", Request(DaemonOrder(id, 7, "waiting-payment"), "other", 7)>>,
         <<"add-invoice", Payload("order", DaemonOrder(id, 7, "waiting-buyer-invoice"))>>,
         <<"waiting-seller-to-pay", Null>>,
         <<"rate-received", Null>>}}
    \cup {[variant |-> "order",
           value   |-> [id |-> id, request_id |-> Null, trade_index |-> Null, action |-> "canceled",
                        payload |-> [variant |-> "unheard_of", value |-> [amount |-> 0]]]]}
Strays == Len(dms) - Cardinality({n \in DOMAIN decisions : decisions[n] # Null})

-----------------------------------------------------------------------------
ExchangeInit ==
    /\ calls = <<>> /\ results = <<>> /\ opened = <<>> /\ decisions = <<>>
    /\ dms = <<>> /\ handled = {} /\ held = <<>>

\* A call is made: refused by a builder, or sent.
Send(input, orderId, trade) ==
    LET rid     == Last
        message == Build(input, orderId, rid, Last + 2)
    IN /\ ~Waiting /\ Last < MaxCalls
       /\ calls' = Append(calls,
              [op |-> input.op, order |-> orderId, rid |-> rid, message |-> message, trade |-> trade,
               event |-> IF message = Null THEN Null
                         ELSE WrapMessage(message, Identity, trade, Mostro)])
       /\ results' = IF message = Null THEN Append(results, Failed) ELSE results
       /\ opened' = Append(opened, Null)
       /\ decisions' = Append(decisions, Null)
       /\ UNCHANGED <<dms, handled, held>>

Open == \E input \in Opening :
            Send(input, IF input.op = "take" THEN "taken" ELSE Null, TradeKeys[Last + 1])
Follow == \E o \in DOMAIN held : \E input \in Following : Send(input, o, held[o])

\* The daemon reads the event of a call, with the functions transport.ts
\* mirrors, decides and answers.  One it cannot read it drops.
DaemonAnswers(n) ==
    /\ calls[n].event # Null /\ opened[n] = Null
    /\ LET read == UnwrapMessage(calls[n].event, Mostro)
           kind == read.message.value
       IN /\ opened' = [opened EXCEPT ![n] = read]
          /\ IF read \in {Null, Malformed} THEN UNCHANGED <<decisions, dms>>
             ELSE \E d \in Decided(calls[n]) :
                 /\ decisions' = [decisions EXCEPT ![n] = d.result]
                 /\ dms' = Append(dms, DaemonDm(MessageToJson(NewMessage(
                               IF d.action = "cant-do" THEN "cant-do" ELSE "order",
                               Else(d.result.order, kind.id), kind.request_id, Null,
                               d.action, d.payload)), read.sender))
    /\ UNCHANGED <<calls, results, handled, held>>

DaemonNotifies ==
    /\ Waiting /\ opened[Last] \notin {Null, Malformed} /\ Strays < MaxStrays
    /\ \E notice \in Notices(Else(calls[Last].order, "new")) :
          dms' = Append(dms, DaemonDm(notice, calls[Last].trade))
    /\ UNCHANGED <<calls, results, opened, decisions, handled, held>>

\* roundtrip: the first DM with an expected action, or a refusal, ends the call.
\* A DM that comes when no call waits is one that is never delivered.
Deliver(i) ==
    LET call   == calls[Last]
        read   == UnwrapMessage(dms[i], call.trade)
        kind   == read.message.value
        result == Handle(call, kind)
    IN /\ Waiting /\ i \notin handled
       /\ handled' = handled \cup {i}
       /\ IF /\ read \notin {Null, Malformed}
             /\ kind.action \in Expected(call.op) \cup {"cant-do"}
          THEN /\ results' = Append(results, result)
               /\ held' = IF call.op \in {"create", "take"} /\ result # Failed
                          THEN [o \in DOMAIN held \cup {result.order} |->
                                   IF o = result.order THEN call.trade ELSE held[o]]
                          ELSE held
          ELSE UNCHANGED <<results, held>>
       /\ UNCHANGED <<calls, opened, decisions, dms>>

TimeOut ==
    /\ Waiting
    /\ results' = Append(results, Failed)
    /\ UNCHANGED <<calls, opened, decisions, dms, handled, held>>

ExchangeNext ==
    \/ Open \/ Follow \/ TimeOut \/ DaemonNotifies
    \/ \E n \in DOMAIN calls : DaemonAnswers(n)
    \/ \E i \in DOMAIN dms : Deliver(i)

-----------------------------------------------------------------------------
\* The daemon reads what the caller meant: the very message the builder made,
\* zeroes and nulls included, signed by the trade key the daemon knows for the
\* order and proved by the identity.  transport.ts:247 "The wire form of the
\* message (for signature binding and identity proof) must be byte-identical to
\* what the sender signed."
RequestArrivesIntact ==
    \A n \in DOMAIN opened : opened[n] # Null =>
        /\ opened[n] = [message |-> calls[n].message, sender |-> calls[n].trade, identity |-> Identity]
        /\ VerifyMessageKind(opened[n].message.value)
        /\ calls[n].op \notin {"create", "take"} =>
              \E m \in 1..(n - 1) : /\ decisions[m] # Null /\ decisions[m].order = calls[n].order
                                    /\ calls[m].trade = calls[n].trade

\* A call that checks its answer never reports what the daemon did not decide:
\* not the outcome of another call, of a notification that has the same action,
\* or another order, invoice or amount (flow.ts:135, 248, 333; invoice.ts:196).
ResultMatchesDecision ==
    \A n \in DOMAIN results :
        calls[n].op \notin Unchecked /\ results[n] # Failed => results[n] = decisions[n]
=============================================================================
