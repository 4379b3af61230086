------------------------------- MODULE ChatSync -------------------------------
(***************************************************************************)
(* The chats of one order: the conversation with the counterpart and, when  *)
(* there is a dispute, the one with the solver.  A conversation has a copy  *)
(* in the client's memory, one in the store, one in the UI's sink and one   *)
(* on the relays, and the module is about keeping them the same.            *)
(*                                                                         *)
(* Orders share nothing but chatSeen, which holds event ids, so one order   *)
(* stands for all.  Its trade key and what its DMs have told (the           *)
(* counterpart's key, the solver) are kept as TradeDm says.                 *)
(*                                                                         *)
(* SQLite saves a message within the call and reads a conversation without  *)
(* yielding; with a field encryptor it yields where it decrypts a row.      *)
(* IndexedDB does all of it in transactions; those of an object store are   *)
(* served in the order in which they were opened.                           *)
(***************************************************************************)
EXTENDS Naturals, Sequences, SequencesExt

CONSTANTS
    Messages,      \* every message either party ever sends
    Backends,      \* the stores the client may have been given
    MaxSessions    \* bound on the clients that go, and on the stops of all of them

Scopes == {"order", "dispute"}

\* A message: its created_at, which also tells it from the others, its
\* conversation and whether this client sends it.  An event unwrapChatMessage
\* rejects (ChatEnvelope says which) is dropped without a trace and is not here.
MessageType == [at : Nat, scope : Scopes, mine : BOOLEAN]

ASSUME ChatSyncAssumption ==
    /\ Messages \subseteq MessageType
    /\ \A m, n \in Messages : m.at = n.at => m = n
    /\ Backends \subseteq {"sqlite", "encrypted", "indexeddb"}
    /\ MaxSessions \in Nat

VARIABLES
    backend,     \* the store the client has been given
    relay,       \* the messages the relays hold
    old,         \* those sent more than seven days ago
    store,       \* the chat table
    saving,      \* put into it by transactions that are still open
    known,       \* the conversations whose other key the row or a DM has told
    running,     \* has start() been called, and not stop()?
    resuming,    \* where the loop of start() or restore() over orders is
    read,        \* what hydrateChat has read
    history,     \* orderChatHistory and disputeChatHistory, for this order
    entries,     \* those of the two Maps that have an entry for it
    seen,        \* chatSeen
    subscribed,  \* chatSubscribed
    open,        \* the conversations with a subscription the pool serves
    asked,       \* the messages such a subscription asks the relays for
    sink,        \* the chats of the UI store
    forgotten,   \* clients that are gone
    stops

external == <<backend, relay, old, known>>
disk == <<store, saving>>
memory == <<history, entries, seen, sink>>
subscriptions == <<subscribed, open, asked>>
loop == <<resuming, read>>
bounds == <<forgotten, stops>>
vars == <<external, disk, memory, subscriptions, loop, running, bounds>>

Of(s, M) == {m \in M : m.scope = s}
Shown(s) == ToSet(history[s])

TypeOK ==
    /\ backend \in Backends
    /\ relay \subseteq Messages /\ old \subseteq relay
    /\ store \subseteq Messages /\ saving \subseteq Messages
    /\ known \subseteq Scopes /\ subscribed \subseteq known
    /\ running \in BOOLEAN
    /\ resuming \in {"no", "track", "hydrate", "replace"}
    /\ read \subseteq Messages /\ seen \subseteq Messages
    /\ \A s \in Scopes : /\ Shown(s) \subseteq Of(s, Messages)
                         /\ ToSet(sink[s]) \subseteq Of(s, seen)
                         /\ s \notin entries => history[s] = <<>>
                         /\ asked[s] \subseteq Of(s, Messages)
    /\ open \subseteq subscribed
    /\ forgotten \in 0..MaxSessions /\ stops \in 0..MaxSessions

\* Plain SQLite answers within the microtask queue: no event comes between two
\* awaits of start().
MayRun == running /\ (backend # "sqlite" \/ resuming = "no")

-----------------------------------------------------------------------------

Init ==
    /\ backend \in Backends
    /\ relay = {} /\ old = {} /\ known = {}
    /\ store = {} /\ saving = {}
    /\ running = FALSE /\ resuming = "no" /\ read = {}
    /\ history = [s \in Scopes |-> <<>>] /\ entries = {}
    /\ sink = [s \in Scopes |-> <<>>]
    /\ seen = {}
    /\ subscribed = {} /\ open = {} /\ asked = [s \in Scopes |-> {}]
    /\ forgotten = 0 /\ stops = 0

\* A subscription that begins now: the peer's earlier messages are not asked for.
TracksFromNow(s) ==
    IF s \in subscribed \/ s \notin known'
    THEN UNCHANGED subscriptions
    ELSE /\ subscribed' = subscribed \cup {s} /\ open' = open \cup {s}
         /\ asked' = [asked EXCEPT ![s] = Of(s, Messages \ relay)]

\* A subscription to a conversation with nobody yet.
TracksUnknown(s) ==
    IF s \in subscribed
    THEN UNCHANGED subscriptions
    ELSE /\ subscribed' = subscribed \cup {s} /\ open' = open \cup {s}
         /\ asked' = [asked EXCEPT ![s] = Of(s, Messages \ old)]

\* trackOrderChat and trackDisputeChat: nothing for a conversation that has
\* been subscribed to before, else the last seven days of it and what follows.
Track(s) ==
    IF s \in subscribed \/ s \notin known'
    THEN UNCHANGED subscriptions
    ELSE /\ subscribed' = subscribed \cup {s} /\ open' = open \cup {s}
         /\ asked' = [asked EXCEPT ![s] = Of(s, Messages \ old)]

\* A DM of the order is handled, one of this session or a replayed one: it
\* tells a key, or finds it told, and subscribes.
HearDm(s) ==
    /\ MayRun
    /\ known' = known \cup {s}
    /\ Track(s)
    /\ UNCHANGED <<backend, relay, old, disk, memory, loop, running, bounds>>

-----------------------------------------------------------------------------

\* upsertChatMessage of the UI store.
Upserted(m) == [sink EXCEPT ![m.scope] = Append(@, m)]

\* recordOrderChat and recordDisputeChat: one message into all the copies.
Record(m) ==
    /\ m \notin seen
    /\ seen' = seen \cup {m}
    /\ history' = [history EXCEPT ![m.scope] = Append(@, m)]
    /\ entries' = entries \cup {m.scope}
    /\ sink' = Upserted(m)
    /\ IF backend # "indexeddb" THEN store' = store \cup {m} /\ UNCHANGED saving
                          ELSE saving' = saving \cup {m} /\ UNCHANGED store

\* A transaction of saveChatMessage ends; the row is keyed by the event id.
SaveChatMessage(m) ==
    /\ m \in saving
    /\ saving' = saving \ {m}
    /\ store' = store \cup {m}
    /\ UNCHANGED <<external, memory, subscriptions, loop, running, bounds>>

\* sendOrderChat and sendDisputeChat.  The relays may not take the event, which
\* the client does not notice; it records the message before any echo of it.
SendChat(m) ==
    /\ MayRun
    /\ m.mine /\ m.scope \in known
    /\ m \notin relay \cup store \cup saving
    /\ \E taken \in BOOLEAN : relay' = IF taken THEN relay \cup {m} ELSE relay
    /\ Record(m)
    /\ UNCHANGED <<backend, old, known, subscriptions, loop, running, bounds>>

\* The onevent of a subscription.
DeliverChat(m) ==
    /\ MayRun
    /\ m.scope \in open /\ m \in relay \cap asked[m.scope]
    /\ Record(m)
    /\ UNCHANGED <<external, subscriptions, loop, running, bounds>>

-----------------------------------------------------------------------------
(* start() and restore(), from the loop over the active orders.             *)

\* getChatMessages: oldest first.
Chronological(M) ==
    CHOOSE s \in [1..Cardinality(M) -> M] : \A i, j \in 1..Cardinality(M) : i < j => s[i].at < s[j].at

\* A hydration that leaves chatSeen as it was.
ReplaceAndForget(rows) ==
    /\ history' = [s \in Scopes |-> Chronological(Of(s, rows))]
    /\ entries' = Scopes
    /\ UNCHANGED seen

\* A hydration of the counterpart's conversation only.
ReplaceOrderChat(rows) ==
    /\ history' = [history EXCEPT !["order"] = Chronological(Of("order", rows))]
    /\ entries' = Scopes
    /\ seen' = seen \cup rows

\* The end of hydrateChat.
Replace(rows) ==
    /\ history' = [s \in Scopes |-> Chronological(Of(s, rows))]
    /\ entries' = Scopes
    /\ seen' = seen \cup rows

\* start(), and a restore() while the client runs: the router tracks the order.
Resume ==
    /\ resuming = "no"
    /\ running' = TRUE
    /\ resuming' = "track"
    /\ UNCHANGED <<external, disk, memory, subscriptions, read, bounds>>

TrackDispute ==
    /\ resuming = "track"
    /\ UNCHANGED external
    /\ Track("dispute")
    /\ resuming' = "hydrate"
    /\ UNCHANGED <<disk, memory, read, running, bounds>>

\* hydrateChat to the end of its reads.  It does nothing when this client has
\* already shown something of the counterpart's conversation.
HydrateChat ==
    /\ resuming = "hydrate"
    /\ IF "order" \in entries
       THEN resuming' = "no" /\ UNCHANGED <<read, memory>>
       ELSE IF backend # "indexeddb"
       THEN resuming' = "no" /\ Replace(store) /\ UNCHANGED <<read, sink>>
       ELSE saving = {} /\ resuming' = "replace" /\ read' = store /\ UNCHANGED memory
    /\ UNCHANGED <<external, disk, subscriptions, running, bounds>>

ReplaceHistory ==
    /\ resuming = "replace"
    /\ Replace(read)
    /\ resuming' = "no" /\ read' = {}
    /\ UNCHANGED <<external, disk, sink, subscriptions, running, bounds>>

\* stop() closes the pool and forgets nothing else.
Stop ==
    /\ running /\ resuming = "no" /\ stops < MaxSessions
    /\ stops' = stops + 1
    /\ running' = FALSE
    /\ open' = {}
    /\ UNCHANGED <<external, disk, memory, subscribed, asked, loop, forgotten>>

\* The process ends, or the app makes a new client.
Forget ==
    /\ forgotten < MaxSessions
    /\ forgotten' = forgotten + 1
    /\ running' = FALSE /\ resuming' = "no" /\ read' = {}
    /\ history' = [s \in Scopes |-> <<>>] /\ entries' = {}
    /\ sink' = [s \in Scopes |-> <<>>] /\ seen' = {}
    /\ subscribed' = {} /\ open' = {} /\ asked' = [s \in Scopes |-> {}]
    /\ saving' = {}
    /\ UNCHANGED <<external, store, stops>>

-----------------------------------------------------------------------------

\* The counterpart or the solver sends a message.
PeerSends(m) ==
    /\ ~m.mine /\ m \notin relay
    /\ relay' = relay \cup {m}
    /\ UNCHANGED <<backend, old, known, disk, memory, subscriptions, loop, running, bounds>>

\* Seven days pass for a message (of ours, the client has what it needs).
GrowOld(m) ==
    /\ m \in relay \ old /\ ~m.mine
    /\ old' = old \cup {m}
    /\ UNCHANGED <<backend, relay, known, disk, memory, subscriptions, loop, running, bounds>>

Next ==
    \/ \E s \in Scopes : HearDm(s)
    \/ \E m \in Messages : \/ SaveChatMessage(m) \/ SendChat(m) \/ DeliverChat(m)
                           \/ PeerSends(m) \/ GrowOld(m)
    \/ Resume \/ TrackDispute \/ HydrateChat \/ ReplaceHistory \/ Stop \/ Forget

Spec == Init /\ [][Next]_vars

\* The app starts its client, awaits end, and relays deliver what they hold:
\* the DMs of the order and the messages a subscription asks for.  An event that
\* has arrived is handled once the event loop is free, whatever restore() calls
\* come between, hence SF.
Fairness ==
    /\ WF_vars(~running /\ Resume)
    /\ WF_vars(TrackDispute \/ HydrateChat \/ ReplaceHistory)
    /\ \A s \in Scopes : SF_vars(HearDm(s))
    /\ \A m \in Messages : SF_vars(DeliverChat(m)) /\ WF_vars(SaveChatMessage(m))

FairSpec == Spec /\ Fairness
-----------------------------------------------------------------------------
(* Properties.                                                              *)

\* A message is shown once however often it reaches the client: by the echo of
\* the client's own sending, by the replay of a new subscription, from the store.
NoMessageTwice ==
    \A s \in Scopes : IsInjective(history[s]) /\ IsInjective(sink[s])

\* Between two starts everything shown is in the store or being put there, so
\* that a restart can bring it back, and with plain SQLite everything stored is
\* shown.  (With the other stores a live message may keep the stored ones of a
\* session away, or be replaced by them: hydrateChat, client.ts:836-850.)
HistoryMatchesStore ==
    running /\ resuming = "no" =>
        \A s \in Scopes :
            /\ Shown(s) \subseteq store \cup saving
            /\ backend = "sqlite" => Shown(s) = Of(s, store)

\* A conversation that a stop() has left without its subscription, for good:
\* the same client never subscribes to it again.
Abandoned(s) == s \in subscribed \ open

\* What the counterpart or the solver sends is shown, in the timeline or the
\* UI's list, before it is too old to be asked for, whatever the store and
\* whenever the app restarts, unless the app has stopped this client and started
\* it again.
PeerMessageReachesUser ==
    \A m \in Messages :
        m \in relay ~> \/ m \in Shown(m.scope) \cup ToSet(sink[m.scope])
                       \/ m \in old
                       \/ Abandoned(m.scope)
=============================================================================
