# A TLA+ model of mostro-ts-client

`mostro-ts-client` is a TypeScript client of the Mostro peer-to-peer market: it
talks to a daemon through Nostr relays, in encrypted direct messages (DMs), and
keeps the orders of its user in SQLite or IndexedDB. These modules model the
parts of it where the order of events, or what one side writes and another
reads, decides whether it is right: the stored status of an order, trade keys,
replies and results, restores, chats, the order book, envelopes, and the
trust-graph extension. TLC checks them on small instances, and TLAPS proves the
properties of order rows and trade keys for every instance.

Paths are relative to the repository; `protocol/` stands for `src/protocol/`.

## 1. The system

### Components

| Component | State | Operations | Hard part | What makes it right |
|---|---|---|---|---|
| Order state machine (`protocol/stateMachine.ts`, `status.ts`, `statusSets.ts`) | none | rank of a status, guard of a transition, status an action implies | phases that come in two orders, one exception to "finished is finished" | the guard never admits a step back, and never refuses a step forward |
| Trade DM applicator (`applicator.ts`) | none of its own; reads and writes an order row | `applyTradeDm`: read, decide, save, dispute, solver | DMs come in any order, all of them again after a restart, and nobody awaits the handler | the stored status only moves forward; what a row has learnt is kept |
| Order store (`store.ts`, `sqlite.ts`, `idb.ts`) | tables users, orders, admin_disputes, chat_messages | save, update, read, wipe | SQLite runs one statement; IndexedDB reads in one transaction and puts in another | a write loses nothing that another has written |
| Trade index counter (`keys.ts`, both stores) | `last_trade_index` of the user row | reserve, upsert | concurrent calls, missing row, crash between steps | every trade gets its own key |
| Session restore (`restore.ts`) | writes user row, order rows, dispute columns | two questions to the daemon, then the rows | old answers on the relays, a crash between rows, live handlers of the same rows | the counter covers every row before it is written |
| DM router and round trip (`dmRouter.ts`, `client.ts:961`, `flow.ts`, `invoice.ts`) | waiters, subscriptions, own event ids | `waitForDm`, `trackOrder`, `handleEvent`, `roundtrip` | replies, notices and refusals on one key, time-outs racing late replies | a call ends on its own reply; a tracked order's DM reaches it |
| Client facade (`client.ts`) | trades, histories, handlers, timers | start, stop, and one method per user action | start while running, stop and start again | trades in flight are tracked again |
| Order book (`orderbook.ts`, `order.ts`) | none (the client polls every 30 s) | fetch, keep the latest event of each order, filter | several relays, several versions, polls that overlap | the newest version wins |
| Peer and dispute chat (`chat.ts`, `chatKeys.ts`, `client.ts:594-851`) | histories, seen ids, subscriptions, stored messages | send, record, hydrate | hydration against live messages | each message once, none lost |
| Wire, transport, verification, encryption, attachments (`wire.ts`, `transport.ts`, `verify.ts`, `encryption.ts`, `blossom.ts`, ...) | none | conversions and cryptography | bounds, validation order | round trips, refusals |
| React store (`src/react`) | the state a UI shows | `upsert...`, `set...` | order of the client's pushes | the UI shows what the client last said |
| Trust-graph extension (`extension/tg`) | cache of attestations and its snapshot, claims, first-seen ledger | collect attestations, score, bind orders, publish | walk, live events, snapshot and own publications write one cache; claims anyone can make | the cache follows the relays, the graph follows the cache; an order is attributed to who signed it |
| Terminal UI, tests, scripts, docker | | development harness | | |

### How they interact

A user action is a method of `MostroClient`. It reserves an index in the store
(when it opens a trade), registers a waiter with the router, publishes a DM, and
loops over the DMs of its key until one ends it; then it keeps the trade key in
`trades`, asks the router to track the order, and saves a row. A DM from a relay
enters at `DmRouter.handleEvent`: it resolves the waiters of its key, then is
given to `handleInboundDm`, which runs `applyTradeDm` on the stored row and is not
awaited. `start()` makes a router and tracks the rows that are not over; the relay
then delivers every stored DM again. `restore()` asks the daemon for the session,
raises the counter, and writes rows. Everything runs in one JavaScript thread:
the only interleaving is at an `await`, and what an `await` lets in depends on
the store.

Chat messages and book events come by subscriptions and polls of their own and
end in histories, the chat table and the UI store. The extension reads the same
relays with a pool of its own; it meets the client in the orders of the book,
whose payment methods carry its tokens.

## 2. Modules

| Module | Models | Kind |
|---|---|---|
| `StatusMachine` | the status graph and what a DM proposes | operators |
| `OrderLifecycle` | what the client promises of a stored status | abstract specification |
| `TradeDm` | rows of orders under DM handlers, openings and restarts | state machine |
| `TradeDmProofs` | proofs about `TradeDm`, and that the order of delivery does not matter | theorems |
| `TradeKeys` | strictly increasing issue of keys | abstract specification |
| `TradeIndex` | the counter and every call that moves it | state machine |
| `TradeIndexProofs` | proofs about `TradeIndex` | theorems |
| `DmRouter` | waiters, replies, routing | state machine |
| `RestoreSession` | restore's rows and columns over those live handlers write (extends `TradeDm`) | state machine |
| `ChatSync` | the two conversations of a trade in relay, store, timeline, UI list | state machine |
| `OrderBook` | from relay events to the listed orders | operators |
| `ClientBook` | start, stop and the pollers of the book | state machine |
| `Messages` | builders, verification, writing and reading of protocol messages | operators |
| `Exchange` | calls from their input to their result, with envelopes and the daemon's answers | state machine |
| `ChatEnvelope` | chat envelopes and files between clients with clocks of their own | state machine |
| `Encryptor` | the field encryptor's cache under concurrent calls | state machine |
| `TrustGraph` | walk, live events, snapshot, publications over one cache | state machine |
| `OrderTrust` | order tokens, claims, first-seen verdicts | state machine |
| `DmRouterProofs`, `RestoreSessionProofs`, `ChatSyncProofs`, `ClientBookProofs`, `TrustGraphProofs` | proofs about those five | theorems |
| `ClientPartsProofs` | proofs about `Encryptor`, `ChatEnvelope`, `OrderTrust`, `Messages` and `Exchange` | theorems |
| `MCTradeDm`, `MCTradeIndex`, `MCDmRouter`, `MCRestoreSession`, `MCChatSync`, `MCClientBook`, `MCTrustGraph`, `MCClientParts` | instances for TLC | |

### StatusMachine and OrderLifecycle

`StatusPhaseRank`, `ShouldApplyStatusTransition`, `ReopensForPayout` and
`InferredStatusFromTradeAction` are the functions of `stateMachine.ts`;
`ResolvedStatusCandidate` is that of `applicator.ts`. `OrderLifecycle` says the
same without ranks, kinds or messages: phases go up, a finished order stays
finished, and the one way back is the retry of a payout (success to
settled-hold-invoice). Which of the two funding phases is first depends on the
kind of the order, so the abstract phase does not tell them apart.

### TradeDm

`rows` is the orders table; a row is a status, a kind and the set of facts it has
learnt (trade key, whose order, counterpart, dispute, solver). `trades` are the
orders the client holds a key of. `jobs[m]` is the handler of DM `m`: `new`, then
`get` (IndexedDB reads in a transaction), `persist` (saveOrder or
updateOrderStatus), `learn` (updateDisputeId or updateSolverChat), `done`.
`opening[o]` is the save `createOrder` or `takeOrder` has in progress.

Two constants say what can interleave. `Backend` is `sql` (a write is one
statement on the current row) or `idb` (read the row, put it back whole later).
`Overlapping` is whether a job may start while another waits for the store.
SQLite without a field encryptor answers within the microtask queue, so it is
FALSE there; with an encryptor, or with IndexedDB, it may be TRUE, and the runs
with IndexedDB and FALSE state what holds when DMs come far enough apart.

`OpenedRow` follows `persistOrder` as it is: `small?.status ?? kind.id ? "pending"
: null` tests first, so an opened row is always `pending`.

### TradeIndex

`user` is the counter in the user row (or no row). A call reserves, publishes,
fails or is answered, saves a row, and (createOrder) raises the counter; a restore
upserts, asks, raises the counter and writes rows. Upserts and IndexedDB
reservations take the steps their code takes. The key is an injective function of
the index (`m/44'/1237'/38383'/0/i`), so the index stands for it. `RelayAnswers` are
the last indexes in answers to restores of earlier installations that the relays
still hold: the questions carry no request id, so any of them serves.

### DmRouter

A call has two waiters (`roundtrip` registers one before it publishes and never
reads it, then one per turn of its loop). `Deliver` is `handleEvent` together with
what the calls whose waiters it resolved do next, which runs before the next DM.
`Succeeds` says which replies make the method return rather than throw. An order
has a trade key of its own here (`NoIndexReused` is what justifies it).
`await pool.publish(...)` awaits an array of promises, hence nothing: a request that
no relay takes is a request the daemon never gets, noticed as a time-out.

### RestoreSession

`step` is where `restore()` is, `answer` the daemon's snapshot it writes, `known` the row it
has read for the order it is at; the rows, handlers and openings are `TradeDm`'s. `restored`
remembers the status a restore left an order in when no handler was in the middle of
it. The module is for the SQLite store with an encryptor, whose awaits let handlers in;
On IndexedDB only the index half is modelled (`TradeIndex`). `HasDetails` (the row has a
`fiat_code`) is the row's kind being known: both are written by the same statements.

### ChatSync

The messages of the counterpart's and of the solver's conversation; `relay` what relays
hold, `store` the chat table, `saving` transactions under way, `history` the timeline in
memory, `seen` is `chatSeen`, `sink` the UI list, `subscribed` is `chatSubscribed` and `open`
the subscriptions the pool still has. `Resume`, `TrackDispute`, `HydrateChat` and
`ReplaceHistory` are the loop of `start()` and `restore()`, split where the store answers
later. `Forget` is a new process.

### OrderBook and ClientBook

`OrderBook` states what the loop of `aggregateLatestOrdersById` leaves of a list of events: of each order
the newest, of two of a second the first, with events of other authors among them. `ClientBook` has `start()` in the stages its awaits make (`info`, `load`, `book`),
`stop()`, a query per poller and the book last shown. A poller's queries do not overlap
(30 s, longer than the pool lets a query take); two pollers' do. The events of one order have
different `created_at`.

### Messages and Exchange

A JSON object is a function from field names; a shape says which fields are always
there, which are null and which are left out when null, and which are read by
position. A key stands for its public key, a conversation key for the two keys it is
made of, a signature for its signer and what is signed. `Exchange` makes one call after
the other (how several wait is `DmRouter`'s), lets the daemon read what was sent with
the same functions, decide and answer, and gives the client DMs late, out of order and
of its own. `Expected`, `Handle...` and `Handle` are the actions each method waits for and
what it makes of the answer.

### ChatEnvelope and Encryptor

Clocks differ by up to `MaxAhead` and an event is delivered at any time, any number
of times, to any conversation. Files have a size; encryption adds `Overhead`; uploads fall
through the servers of the sender, downloads accept those of the reader. `Encryptor` has the
cached pair of salt and key and each call at its awaits; a key is the salt it was
derived with.

### TrustGraph and OrderTrust

`relay` is what each relay holds of each edge, `cache` the `TrustGraph`'s, `saved` the snapshot,
`graph` the edges the last recompute kept, `fetch` the walk of the refresh under way, hop by
hop and relay by relay, `job` the publication under way, `live` the debounce timer. One
refresh at a time is a bound (an interval is longer than the time-outs of a walk), priorities
within a frontier are any choice, `created_at` is a counter. Scores are not modelled.
`OrderTrust` places orders with new, reused, copied and doubled tokens, lets anyone claim
any order, and judges orders in one session, one observation per unit of time. A token is the
term that says who signed what; the nonce is the number of the order it was made for. A copy of
an order's methods carries a valid token if it asks the amounts that were signed (`SignerOf`),
be it a copy of a copy.

## 3. Runs

| Run | Instance | Shows |
|---|---|---|
| `TradeDm_sql` | one sell order, six DMs of a disputed trade, five ways of opening, two restarts | `TypeOK`, `HandledDmsNeverOutrank`, `ImplementsLifecycle`, `FactsNeverLost`, and under fairness `TradeCompletes` |
| `TradeDm_idb_spaced` | a sell and a buy order, a retried payout and a cancellation, IndexedDB, one restart | `ImplementsLifecycle` |
| `Restore_overlap` | an old and a new answer, handlers that interleave, one restart | `RestoredStatusKept`, `DisputeNeverLost`, `RestoreTracksItsOrders` |
| `Restore_unsaved` | a trade of which a DM saved the row without its key | violated: restored and not tracked |
| `TradeIndex_sql` | three concurrent calls, user row, one crash | fresh, increasing indexes; rows below the counter |
| `TradeIndex_idb_spaced` | the same in IndexedDB without overlap, no user row at first | `NoIndexReused` |
| `DmRouter_calls` | one order taken, then invoiced and disputed at once, two look-alike notices, one restart | calls end on their own replies; nothing is missed |
| `ChatSync_stores` | plain SQLite and IndexedDB, a stop and a restart | each message once, timeline and store agree, and under fairness a peer's message is shown |
| `ClientBook_polls` | two starts, one stop, two relays, a taken order, events of another author | one poller, a book that never goes back, and under fairness a taken order leaves it |
| `Trust_refreshes` | two people, one relay, revocations, expiry, one restart, cap and reciprocity | mutual edges within the cap, and under fairness graph follows cache follows relays |
| `Trust_revoked` | a revocation without a hint | violated: the edge stays |
| `ClientParts` | the four parts below, each alone | what is sent is read, results are decisions, envelopes, files, tokens and columns open |

`ClientParts` explores `Exchange` (two calls, one stray DM), `ChatEnvelope` (three parties, one
event, a clock up to two ahead with a skew of one), `OrderTrust` (two makers, two orders, four
sightings) and `Encryptor` (three calls, three salts) in one run; they share no state, and the
variable `part` says which of them moves.

Bounds. Two restarts are enough for a replay of a replay. Six DMs give every kind
of write and every phase; each is delivered in every order. Three calls are enough
for two to race and a third to see the outcome (a reservation, a restore, an upsert
that comes late). Three calls of the router on one key give an opening, a checked
call and an unchecked one that wait at the same time; keys do not share waiters, so a
second order adds nothing. A restore needs one answer older and one newer than the rows.
In a chat, one message of each side and one of the solver meet every hydration. Two pollers are
what two starts can leave. The walk's hops are two, so that a hop can find what the first did
not; one relay is enough because a relay that fails, lags or answers in part is a choice at
each query. Two calls in `Exchange` open an order and follow it; the stray DM comes at any
moment. Every bound is a constant (`MaxRestarts`, `MaxCrashes`, `MaxRestores`, `MaxSessions`,
`MaxStops`, `MaxCalls`, `MaxStrays`, `MaxChats`, `MaxTime`, `MaxOrders`, `MaxSightings`, `MaxSalts`, `MaxAt`).

Deadlock is not checked where a run ends when every DM is handled, every call is over
and the restarts are used up.

Fairness. `TradeDm_sql`: each DM is eventually delivered and its handler ends, a save in
progress ends; a relay keeps the DMs and an `await` on the store returns. `ChatSync_stores`: the
app starts its client, what it awaits ends, and what has arrived is handled (strong
fairness, as a `restore()` may run in between again and again). `ClientBook_polls`: starts go on,
intervals pass and queries end; what a query returns is under no fairness. `Trust_refreshes`: refreshes
begin while the timer runs, their steps end, the debounce timer fires. There is no fairness on
openings, restarts, stops, calls or publications.

### Deviations

The two violation runs state what a line of the repository says of the program;
`PROJECT.json` quotes it under "findings". Others were met in the code:

Orders and keys.
- With IndexedDB (or an encryptor) two handlers of one order interleave and the one that read
  first writes last (`applicator.ts:106-160`, not awaited at `client.ts:206`): a finished trade goes
  back to active, a dispute id is erased; the comment at `applicator.ts:113` says the saved row never
  regresses. `Overlapping = FALSE` in the properties of `TradeDm` stands for what is missing.
- `reserveNextTradeIndex` updates a user row nothing has created before the first `createOrder`
  succeeded (`sqlite.ts:153`): until then every call gets index 2. In IndexedDB two concurrent
  reservations read one counter (`idb.ts:157`; the comment there says they cannot).
- Restore questions carry no request id: an answer to an earlier restore serves (`restore.ts:230`)
  and leaves the counter below indexes the daemon has seen.
- `sendTradeAction` and `cancelOrder` return normally on a cant-do (`client.ts:512`); `openDispute`,
  `cancelOrder` and `sendTradeAction` do not look at the request id.
- A call that timed out may still open its order at the daemon: the client has no trade for it,
  and the retry reserves another index. `sendTradeAction` announces a next-trade key
  (`client.ts:498-507`) that the client never tracks.
- `persistOrder`: `small?.status ?? kind.id ? "pending" : null` tests first: always `pending`.
- Waiters of calls that timed out stay; `MAX_PENDING_WAITERS` (`dmRouter.ts:29`) is not applied.
  `sendDm` ignores its `pow`.
- `start()` takes whichever info event a relay returns: an old one of protocol 1 makes the router
  listen for kind 1059 while requests are sent as kind 14 (`client.ts:190-205`).

Messages and chat.
- `takeOrder`'s bond invoice has no fallback for its amount, `createOrder`'s has. An `add-invoice`
  that arrives carries an order although `verifyMessageKind` demands a payment request: what arrives
  is not verified.
- The sender of a chat message does not test the 64 KiB the reader does. A file within 28 bytes of the
  limit can be sent and not downloaded. A message of a clock more than 60 s ahead is dropped until
  the client subscribes again.
- `handleInboundDm` pushes `status: null` and `disputeId: null` into the UI store for a DM that
  changes nothing (`client.ts:905-910`).
- `stop()` keeps `chatSubscribed`: the same client never subscribes again (`Abandoned` in `ChatSync`).
- Two first uses of the encryptor side by side derive two keys, though its header says "Derive once".

Trust graph.
- A refresh and a live event write the cache without comparing `created_at` (`api.ts:332`, `592`);
  `graph.ts:89` says the latest wins. The cap sorts revisions by weight, so that a revocation is the
  first to be cut; a weight floor drops revocations; a refresh under way brings back an edge that was
  revoked meanwhile. A walk that ends at its hop bound is not reported as truncated.
- Births are not persisted, and `noteOrder` before the snapshot is loaded overwrites the ledger
  (`api.ts:582`, `296`). `IdentityIndex` never forgets a revoked claim, and annotation does not ask
  the first-seen ledger.
- `computePpr` starts from uniform mass (`ppr.ts:71`), so what the root cannot reach keeps a small
  score, while `join.ts:87` says it is null.

## 4. Proofs

`TradeDmProofs` assumes `NoOverlap` (`Overlapping = FALSE`) and the assumptions on the
constants, for any orders, DMs, openings, backend and number of restarts:

- `TypeCorrect`, `LifecycleImplemented` (`Spec => ImplementsLifecycle`: initial states map to
  initial states, every step to an abstract step or a stutter) and
  `FactsNeverLostHolds`.
- The properties are not inductive: a handler in the middle could write anything. `IInv`
  adds that at most one job is between its steps (`Exclusive`), that what it read is what
  the row holds (`ReadsAreFresh`), that the write ahead of it is one the guard allowed
  (`WritesAreMeant`), and that the row of an order is first written by its opening
  (`OpeningComesFirst`, `HandlersOfOpened`), which is why `pending` never overwrites a later
  status. `GuardRespectsLifecycle` is the lemma about the pure guard: whatever it admits,
  the abstract lifecycle admits.

Its second part adds `HandledDmsNeverOutrankHolds` under the same assumption: the row of an
order saved with its kind is at least in the phase of every DM handled in the session, in any
order of delivery. A DM that was refused was behind the row, one that was applied is where the
row is, and only the retry of a payout takes the row back. `OInv` carries what this needs beside
`IInv`: the kind is never lost (`KindsKnown`), a handler runs only for a tracked order whose
opening has ended (`StartedWhenTracked`), and such an order has a row (`TrackedHaveRows`).

`TradeIndexProofs` assumes `SqlWithUserRow` (an SQL store, a user row), for any number of
calls, crashes and earlier indexes:

- `TypeCorrect`, `NoIndexReusedHolds`, `CounterCoversRowsHolds`, `TradeKeysImplemented`, and
  with `NoOldAnswers` (no stored answer is older than the daemon's last index)
  `FreshAfterRestoreHolds`.
- `IInv` adds that every index given, published or stored and every upsert in progress is at
  or below the counter once its turn has come (`CounterBounds`, `RestoreBounds`), that calls
  are where their operation can be (`CallsConsistent`), and that a restore past its check has
  raised the counter to what the daemon knew (`RestoreReaches`). Overlapping calls are
  covered: in SQL every access is one step.

`DmRouterProofs`, for any calls on any orders, any DMs the daemon sends of its own accord and any
number of restarts: `TypeCorrect`, `ReturnsOnOwnAnswerHolds`, `TrackedWasOpenedHolds`,
`TimedOutUnansweredHolds`, `DmsReachTheirOrderHolds`. A reply is the call's own because its id is,
and the ids were decided (`AnswersAreDecided`); a reply cannot slip past a call because the waiter of
its loop is there whenever the call waits (`LoopAwaits`) and what it heard so far did not
match (`HeardInVain`); a DM of a tracked order that was not routed arrived while its order was
being opened (`SubscribedWhenOpening`, `OpeningHears`).

`RestoreSessionProofs`, with an SQL store, for any answers that list the orders of their disputes,
any DMs and openings, overlapping or not: `RestoreTypeCorrect`, `RestoredStatusKeptHolds`, and the action
properties `DisputeNeverLostHolds` and `RestoreTracksItsOrdersHolds`. Nothing excludes anything
here, so `RInv` says what each write keeps of the row it meets: a row that was read stays
(`KnownIsThere`), a row without a kind has its trade key (`KindlessRowsHaveKeys`), the orders of the
answer have rows but for those still to be written (`AnsweredHaveRows`), and a handler about to write
has read the order where the last restore left it, or further (`RestoredKept`).

`ChatSyncProofs`, for any messages, the three stores, any number of stops and restarts: `TypeCorrect`,
`NoMessageTwiceHolds`, `HistoryMatchesStoreHolds`. `CInv` adds that what is in a timeline or list is
in `chatSeen` (`SeenOnce`), which is what keeps it from being added again, that it is stored or being
stored and a hydration shows nothing else (`ShownIsSaved`), and that plain SQLite is never between two
steps (`SqliteInStep`). `ChronologicalSorts` is the lemma about the order of a timeline.

`TrustGraphProofs`, for any finite sets of people and edges, relays and what they answer, cap, budgets and
restarts: `TypeCorrect` (its `fetch` part says that a walk stays in its budgets) and
`MutualWithinCapHolds`. Two lemmas carry it: the strongest edges of a truster can be taken
(`StrongestCaps`, by the least-number principle, as `TLAPS` has no induction to offer), and the graph
made of them keeps to the cap and to reciprocity (`CappedAdjacencyIs`). `TInv` adds what the walk is
between its hops and that the cache and the snapshot hold revisions.

`ClientPartsProofs`, for any number of calls, parties, servers, events, identities and orders:
- `MessageRoundTrip`: what a shape writes it reads (`ReadsWritten`), first for an order inside a payload, then
  for the payload, then for the message. The fields are strings, numbers, booleans or null, and an
  order in the payloads that hold one.
- `RequestArrivesIntactHolds`, `ResultMatchesDecisionHolds`, for any trade keys and amounts, any number
  of calls and any DMs the daemon sends of its own accord. Every message that is built is a verified one with
  its call's request id (`BuildIs`), so the daemon has it as it was (`EventRead`), and a DM is an answer
  made from a decision on a call, or reads as having no request id (`DmsAreSent`), also when its payload
  is of a later protocol (`NoticesHaveNoId`). A call that checks takes only its own id (`OthersRefused`)
  and makes of the answer what was decided (`AnswerHandled`). `ExchangeInv` adds that what a later call
  says of its order was decided on an earlier one with the same trade key (`CallsFollow`), which it
  has from the orders the client holds (`HeldAreDecided`).
- `EnvelopesOpenHolds`: every pair of a salt and a key there ever is, cached or stored, is of a
  salt and the key derived with it, and a call on its way to encrypt finds some such pair (`EncryptorInv`).
- `ChatReadByPeerHolds`, `AttachmentOpensHolds`: a conversation key is the pair of its parties, so it
  opens what was written under it and nothing else; a file that was sent stays on a server its
  reader can ask (`ChatInv`).
- `AnnotationMatchesSignerHolds`, `FirstObservedWinsHolds`. A token names the order it was made for, and
  an order with one token has the methods of that order (`AsMade`): its binding verifies for who
  signed it if it has the amounts too, and for nobody otherwise (`VerifiesSigner`), from the tags
  as from the order read from them (`SmallOrderAgrees`). For the verdicts `TrustInv` turns
  observations into births: a birth is the first sighting (`BornWhenSeen`), a token is honoured for
  an order that bears it since that order's birth (`HonouredSinceBirth`), and for one born no later
  than any that was judged (`JudgedAreNotFirst`).

`ClientBookProofs`, for any finite sets of orders, relays and noise, any revisions of increasing times,
any number of starts and stops: `TypeCorrect` (only what the daemon published as pending is
listed), `OnePollerHolds`, `BookAdvancesHolds`. `LifeInv` says what a `start()` has set up at each of its
awaits when no other meets it. `QueryShows` is the lemma about the aggregation: of each order a query
shows a revision that one of the relays that answered had, and none of them had a newer one,
whatever the order of the events. So what the book and the queries under way show was at some relay
before (`AllGenuine`), and a full query of the running poller is ahead of it (`RunningIsAhead`).

The theorems assume of the constants what the modules' named `ASSUME`s say: types, values
that are not of a type (`Nobody`, `NoDm`, ...), for the trust graph finite sets, and for the messages
that a literal such as "cancel" is a string, which TLC knows and the provers do not. Those that
assume more of the program say so above (`NoOverlap`, `SqlWithUserRow`, `NoOldAnswers`).

Only model-checked:
- `TradeCompletes` and the other liveness properties: fairness is out of the prover's reach.
- `TakenOrderLeavesBook` of `ClientBook`, which needs fairness.
- `RestoreTracksEveryOrder` and `RevocationReachesGraph`: the code breaks them, as their runs show.
- IndexedDB reservations, and of `TradeDm` with overlapping handlers what `RestoreSessionProofs` does
  not say.

## 5. Not modelled

Ciphers, hashes and signatures are terms that open for their keys. HTTP (`net.ts`, LNURL), bolt11
amounts and expiry, instance info: parsing without state. Gift wrap: named, not implemented by the
code. PageRank, scores, badges and filters of the extension: floating point and read-only
queries. Handlers the app registers, `fetchRating`, the protocol-message history: they only
pass on. Admin disputes table: no writer. `replayTradeDms`: exported, called by nothing in the
client. Terminal UI, simulations, tests, scripts, docker: not part of the library.

## 6. Plan

1. (done) `StatusMachine`, `OrderLifecycle`, `TradeDm`; `TradeKeys`, `TradeIndex`; their proofs.
2. (done) `DmRouter`, `RestoreSession`, `ChatSync`, `OrderBook`, `ClientBook`.
3. (done) `Messages`, `Exchange`, `ChatEnvelope`, `Encryptor`.
4. (done) `TrustGraph`, `OrderTrust`.
5. (done) Proofs about `DmRouter`, `RestoreSession`, `ChatSync`, `TrustGraph`, `Encryptor`,
   `ChatEnvelope`, `OrderTrust`, `ClientBook`, `Messages`, `Exchange`.
6. Proofs about the IndexedDB stores (`TradeIndex_idb_spaced`, `TradeDm_idb_spaced`), whose accesses are
   several steps.
