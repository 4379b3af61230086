------------------------------- MODULE TradeDm -------------------------------
(***************************************************************************)
(* Inbound trade DMs applied to the stored rows of orders.                  *)
(*                                                                         *)
(* The relay delivers the DMs of a tracked order in any order, each once    *)
(* per session, and all of them again after a restart.  The router calls    *)
(* handleInboundDm without awaiting it, so each DM is a job of its own: it  *)
(* reads the row, decides the status, writes the row, then writes the       *)
(* dispute or solver columns.  Opening a trade (createOrder, takeOrder)     *)
(* writes the same row.                                                     *)
(*                                                                         *)
(* Two things decide what can go between two steps of a job.  Backend: an   *)
(* SQL store changes the columns it names in one statement, IndexedDB reads *)
(* the row in one transaction and puts it back whole in another.            *)
(* Overlapping: whether another job may start while one waits for the       *)
(* store.  SQLite without a field encryptor answers within the microtask    *)
(* queue, so its jobs never overlap; every other combination may.           *)
(***************************************************************************)
EXTENDS StatusMachine

CONSTANTS
    Orders,       \* order ids
    OrderKind,    \* the kind the daemon gives each order
    Dms,          \* the DMs the daemon ever sends
    Openings,     \* the replies that may open a trade (below)
    Backend,      \* "sql" or "idb"
    Overlapping,  \* may jobs interleave at their awaits?
    MaxRestarts,  \* bound on restarts
    NoRow         \* an absent row

\* How createOrder and takeOrder are answered.
AllOpenings == {"new-order", "maker-bond", "add-invoice", "hold-invoice", "taker-bond"}

\* The answers after which the client saves a row with the order's own kind,
\* with no kind, or saves nothing.
SavesKind == {"new-order", "add-invoice"}
SavesNoKind == {"maker-bond"}
NotOpened == "not-opened"

\* What a row may have learnt besides its status.
Facts == {"trade_keys", "is_mine", "counterparty", "dispute_id", "solver"}
\* saveOrder leaves these columns alone.
SideFacts == {"dispute_id", "solver"}

Row == [status : Statuses \cup {NoStatus},
        kind   : Kinds \cup {NoKind},
        facts  : SUBSET Facts]

\* A DM: the order it is routed to, its action, whether its payload carries
\* an order snapshot with an id (one without is read for its status and not
\* saved), the snapshot's status, whether the snapshot names both parties,
\* and what it tells of a dispute.  at tells apart equal DMs.
DmType == [at       : Nat,
           order    : Orders,
           action   : STRING,
           snapshot : BOOLEAN,
           status   : Statuses \cup {NoStatus},
           parties  : BOOLEAN,
           tells    : SUBSET SideFacts]

ASSUME TradeDmAssumption ==
    /\ OrderKind \in [Orders -> Kinds]
    /\ Dms \subseteq DmType
    /\ \A m \in Dms : m.snapshot \/ m.status # NoStatus => m.action \in SnapshotActions
    /\ Openings \subseteq AllOpenings
    /\ Backend \in {"sql", "idb"}
    /\ Overlapping \in BOOLEAN
    /\ MaxRestarts \in Nat
    /\ NoRow \notin Row

VARIABLES
    rows,      \* the orders table
    trades,    \* orders whose trade key the client holds and the router tracks
    jobs,      \* the handler of each DM in this session
    opened,    \* how each order was opened by this client, if it was
    opening,   \* the save of a trade being opened
    restarts

vars == <<rows, trades, jobs, opened, opening, restarts>>

Steps == {"new", "get", "persist", "learn", "done"}

\* base is what a read-then-put has read: NoRow also before it has read.
JobType == [pc : Steps, existing : Row \cup {NoRow}, read : BOOLEAN, base : Row \cup {NoRow}]
OpeningType == [pc : {"idle", "save"}, read : BOOLEAN, base : Row \cup {NoRow}]

Fresh == [pc |-> "new", existing |-> NoRow, read |-> FALSE, base |-> NoRow]
IdleOpening == [pc |-> "idle", read |-> FALSE, base |-> NoRow]

TypeOK ==
    /\ rows \in [Orders -> Row \cup {NoRow}]
    /\ trades \subseteq Orders
    /\ jobs \in [Dms -> JobType]
    /\ opened \in [Orders -> Openings \cup {NotOpened}]
    /\ opening \in [Orders -> OpeningType]
    /\ restarts \in 0..MaxRestarts

Running(m) == jobs[m].pc \notin {"new", "done"}
Opening(o) == opening[o].pc # "idle"
Idle == (\A m \in Dms : ~Running(m)) /\ (\A o \in Orders : ~Opening(o))
MayStart == Overlapping \/ Idle

-----------------------------------------------------------------------------
(* The store.  Each operator gives the new row from the row it merges with. *)

\* A save that also clears the columns it does not name.
SaveOrderClearing(old, input) == input

SaveOrder(old, input) ==
    [input EXCEPT !.facts =
        @ \cup (IF old = NoRow THEN {} ELSE old.facts \cap SideFacts)]

UpdateOrderStatus(old, s) == IF old = NoRow THEN NoRow ELSE [old EXCEPT !.status = s]

\* updateDisputeId and updateSolverChat.
UpdateColumns(old, facts) ==
    IF old = NoRow THEN NoRow ELSE [old EXCEPT !.facts = @ \cup facts]

-----------------------------------------------------------------------------
(* applyTradeDm, from the row it has read (existing).                       *)

Candidate(m) == ResolvedStatusCandidate(m.action, m.status)

CurrentStatus(existing) == IF existing = NoRow THEN NoStatus ELSE existing.status
CurrentKind(existing) == IF existing = NoRow THEN NoKind ELSE existing.kind

\* Every candidate is applied: the monotonic guard is left out.
AppliesAlways(m, existing) == Candidate(m)

\* The status the DM applies, NoStatus when the guard refuses it.
AppliedStatus(m, existing) ==
    IF /\ Candidate(m) # NoStatus
       /\ ShouldApplyStatusTransition(CurrentStatus(existing), Candidate(m),
                                      CurrentKind(existing), m.action)
    THEN Candidate(m)
    ELSE NoStatus

SnapshotRow(m, existing) ==
    [status |-> IF AppliedStatus(m, existing) # NoStatus
                THEN AppliedStatus(m, existing)
                ELSE CurrentStatus(existing),
     kind   |-> OrderKind[m.order],
     facts  |-> (IF existing = NoRow THEN {} ELSE existing.facts \ SideFacts)
                \cup (IF m.parties THEN {"counterparty"} ELSE {})]

\* The row as the persist step leaves it, merged with old.
Persisted(m, existing, old) ==
    IF m.snapshot THEN SaveOrder(old, SnapshotRow(m, existing))
                  ELSE UpdateOrderStatus(old, AppliedStatus(m, existing))

LearnStep(m) == IF m.tells = {} THEN "done" ELSE "learn"

FirstStep(m, existing) ==
    IF m.snapshot \/ AppliedStatus(m, existing) # NoStatus THEN "persist" ELSE LearnStep(m)

-----------------------------------------------------------------------------

Init ==
    /\ rows = [o \in Orders |-> NoRow]
    /\ trades = {}
    /\ jobs = [m \in Dms |-> Fresh]
    /\ opened = [o \in Orders |-> NotOpened]
    /\ opening = [o \in Orders |-> IdleOpening]
    /\ restarts = 0

\* createOrder or takeOrder got its reply: the trade key is kept, the router
\* tracks it, and the row is saved unless the reply was a taker's invoice.
OpenTrade(o, reply) ==
    /\ MayStart
    /\ opened[o] = NotOpened
    /\ opened' = [opened EXCEPT ![o] = reply]
    /\ trades' = trades \cup {o}
    /\ opening' = IF reply \in SavesKind \cup SavesNoKind
                  THEN [opening EXCEPT ![o] = [IdleOpening EXCEPT !.pc = "save"]]
                  ELSE opening
    /\ UNCHANGED <<rows, jobs, restarts>>

\* A save that stores the action of the reply where the status belongs.
OpenedRowNamedByReply(o) ==
    [status |-> opened[o],
     kind   |-> IF opened[o] \in SavesKind THEN OrderKind[o] ELSE NoKind,
     facts  |-> {"trade_keys"}]

\* persistOrder.  The status saved is always "pending", whatever the reply
\* says: `small?.status ?? kind.id ? "pending" : null` takes the test first.
OpenedRow(o) ==
    [status |-> "pending",
     kind   |-> IF opened[o] \in SavesKind THEN OrderKind[o] ELSE NoKind,
     facts  |-> {"trade_keys"} \cup (IF opened[o] = "add-invoice" THEN {} ELSE {"is_mine"})]

ReadForOpening(o) ==
    /\ Backend = "idb"
    /\ Opening(o)
    /\ ~opening[o].read
    /\ opening' = [opening EXCEPT ![o].read = TRUE, ![o].base = rows[o]]
    /\ UNCHANGED <<rows, trades, jobs, opened, restarts>>

SaveOpened(o) ==
    /\ Opening(o)
    /\ Backend = "idb" => opening[o].read
    /\ rows' = [rows EXCEPT ![o] =
                  SaveOrder(IF Backend = "idb" THEN opening[o].base ELSE rows[o], OpenedRow(o))]
    /\ opening' = [opening EXCEPT ![o] = IdleOpening]
    /\ UNCHANGED <<trades, jobs, opened, restarts>>

-----------------------------------------------------------------------------

\* A DM of a tracked order arrives and its handler runs to its first await.
\* An SQL store reads the row in the call, IndexedDB in a transaction.
DeliverDm(m) ==
    /\ MayStart
    /\ m.order \in trades
    /\ jobs[m].pc = "new"
    /\ jobs' = [jobs EXCEPT ![m] =
                  IF Backend = "idb"
                  THEN [Fresh EXCEPT !.pc = "get"]
                  ELSE [Fresh EXCEPT !.pc = FirstStep(m, rows[m.order]),
                                     !.existing = rows[m.order]]]
    /\ UNCHANGED <<rows, trades, opened, opening, restarts>>

GetOrder(m) ==
    /\ jobs[m].pc = "get"
    /\ jobs' = [jobs EXCEPT ![m].pc = FirstStep(m, rows[m.order]),
                            ![m].existing = rows[m.order]]
    /\ UNCHANGED <<rows, trades, opened, opening, restarts>>

\* The first transaction of saveOrder, updateOrderStatus, updateDisputeId and
\* updateSolverChat in IndexedDB.
ReadForPut(m) ==
    /\ Backend = "idb"
    /\ jobs[m].pc \in {"persist", "learn"}
    /\ ~jobs[m].read
    /\ jobs' = [jobs EXCEPT ![m].read = TRUE, ![m].base = rows[m.order]]
    /\ UNCHANGED <<rows, trades, opened, opening, restarts>>

\* The row a write merges with: the current one in SQL, the one that was read
\* in IndexedDB.
MergedWith(m) == IF Backend = "idb" THEN jobs[m].base ELSE rows[m.order]

\* An absent row is left absent, and IndexedDB then has nothing to put.
Put(m, row) == IF row = NoRow THEN rows ELSE [rows EXCEPT ![m.order] = row]

PersistDm(m) ==
    /\ jobs[m].pc = "persist"
    /\ Backend = "idb" => jobs[m].read
    /\ rows' = Put(m, Persisted(m, jobs[m].existing, MergedWith(m)))
    /\ jobs' = [jobs EXCEPT ![m] = [Fresh EXCEPT !.pc = LearnStep(m)]]
    /\ UNCHANGED <<trades, opened, opening, restarts>>

LearnDispute(m) ==
    /\ jobs[m].pc = "learn"
    /\ Backend = "idb" => jobs[m].read
    /\ rows' = Put(m, UpdateColumns(MergedWith(m), m.tells))
    /\ jobs' = [jobs EXCEPT ![m] = [Fresh EXCEPT !.pc = "done"]]
    /\ UNCHANGED <<trades, opened, opening, restarts>>

-----------------------------------------------------------------------------

\* getActiveOrders: the rows start() tracks again.
ActiveOrders ==
    {o \in Orders : /\ rows[o] # NoRow
                    /\ "trade_keys" \in rows[o].facts
                    /\ rows[o].status \notin TerminalDmStatuses}

\* The process ends, by stop() or a crash, and starts again on the same store;
\* the new subscription gets every stored DM again.
Restart ==
    /\ restarts < MaxRestarts
    /\ restarts' = restarts + 1
    /\ trades' = ActiveOrders
    /\ jobs' = [m \in Dms |-> Fresh]
    /\ opening' = [o \in Orders |-> IdleOpening]
    /\ UNCHANGED <<rows, opened>>

Next ==
    \/ \E o \in Orders : \/ \E reply \in Openings : OpenTrade(o, reply)
                         \/ ReadForOpening(o)
                         \/ SaveOpened(o)
    \/ \E m \in Dms : \/ DeliverDm(m)
                      \/ GetOrder(m)
                      \/ ReadForPut(m)
                      \/ PersistDm(m)
                      \/ LearnDispute(m)
    \/ Restart

Spec == Init /\ [][Next]_vars

\* A relay delivers what it stores, and an await on the store ends.
Fairness ==
    /\ \A m \in Dms : WF_vars(DeliverDm(m) \/ GetOrder(m) \/ ReadForPut(m)
                              \/ PersistDm(m) \/ LearnDispute(m))
    /\ \A o \in Orders : WF_vars(ReadForOpening(o) \/ SaveOpened(o))

FairSpec == Spec /\ Fairness
-----------------------------------------------------------------------------
(* Properties.                                                              *)

StoredStatus == [o \in Orders |-> CurrentStatus(rows[o])]

Lifecycle == INSTANCE OrderLifecycle WITH status <- StoredStatus

\* The stored status of every order behaves like the abstract lifecycle: no
\* order of delivery, replay or restart takes a saved row backwards.
\* (applyTradeDm's guard and the order of its read and its write.)
ImplementsLifecycle == Lifecycle!Spec

\* What a row has learnt - its trade key, whose order it is, the counterpart,
\* the dispute, the solver - survives every later write of the row, although
\* applyTradeDm writes trade_keys, is_mine and counterparty_pubkey back from
\* the row it read before.
FactsNeverLost ==
    [][\A o \in Orders : rows[o] # NoRow =>
          rows'[o] # NoRow /\ rows[o].facts \subseteq rows'[o].facts]_vars

\* The dispute id and the solver of a row survive every later write of it.
\* (updateDisputeId, updateSolverChat against a concurrent saveOrder.)
DisputeNeverLost ==
    [][\A o \in Orders : rows[o] # NoRow =>
          rows[o].facts \cap SideFacts \subseteq rows'[o].facts]_vars

IsRetry(m) == m.action = "add-invoice" /\ Candidate(m) = "settled-hold-invoice"

\* The status of m has been decided and written.
Handled(m) == jobs[m].pc \in {"learn", "done"}

\* The order in which the DMs of a session are handled does not matter: once
\* an order's row was saved with its kind, its status is at least in the phase
\* of every DM already handled.  A payout retry is the exception the guard
\* makes.
HandledDmsNeverOutrank ==
    \A m \in Dms :
        /\ Handled(m)
        /\ opened[m.order] \in SavesKind
        /\ rows[m.order] # NoRow
        /\ ~\E r \in Dms : r.order = m.order /\ IsRetry(r) /\ Handled(r)
        => \/ IsRetry(m)
           \/ Candidate(m) = NoStatus
           \/ Lifecycle!Phase(Candidate(m)) =< Lifecycle!Phase(rows[m.order].status)

EndsTrade(m) == Candidate(m) \in TerminalStatuses

\* A trade whose row is saved and whose last DM is stored by the relay gets
\* to a terminal status, whatever the order of delivery and whenever the
\* process restarts.
TradeCompletes ==
    \A o \in Orders :
        (/\ rows[o] # NoRow
         /\ "trade_keys" \in rows[o].facts
         /\ \E m \in Dms : m.order = o /\ EndsTrade(m))
        ~> CurrentStatus(rows[o]) \in TerminalStatuses
=============================================================================
