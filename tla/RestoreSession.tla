---------------------------- MODULE RestoreSession ----------------------------
(***************************************************************************)
(* restore() on the rows that TradeDm's handlers work on: the daemon's      *)
(* answer is written order by order and dispute by dispute, without the     *)
(* monotonic guard and without a transaction, while DMs are being handled;  *)
(* then the active rows are tracked.  (TradeIndex has what it does to the   *)
(* trade index counter.)                                                   *)
(*                                                                         *)
(* The store is SQLite.  A row has details (a fiat code) when it was saved   *)
(* from an order payload, which is when it has a kind.                      *)
(***************************************************************************)
EXTENDS TradeDm

CONSTANTS
    Answers,      \* the restore answers the relays may deliver
    MaxRestores,  \* bound on the calls of restore()
    NoAnswer,
    NoItem

\* An answer: the status of each order in it, and the disputed ones, with or
\* without a solver.
InfoType == [order : Orders, status : Statuses]
DisputeInfoType == [order : Orders, solver : BOOLEAN]
AnswerType == [orders : SUBSET InfoType, disputes : SUBSET DisputeInfoType]

ASSUME RestoreAssumption ==
    /\ Backend = "sql"
    /\ Answers \subseteq AnswerType
    /\ \A a \in Answers : \A d \in a.disputes : \E i \in a.orders : i.order = d.order
    /\ MaxRestores \in Nat
    /\ NoAnswer \notin AnswerType
    /\ NoItem \notin InfoType \cup DisputeInfoType

VARIABLES
    step,      \* where restore() is
    answer,    \* the answer it writes
    item,      \* the order or dispute it is at
    known,     \* the row it has read for it
    left,      \* the orders and disputes it has still to write
    restored,  \* the status the last restore left each order in, when no
               \* handler that had read the row before was still to write it
    restores

restoreVars == <<step, answer, item, known, left, restored, restores>>
allVars == <<vars, restoreVars>>

RestoreTypeOK ==
    /\ step \in {"idle", "orders", "write", "disputes", "id", "solver", "track"}
    /\ answer \in Answers \cup {NoAnswer}
    /\ (step = "idle") <=> (answer = NoAnswer)
    /\ item # NoItem => step \in {"write", "id", "solver"} /\ item.order \in Orders
    /\ known \in Row \cup {NoRow}
    /\ answer # NoAnswer => left \subseteq answer.orders \cup answer.disputes
    /\ restored \in [Orders -> Statuses \cup {NoStatus}]
    /\ restores \in 0..MaxRestores

RestoreInit ==
    /\ Init
    /\ step = "idle" /\ answer = NoAnswer
    /\ item = NoItem /\ known = NoRow /\ left = {}
    /\ restored = [o \in Orders |-> NoStatus]
    /\ restores = 0

HasDetails(row) == row # NoRow /\ row.kind # NoKind

\* The row of an order the client has no details of.
RestoredRow(status) ==
    [status |-> status,
     kind   |-> NoKind,
     facts  |-> {"trade_keys"} \cup (IF status \in {"pending", "waiting-maker-bond"}
                                     THEN {"is_mine"} ELSE {})]

Contended(o) == \E m \in Dms : m.order = o /\ Running(m)

Write(o, row) ==
    /\ rows' = IF row = NoRow THEN rows ELSE [rows EXCEPT ![o] = row]
    /\ restored' = [restored EXCEPT ![o] = IF Contended(o) THEN NoStatus ELSE row.status]
    /\ UNCHANGED <<trades, jobs, opened, opening, restarts>>

-----------------------------------------------------------------------------

\* The question is answered, by the live subscription or by one of the events
\* the relay query finds.  A refusal or a time-out ends the call before it has
\* changed a row.
AskRestore(a) ==
    /\ MayStart
    /\ step = "idle" /\ restores < MaxRestores
    /\ restores' = restores + 1
    /\ step' = "orders" /\ answer' = a /\ left' = a.orders
    /\ UNCHANGED <<vars, item, known, restored>>

ReadOrder(info) ==
    /\ step = "orders" /\ info \in left
    /\ item' = info /\ known' = rows[info.order]
    /\ left' = left \ {info}
    /\ step' = "write"
    /\ UNCHANGED <<vars, answer, restored, restores>>

\* An order with details gets the status; any other is saved anew.
WriteOrder ==
    /\ step = "write"
    /\ LET o == item.order
       IN  Write(o, IF HasDetails(known) THEN UpdateOrderStatus(rows[o], item.status)
                                         ELSE SaveOrder(rows[o], RestoredRow(item.status)))
    /\ item' = NoItem /\ known' = NoRow
    /\ step' = "orders"
    /\ UNCHANGED <<answer, left, restores>>

BeginDisputes ==
    /\ step = "orders" /\ left = {}
    /\ step' = "disputes" /\ left' = answer.disputes
    /\ UNCHANGED <<vars, answer, item, known, restored, restores>>

\* getOrder and updateOrderStatus, then the dispute's columns one by one.
MarkDisputed(dispute) ==
    /\ step = "disputes" /\ dispute \in left
    /\ left' = left \ {dispute}
    /\ IF rows[dispute.order] = NoRow
       THEN UNCHANGED <<vars, step, item, restored>>
       ELSE /\ Write(dispute.order, UpdateOrderStatus(rows[dispute.order], "dispute"))
            /\ item' = dispute /\ step' = "id"
    /\ UNCHANGED <<answer, known, restores>>

WriteColumn(fact) ==
    /\ rows' = [rows EXCEPT ![item.order] = UpdateColumns(@, {fact})]
    /\ UNCHANGED <<trades, jobs, opened, opening, restarts>>

WriteDisputeId ==
    /\ step = "id"
    /\ WriteColumn("dispute_id")
    /\ IF item.solver THEN step' = "solver" /\ UNCHANGED item
                      ELSE step' = "disputes" /\ item' = NoItem
    /\ UNCHANGED <<answer, known, left, restored, restores>>

WriteSolver ==
    /\ step = "solver"
    /\ WriteColumn("solver")
    /\ item' = NoItem /\ step' = "disputes"
    /\ UNCHANGED <<answer, known, left, restored, restores>>

BeginTracking ==
    /\ step = "disputes" /\ left = {}
    /\ step' = "track"
    /\ UNCHANGED <<vars, answer, item, known, left, restored, restores>>

\* A restore that leaves the tracking to the next start().
RetrackKnownOnly == trades' = trades \cup {o \in ActiveOrders : HasDetails(rows[o])}

\* The loop of restore() over the active orders.
Retrack == trades' = trades \cup ActiveOrders

FinishRestore ==
    /\ step = "track"
    /\ Retrack
    /\ step' = "idle" /\ answer' = NoAnswer
    /\ UNCHANGED <<rows, jobs, opened, opening, restarts, item, known, left, restored, restores>>

\* A handler's or an opening's step; a plain SQLite store lets none in between.
\* What an opening saves replaces the row, with what a restore wrote of it.
TradeStep ==
    /\ Overlapping \/ step = "idle"
    /\ \/ \E o \in Orders : \/ \E reply \in Openings : OpenTrade(o, reply)
                            \/ SaveOpened(o)
       \/ \E m \in Dms : DeliverDm(m) \/ PersistDm(m) \/ LearnDispute(m)
    /\ restored' = [o \in Orders |-> IF opening'[o] # opening[o] THEN NoStatus ELSE restored[o]]
    /\ UNCHANGED <<step, answer, item, known, left, restores>>

\* A restore that goes on where it was after the process has ended.
RestartAtItem ==
    /\ Restart
    /\ step' = "idle" /\ answer' = NoAnswer
    /\ UNCHANGED <<item, known, left, restored, restores>>

\* The process ends: restore() stays where it was, and its rows as they are.
RestartClient ==
    /\ Restart
    /\ step' = "idle" /\ answer' = NoAnswer
    /\ item' = NoItem /\ known' = NoRow /\ left' = {}
    /\ UNCHANGED <<restored, restores>>

RestoreNext ==
    \/ TradeStep
    \/ \E a \in Answers : AskRestore(a)
    \/ \E i \in left : ReadOrder(i) \/ MarkDisputed(i)
    \/ WriteOrder \/ BeginDisputes \/ WriteDisputeId \/ WriteSolver
    \/ BeginTracking \/ FinishRestore
    \/ RestartClient

RestoreSpec == RestoreInit /\ [][RestoreNext]_allVars
-----------------------------------------------------------------------------
(* Properties.                                                              *)

InFlight(o) == rows[o].status \notin TerminalDmStatuses

\* Every order of the answer that is not over when restore() ends is tracked:
\* restore "rebuilds store + trade routing" (client.ts:853).
RestoreTracksEveryOrder ==
    [][step = "track" /\ step' = "idle" /\ restarts' = restarts =>
          \A i \in answer.orders : InFlight(i.order) => i.order \in trades']_allVars

\* The same, but for the orders of which the client has saved the details and
\* not the trade key: restore takes those for known and gives them a status.
RestoreTracksItsOrders ==
    [][step = "track" /\ step' = "idle" /\ restarts' = restarts =>
          \A i \in answer.orders :
              /\ InFlight(i.order)
              /\ HasDetails(rows[i.order]) => "trade_keys" \in rows[i.order].facts
              => i.order \in trades']_allVars

\* What a restore has written is not undone: DMs of the past, delivered for the
\* first time or again after a restart, leave the order at least in the phase
\* the daemon gave it, also where the row has no kind.  The payout retry is the
\* exception the guard makes; a handler that had read the row before the restore
\* wrote it, or a trade opened since, may write over it.
RestoredStatusKept ==
    \A o \in Orders :
        /\ restored[o] # NoStatus
        /\ ~Contended(o)
        /\ ~\E m \in Dms : m.order = o /\ IsRetry(m)
        => Lifecycle!Phase(restored[o]) =< Lifecycle!Phase(rows[o].status)
=============================================================================
