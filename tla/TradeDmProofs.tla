---------------------------- MODULE TradeDmProofs ----------------------------
(***************************************************************************)
(* Theorems about TradeDm when handlers do not overlap, for every set of    *)
(* orders and DMs, every order of delivery, either store and any number of  *)
(* restarts.  The argument: while a handler runs nothing else writes, so    *)
(* what it read is still the row it writes, and the guard it evaluated      *)
(* before the write still speaks of that row.                               *)
(***************************************************************************)
EXTENDS TradeDm, TLAPS

NoOverlap == Overlapping = FALSE

\* At most one handler or opening is between its first and last step.
Exclusive ==
    /\ \A m, n \in Dms : Running(m) /\ Running(n) => m = n
    /\ \A o, p \in Orders : Opening(o) /\ Opening(p) => o = p
    /\ \A m \in Dms, o \in Orders : ~(Running(m) /\ Opening(o))

\* What a handler has read is still the row.
ReadsAreFresh ==
    /\ \A m \in Dms :
          /\ jobs[m].pc = "persist" => jobs[m].existing = rows[m.order]
          /\ Running(m) /\ jobs[m].read => jobs[m].base = rows[m.order]
    /\ \A o \in Orders : Opening(o) /\ opening[o].read => opening[o].base = rows[o]

\* A handler that is about to write the order has something to write.
WritesAreMeant ==
    \A m \in Dms :
        jobs[m].pc = "persist" => m.snapshot \/ AppliedStatus(m, jobs[m].existing) # NoStatus

\* An order has no row before its opening is saved.
OpeningComesFirst ==
    \A o \in Orders :
        /\ opened[o] = NotOpened => o \notin trades /\ rows[o] = NoRow
        /\ Opening(o) => rows[o] = NoRow /\ opened[o] # NotOpened

\* Handlers run for orders this client has opened.
HandlersOfOpened ==
    \A m \in Dms : Running(m) => opened[m.order] # NotOpened

\* The inductive invariant.
IInv ==
    /\ TypeOK
    /\ Exclusive
    /\ ReadsAreFresh
    /\ WritesAreMeant
    /\ OpeningComesFirst
    /\ HandlersOfOpened

-----------------------------------------------------------------------------
(* The guard.                                                               *)

\* The actor-aware guard lets through nothing the lifecycle forbids, whatever
\* kind the row has and whatever the action.
LEMMA GuardRespectsLifecycle ==
    ASSUME NEW cur \in Statuses \cup {NoStatus}, NEW cand \in Statuses,
           NEW kind \in Kinds \cup {NoKind}, NEW action,
           ShouldApplyStatusTransition(cur, cand, kind, action)
    PROVE  cur = cand \/ Lifecycle!CanFollow(cur, cand)
<1>1. CASE cur = NoStatus
  BY <1>1 DEF NoStatus, Statuses, TerminalStatuses, LiveStatuses, Lifecycle!CanFollow,
              Lifecycle!Phase, Lifecycle!TerminalStatuses, Lifecycle!NoStatus
<1>2. CASE ReopensForPayout(cur, cand, action)
  BY <1>2 DEF ReopensForPayout, Lifecycle!CanFollow, Lifecycle!PayoutRetried
<1>3. CASE /\ cur \in LiveStatuses
           /\ cand \in TerminalStatuses
  BY <1>3 DEF TerminalStatuses, LiveStatuses, Lifecycle!CanFollow, Lifecycle!Phase,
              Lifecycle!TerminalStatuses, Lifecycle!NoStatus
<1>4. CASE /\ cur \in LiveStatuses
           /\ cand \in LiveStatuses
           /\ StatusPhaseRank(cur, kind) # NoRank
           /\ StatusPhaseRank(cand, kind) >= StatusPhaseRank(cur, kind)
  <2>1. kind \in {"buy", "sell", "null"}
    BY DEF Kinds, NoKind
  <2>2. CASE cur \in {"pending", "waiting-taker-bond", "waiting-maker-bond",
                      "waiting-payment", "waiting-buyer-invoice"}
    BY <1>4, <2>1, <2>2 DEF StatusPhaseRank, NoRank, LiveStatuses, Lifecycle!CanFollow,
       Lifecycle!Phase, Lifecycle!TerminalStatuses, Lifecycle!NoStatus
  <2>3. CASE cur \in {"in-progress", "active", "fiat-sent", "settled-hold-invoice", "dispute"}
    BY <1>4, <2>1, <2>3 DEF StatusPhaseRank, NoRank, LiveStatuses, Lifecycle!CanFollow,
       Lifecycle!Phase, Lifecycle!TerminalStatuses, Lifecycle!NoStatus
  <2>. QED  BY <1>4, <2>2, <2>3 DEF LiveStatuses
<1>. QED  BY <1>1, <1>2, <1>3, <1>4 DEF ShouldApplyStatusTransition, Statuses

\* A DM proposes a status of the table or none.
LEMMA CandidateType ==
    ASSUME NEW m \in Dms
    PROVE  Candidate(m) \in Statuses \cup {NoStatus}
<1>1. m.status \in Statuses \cup {NoStatus}
  BY TradeDmAssumption DEF DmType
<1>2. InferredStatusFromTradeAction(m.action) \in Statuses \cup {NoStatus}
  BY DEF InferredStatusFromTradeAction, Statuses, TerminalStatuses, LiveStatuses
<1>. QED  BY <1>1, <1>2 DEF Candidate, ResolvedStatusCandidate

\* What a DM applies is a step of the lifecycle from the row it was judged on.
LEMMA AppliedStatusIsAllowed ==
    ASSUME NEW m \in Dms, NEW row \in Row \cup {NoRow}
    PROVE  /\ AppliedStatus(m, row) \in Statuses \cup {NoStatus}
           /\ AppliedStatus(m, row) # NoStatus =>
                 \/ AppliedStatus(m, row) = CurrentStatus(row)
                 \/ Lifecycle!CanFollow(CurrentStatus(row), AppliedStatus(m, row))
<1>1. CurrentStatus(row) \in Statuses \cup {NoStatus} /\ CurrentKind(row) \in Kinds \cup {NoKind}
  BY TradeDmAssumption DEF Row, CurrentStatus, CurrentKind
<1>2. Candidate(m) \in Statuses \cup {NoStatus}
  BY CandidateType
<1>3. CASE AppliedStatus(m, row) = NoStatus
  BY <1>3
<1>4. CASE AppliedStatus(m, row) # NoStatus
  <2>1. /\ AppliedStatus(m, row) = Candidate(m)
        /\ ShouldApplyStatusTransition(CurrentStatus(row), Candidate(m),
                                       CurrentKind(row), m.action)
    BY <1>4 DEF AppliedStatus
  <2>2. Candidate(m) \in Statuses
    BY <1>2, <1>4, <2>1
  <2>. QED  BY <1>1, <2>1, <2>2, GuardRespectsLifecycle
<1>. QED  BY <1>3, <1>4

-----------------------------------------------------------------------------
(* The writes.                                                              *)

\* A write of an order's row that a lifecycle and its facts survive.
GoodWrite(old, new) ==
    /\ new \in Row
    /\ \/ new.status = CurrentStatus(old)
       \/ new.status \in Statuses /\ Lifecycle!CanFollow(CurrentStatus(old), new.status)
    /\ old # NoRow => old.facts \subseteq new.facts

\* The write of a DM that was judged on the row it merges with is a good one.
LEMMA PersistIsGood ==
    ASSUME NEW m \in Dms, NEW row \in Row \cup {NoRow},
           m.snapshot \/ AppliedStatus(m, row) # NoStatus
    PROVE  \/ Persisted(m, row, row) = NoRow /\ row = NoRow
           \/ GoodWrite(row, Persisted(m, row, row))
<1> DEFINE applied == AppliedStatus(m, row)
<1>1. /\ applied \in Statuses \cup {NoStatus}
      /\ applied # NoStatus => applied = CurrentStatus(row)
                               \/ Lifecycle!CanFollow(CurrentStatus(row), applied)
  BY AppliedStatusIsAllowed
<1>2. /\ CurrentStatus(row) \in Statuses \cup {NoStatus}
      /\ row # NoRow => row \in Row /\ row.facts \in SUBSET Facts
  BY TradeDmAssumption DEF Row, CurrentStatus
<1>3. OrderKind[m.order] \in Kinds
  BY TradeDmAssumption DEF DmType
<1>4. CASE m.snapshot
  <2>1. /\ SnapshotRow(m, row).status \in {applied, CurrentStatus(row)}
        /\ SnapshotRow(m, row).status = NoStatus => CurrentStatus(row) = NoStatus
        /\ applied = NoStatus => SnapshotRow(m, row).status = CurrentStatus(row)
        /\ SnapshotRow(m, row) \in Row
        /\ row # NoRow => row.facts \ SideFacts \subseteq SnapshotRow(m, row).facts
    BY <1>1, <1>2, <1>3 DEF SnapshotRow, Row, Facts, SideFacts
  <2>2. /\ SaveOrder(row, SnapshotRow(m, row)) \in Row
        /\ SaveOrder(row, SnapshotRow(m, row)).status = SnapshotRow(m, row).status
        /\ row # NoRow => row.facts \subseteq SaveOrder(row, SnapshotRow(m, row)).facts
    BY <1>2, <2>1 DEF SaveOrder, Row, Facts, SideFacts
  <2>3. Persisted(m, row, row) = SaveOrder(row, SnapshotRow(m, row))
    BY <1>4 DEF Persisted
  <2>. QED  BY <1>1, <1>2, <2>1, <2>2, <2>3 DEF GoodWrite
<1>5. CASE ~m.snapshot
  <2>1. Persisted(m, row, row) = UpdateOrderStatus(row, applied) /\ applied # NoStatus
    BY <1>5 DEF Persisted
  <2>2. CASE row = NoRow
    BY <2>1, <2>2 DEF UpdateOrderStatus
  <2>3. CASE row # NoRow
    <3>1. Persisted(m, row, row) = [row EXCEPT !.status = applied]
      BY <2>1, <2>3 DEF UpdateOrderStatus
    <3>. QED  BY <1>1, <1>2, <2>1, <2>3, <3>1 DEF GoodWrite, Row
  <2>. QED  BY <2>2, <2>3
<1>. QED  BY <1>4, <1>5

\* So is the write of the dispute and solver columns.
LEMMA LearnIsGood ==
    ASSUME NEW m \in Dms, NEW row \in Row \cup {NoRow}
    PROVE  \/ UpdateColumns(row, m.tells) = NoRow /\ row = NoRow
           \/ GoodWrite(row, UpdateColumns(row, m.tells))
<1>1. m.tells \in SUBSET SideFacts
  BY TradeDmAssumption DEF DmType
<1>2. CASE row = NoRow
  BY <1>2 DEF UpdateColumns
<1>3. CASE row # NoRow
  BY <1>1, <1>3 DEF UpdateColumns, GoodWrite, CurrentStatus, Row, Facts, SideFacts
<1>. QED  BY <1>2, <1>3

\* And the row of a trade that has just been opened.
LEMMA OpeningIsGood ==
    ASSUME NEW o \in Orders
    PROVE  GoodWrite(NoRow, SaveOrder(NoRow, OpenedRow(o)))
<1>1. OrderKind[o] \in Kinds
  BY TradeDmAssumption
<1>2. OpenedRow(o) \in Row /\ OpenedRow(o).status = "pending"
  BY <1>1 DEF OpenedRow, Row, Facts, Statuses, LiveStatuses
<1>3. /\ SaveOrder(NoRow, OpenedRow(o)) \in Row
      /\ SaveOrder(NoRow, OpenedRow(o)).status = "pending"
  BY <1>2 DEF SaveOrder, Row
<1>4. Lifecycle!CanFollow(NoStatus, "pending") /\ "pending" \in Statuses
  BY DEF Lifecycle!CanFollow, Lifecycle!Phase, Lifecycle!TerminalStatuses, Lifecycle!NoStatus,
         NoStatus, Statuses, LiveStatuses
<1>. QED  BY <1>3, <1>4 DEF GoodWrite, CurrentStatus

-----------------------------------------------------------------------------
(* The steps.                                                               *)

\* What a step may do to the rows: nothing, or one good write.
RowsKept == rows' = rows
OneGoodWrite ==
    \E o \in Orders, new \in Row :
        /\ rows' = [rows EXCEPT ![o] = new]
        /\ GoodWrite(rows[o], new)
        /\ opened[o] # NotOpened

\* A job that has just started or ended has read nothing.
LEMMA FreshJobs ==
    /\ \A pc \in Steps : /\ [Fresh EXCEPT !.pc = pc] \in JobType
                         /\ [Fresh EXCEPT !.pc = pc].pc = pc
                         /\ [Fresh EXCEPT !.pc = pc].read = FALSE
    /\ Fresh \in JobType /\ Fresh.pc = "new" /\ Fresh.read = FALSE
    /\ IdleOpening \in OpeningType /\ IdleOpening.pc = "idle"
BY DEF Fresh, IdleOpening, JobType, OpeningType, Steps

\* The step a handler takes after its read, and when it writes the order.
LEMMA FirstStepType ==
    ASSUME NEW m \in Dms, NEW row
    PROVE  /\ FirstStep(m, row) \in {"persist", "learn", "done"}
           /\ FirstStep(m, row) = "persist" =>
                 m.snapshot \/ AppliedStatus(m, row) # NoStatus
           /\ LearnStep(m) \in {"learn", "done"}
BY DEF FirstStep, LearnStep

\* With nothing running, whatever has to hold of running jobs holds.
LEMMA InitIInv == Init => IInv
<1>. SUFFICES ASSUME Init PROVE IInv
  OBVIOUS
<1>1. TypeOK
  BY FreshJobs, TradeDmAssumption DEF Init, TypeOK
<1>2. \A m \in Dms : jobs[m] = Fresh
  BY DEF Init
<1>3. \A o \in Orders : opening[o] = IdleOpening /\ rows[o] = NoRow /\ o \notin trades
  BY DEF Init
<1>. QED  BY <1>1, <1>2, <1>3, FreshJobs DEF IInv, Exclusive, ReadsAreFresh, WritesAreMeant,
             OpeningComesFirst, HandlersOfOpened, Running, Opening

LEMMA OpenTradeKeepsIInv ==
    ASSUME NoOverlap, IInv, NEW o \in Orders, NEW reply \in Openings, OpenTrade(o, reply)
    PROVE  IInv' /\ RowsKept
<1>1. Idle
  BY DEF NoOverlap, OpenTrade, MayStart
<1>2. reply # NotOpened
  BY TradeDmAssumption DEF AllOpenings, NotOpened
<1>3. [IdleOpening EXCEPT !.pc = "save"] \in OpeningType
      /\ [IdleOpening EXCEPT !.pc = "save"].read = FALSE
  BY DEF IdleOpening, OpeningType
<1>4. TypeOK'
  BY <1>3 DEF IInv, TypeOK, OpenTrade
<1>5. /\ \A m \in Dms : ~Running(m)'
      /\ \A p \in Orders \ {o} : opening'[p] = opening[p] /\ ~Opening(p)'
      /\ Opening(o)' => ~opening'[o].read
  BY <1>1, <1>3 DEF IInv, TypeOK, OpenTrade, Idle, Running, Opening
<1>6. OpeningComesFirst'
  BY <1>2, <1>5 DEF IInv, TypeOK, OpenTrade, OpeningComesFirst
<1>7. Exclusive' /\ HandlersOfOpened'
  BY <1>5 DEF Exclusive, HandlersOfOpened
<1>8. ReadsAreFresh' /\ WritesAreMeant'
  BY <1>5 DEF ReadsAreFresh, WritesAreMeant, Running
<1>. QED  BY <1>4, <1>6, <1>7, <1>8 DEF IInv, RowsKept, OpenTrade

LEMMA ReadForOpeningKeepsIInv ==
    ASSUME IInv, NEW o \in Orders, ReadForOpening(o)
    PROVE  IInv' /\ RowsKept
<1>1. opening' = [opening EXCEPT ![o] = [opening[o] EXCEPT !.read = TRUE, !.base = rows[o]]]
  BY DEF ReadForOpening, IInv, TypeOK, OpeningType
<1>2. [opening[o] EXCEPT !.read = TRUE, !.base = rows[o]] \in OpeningType
  BY DEF IInv, TypeOK, OpeningType
<1>3. TypeOK'
  BY <1>1, <1>2 DEF ReadForOpening, IInv, TypeOK
<1>4. /\ \A p \in Orders : Opening(p)' <=> Opening(p)
      /\ \A m \in Dms : Running(m)' <=> Running(m)
      /\ opening'[o].base = rows[o]
      /\ \A p \in Orders \ {o} : opening'[p] = opening[p]
  BY <1>1, <1>2 DEF ReadForOpening, IInv, TypeOK, OpeningType, Opening, Running
<1>5. Exclusive' /\ HandlersOfOpened' /\ OpeningComesFirst'
  BY <1>4 DEF ReadForOpening, IInv, Exclusive, HandlersOfOpened, OpeningComesFirst
<1>6. ReadsAreFresh' /\ WritesAreMeant'
  BY <1>4 DEF ReadForOpening, IInv, ReadsAreFresh, WritesAreMeant
<1>. QED  BY <1>3, <1>5, <1>6 DEF IInv, RowsKept, ReadForOpening

LEMMA SaveOpenedKeepsIInv ==
    ASSUME IInv, NEW o \in Orders, SaveOpened(o)
    PROVE  IInv' /\ OneGoodWrite
<1>1. /\ rows[o] = NoRow
      /\ opened[o] # NotOpened
      /\ Backend = "idb" => opening[o].base = NoRow
  BY DEF SaveOpened, IInv, OpeningComesFirst, ReadsAreFresh
<1> DEFINE new == SaveOrder(NoRow, OpenedRow(o))
<1>2. rows' = [rows EXCEPT ![o] = new] /\ GoodWrite(rows[o], new) /\ new \in Row
  BY <1>1, OpeningIsGood DEF SaveOpened, GoodWrite
<1> HIDE DEF new
<1>3. OneGoodWrite
  BY <1>1, <1>2 DEF OneGoodWrite
<1>4. TypeOK'
  BY <1>2, FreshJobs DEF SaveOpened, IInv, TypeOK
<1>5. /\ \A m \in Dms : ~Running(m)'
      /\ \A p \in Orders : ~Opening(p)'
      /\ \A p \in Orders \ {o} : rows'[p] = rows[p]
  BY <1>2, FreshJobs DEF SaveOpened, IInv, TypeOK, Exclusive, Running, Opening
<1>6. Exclusive' /\ HandlersOfOpened' /\ ReadsAreFresh' /\ WritesAreMeant'
  BY <1>5 DEF Exclusive, HandlersOfOpened, ReadsAreFresh, WritesAreMeant, Running
<1>7. OpeningComesFirst'
  BY <1>1, <1>5 DEF SaveOpened, IInv, OpeningComesFirst
<1>. QED  BY <1>3, <1>4, <1>6, <1>7 DEF IInv

\* The moves of one handler while nothing else runs.
OnlyRuns(m) ==
    /\ \A n \in Dms \ {m} : ~Running(n)
    /\ \A o \in Orders : ~Opening(o)

LEMMA RunningAlone ==
    ASSUME IInv, NEW m \in Dms, Running(m)
    PROVE  OnlyRuns(m)
BY DEF IInv, Exclusive, OnlyRuns

\* A step of one handler that leaves everything but its job and its order's
\* row keeps the invariant when the job it leaves behind is in order.
LEMMA HandlerStep ==
    ASSUME IInv, NEW m \in Dms, OnlyRuns(m), NEW job \in JobType,
           jobs' = [jobs EXCEPT ![m] = job],
           UNCHANGED <<trades, opened, opening, restarts>>,
           opened[m.order] # NotOpened,
           rows' \in [Orders -> Row \cup {NoRow}],
           \A o \in Orders \ {m.order} : rows'[o] = rows[o],
           job.pc = "persist" => /\ job.existing = rows'[m.order]
                                 /\ m.snapshot \/ AppliedStatus(m, job.existing) # NoStatus,
           job.pc \notin {"new", "done"} /\ job.read => job.base = rows'[m.order]
    PROVE  IInv'
<1>1. m.order \in Orders
  BY TradeDmAssumption DEF DmType
<1>2. /\ jobs'[m] = job
      /\ \A n \in Dms \ {m} : jobs'[n] = jobs[n] /\ ~Running(n)'
      /\ \A o \in Orders : ~Opening(o)'
  BY DEF IInv, TypeOK, OnlyRuns, Running, Opening
<1>3. TypeOK'
  BY DEF IInv, TypeOK
<1>4. Exclusive' /\ ReadsAreFresh' /\ WritesAreMeant'
  BY <1>2 DEF Exclusive, ReadsAreFresh, WritesAreMeant, Running
<1>5. OpeningComesFirst' /\ HandlersOfOpened'
  BY <1>2 DEF IInv, OpeningComesFirst, HandlersOfOpened
<1>. QED  BY <1>3, <1>4, <1>5 DEF IInv

LEMMA DeliverDmKeepsIInv ==
    ASSUME NoOverlap, IInv, NEW m \in Dms, DeliverDm(m)
    PROVE  IInv' /\ RowsKept
<1>1. OnlyRuns(m)
  BY DEF NoOverlap, DeliverDm, MayStart, Idle, OnlyRuns
<1>2. m.order \in Orders
  BY TradeDmAssumption DEF DmType
<1>3. opened[m.order] # NotOpened
  BY <1>2 DEF DeliverDm, IInv, OpeningComesFirst
<1> DEFINE pc == FirstStep(m, rows[m.order])
<1>4. /\ pc \in {"persist", "learn", "done"}
      /\ pc = "persist" => m.snapshot \/ AppliedStatus(m, rows[m.order]) # NoStatus
  BY FirstStepType
<1>5. rows[m.order] \in Row \cup {NoRow}
  BY <1>2 DEF IInv, TypeOK
<1> HIDE DEF pc
<1>6. CASE Backend = "idb"
  <2>1. /\ [Fresh EXCEPT !.pc = "get"] \in JobType
        /\ [Fresh EXCEPT !.pc = "get"].pc = "get"
        /\ [Fresh EXCEPT !.pc = "get"].read = FALSE
    BY FreshJobs DEF Steps
  <2>2. jobs' = [jobs EXCEPT ![m] = [Fresh EXCEPT !.pc = "get"]]
    BY <1>6 DEF DeliverDm
  <2>. QED  BY <1>1, <1>3, <2>1, <2>2, HandlerStep DEF DeliverDm, RowsKept, IInv, TypeOK
<1>7. CASE Backend # "idb"
  <2> DEFINE job == [Fresh EXCEPT !.pc = pc, !.existing = rows[m.order]]
  <2>1. jobs' = [jobs EXCEPT ![m] = job]
    BY <1>7 DEF DeliverDm, pc
  <2>2. job \in JobType /\ job.pc = pc /\ job.read = FALSE /\ job.existing = rows[m.order]
    BY <1>4, <1>5 DEF Fresh, JobType, Steps
  <2>3. job.pc = "persist" => m.snapshot \/ AppliedStatus(m, job.existing) # NoStatus
    BY <1>4, <2>2
  <2> HIDE DEF job
  <2>. QED  BY <1>1, <1>3, <2>1, <2>2, <2>3, HandlerStep DEF DeliverDm, RowsKept, IInv, TypeOK
<1>. QED  BY <1>6, <1>7

LEMMA GetOrderKeepsIInv ==
    ASSUME IInv, NEW m \in Dms, GetOrder(m)
    PROVE  IInv' /\ RowsKept
<1>1. OnlyRuns(m) /\ opened[m.order] # NotOpened
  BY RunningAlone DEF GetOrder, Running, IInv, HandlersOfOpened
<1>2. rows[m.order] \in Row \cup {NoRow}
  BY TradeDmAssumption DEF DmType, IInv, TypeOK
<1>3. jobs[m].read => jobs[m].base = rows[m.order]
  BY DEF GetOrder, IInv, ReadsAreFresh, Running
<1> DEFINE pc  == FirstStep(m, rows[m.order])
           job == [jobs[m] EXCEPT !.pc = pc, !.existing = rows[m.order]]
<1>4. /\ pc \in {"persist", "learn", "done"}
      /\ pc = "persist" => m.snapshot \/ AppliedStatus(m, rows[m.order]) # NoStatus
  BY FirstStepType
<1>5. jobs' = [jobs EXCEPT ![m] = job]
  BY DEF GetOrder, IInv, TypeOK
<1> HIDE DEF pc
<1>6. /\ job \in JobType /\ job.pc = pc /\ job.existing = rows[m.order]
      /\ job.read = jobs[m].read /\ job.base = jobs[m].base
  BY <1>2, <1>4 DEF IInv, TypeOK, JobType, Steps
<1>7. job.pc = "persist" => m.snapshot \/ AppliedStatus(m, job.existing) # NoStatus
  BY <1>4, <1>6
<1>8. /\ rows' = rows /\ rows' \in [Orders -> Row \cup {NoRow}]
      /\ UNCHANGED <<trades, opened, opening, restarts>>
  BY DEF GetOrder, IInv, TypeOK
<1> HIDE DEF job
<1>9. /\ job.pc = "persist" => job.existing = rows'[m.order]
      /\ job.read => job.base = rows'[m.order]
      /\ \A o \in Orders \ {m.order} : rows'[o] = rows[o]
  BY <1>3, <1>6, <1>8
<1>. QED  BY <1>1, <1>5, <1>6, <1>7, <1>8, <1>9, HandlerStep DEF RowsKept

LEMMA ReadForPutKeepsIInv ==
    ASSUME IInv, NEW m \in Dms, ReadForPut(m)
    PROVE  IInv' /\ RowsKept
<1>1. OnlyRuns(m) /\ opened[m.order] # NotOpened
  BY RunningAlone DEF ReadForPut, Running, IInv, HandlersOfOpened
<1>2. rows[m.order] \in Row \cup {NoRow}
  BY TradeDmAssumption DEF DmType, IInv, TypeOK
<1> DEFINE job == [jobs[m] EXCEPT !.read = TRUE, !.base = rows[m.order]]
<1>3. jobs' = [jobs EXCEPT ![m] = job]
  BY DEF ReadForPut, IInv, TypeOK
<1>4. /\ job \in JobType /\ job.base = rows[m.order]
      /\ job.pc = jobs[m].pc /\ job.existing = jobs[m].existing
  BY <1>2 DEF IInv, TypeOK, JobType
<1>5. job.pc = "persist" => /\ job.existing = rows[m.order]
                            /\ m.snapshot \/ AppliedStatus(m, job.existing) # NoStatus
  BY <1>4 DEF IInv, ReadsAreFresh, WritesAreMeant
<1> HIDE DEF job
<1>. QED  BY <1>1, <1>3, <1>4, <1>5, HandlerStep DEF ReadForPut, RowsKept, IInv, TypeOK

\* The write at the end of a step, and the job it leaves behind.
LEMMA HandlerWrites ==
    ASSUME IInv, NEW m \in Dms, Running(m), NEW row, NEW pc \in {"learn", "done"},
           \/ row = NoRow /\ rows[m.order] = NoRow
           \/ GoodWrite(rows[m.order], row),
           rows' = Put(m, row),
           jobs' = [jobs EXCEPT ![m] = [Fresh EXCEPT !.pc = pc]],
           UNCHANGED <<trades, opened, opening, restarts>>
    PROVE  IInv' /\ (RowsKept \/ OneGoodWrite)
<1>1. OnlyRuns(m) /\ opened[m.order] # NotOpened /\ m.order \in Orders
  BY RunningAlone, TradeDmAssumption DEF IInv, HandlersOfOpened, DmType
<1>2. /\ [Fresh EXCEPT !.pc = pc] \in JobType
      /\ [Fresh EXCEPT !.pc = pc].pc = pc
      /\ [Fresh EXCEPT !.pc = pc].read = FALSE
  BY FreshJobs DEF Steps
<1>3. CASE row = NoRow
  BY <1>1, <1>2, <1>3, HandlerStep DEF Put, RowsKept, IInv, TypeOK
<1>4. CASE row # NoRow
  <2>1. row \in Row /\ GoodWrite(rows[m.order], row) /\ rows' = [rows EXCEPT ![m.order] = row]
    BY <1>4 DEF GoodWrite, Put
  <2>2. OneGoodWrite
    BY <1>1, <2>1 DEF OneGoodWrite
  <2>3. /\ rows' \in [Orders -> Row \cup {NoRow}]
        /\ \A o \in Orders \ {m.order} : rows'[o] = rows[o]
    BY <1>1, <2>1 DEF IInv, TypeOK
  <2>. QED  BY <1>1, <1>2, <2>2, <2>3, HandlerStep
<1>. QED  BY <1>3, <1>4

LEMMA PersistDmKeepsIInv ==
    ASSUME IInv, NEW m \in Dms, PersistDm(m)
    PROVE  IInv' /\ (RowsKept \/ OneGoodWrite)
<1> DEFINE row == rows[m.order]
<1>1. /\ jobs[m].existing = row
      /\ MergedWith(m) = row
      /\ m.snapshot \/ AppliedStatus(m, row) # NoStatus
      /\ Running(m)
  BY DEF PersistDm, IInv, ReadsAreFresh, WritesAreMeant, MergedWith, Running
<1>2. row \in Row \cup {NoRow}
  BY TradeDmAssumption DEF DmType, IInv, TypeOK
<1>3. LearnStep(m) \in {"learn", "done"}
  BY FirstStepType
<1>4. rows' = Put(m, Persisted(m, row, row))
  BY <1>1 DEF PersistDm
<1>. QED  BY <1>1, <1>2, <1>3, <1>4, PersistIsGood, HandlerWrites DEF PersistDm

LEMMA LearnDisputeKeepsIInv ==
    ASSUME IInv, NEW m \in Dms, LearnDispute(m)
    PROVE  IInv' /\ (RowsKept \/ OneGoodWrite)
<1> DEFINE row == rows[m.order]
<1>1. MergedWith(m) = row /\ Running(m)
  BY DEF LearnDispute, IInv, ReadsAreFresh, MergedWith, Running
<1>2. row \in Row \cup {NoRow}
  BY TradeDmAssumption DEF DmType, IInv, TypeOK
<1>3. rows' = Put(m, UpdateColumns(row, m.tells))
  BY <1>1 DEF LearnDispute
<1>. QED  BY <1>1, <1>2, <1>3, LearnIsGood, HandlerWrites DEF LearnDispute

LEMMA RestartKeepsIInv ==
    ASSUME IInv, Restart
    PROVE  IInv' /\ RowsKept
<1>1. TypeOK'
  BY FreshJobs, TradeDmAssumption DEF Restart, IInv, TypeOK, ActiveOrders
<1>2. /\ \A m \in Dms : ~Running(m)' /\ jobs'[m].pc = "new"
      /\ \A o \in Orders : ~Opening(o)'
      /\ \A o \in trades' : rows[o] # NoRow
  BY FreshJobs DEF Restart, Running, Opening, ActiveOrders
<1>3. Exclusive' /\ ReadsAreFresh' /\ WritesAreMeant' /\ HandlersOfOpened'
  BY <1>2 DEF Exclusive, ReadsAreFresh, WritesAreMeant, HandlersOfOpened
<1>4. OpeningComesFirst'
  BY <1>2 DEF Restart, IInv, OpeningComesFirst
<1>. QED  BY <1>1, <1>3, <1>4 DEF IInv, RowsKept, Restart

\* Every step keeps the invariant and writes well.
LEMMA NextKeepsIInv ==
    ASSUME NoOverlap, IInv, [Next]_vars
    PROVE  IInv' /\ (RowsKept \/ OneGoodWrite)
<1>1. ASSUME NEW o \in Orders, NEW reply \in Openings, OpenTrade(o, reply)
      PROVE  IInv' /\ RowsKept
  BY <1>1, OpenTradeKeepsIInv
<1>2. ASSUME NEW o \in Orders, ReadForOpening(o) \/ SaveOpened(o)
      PROVE  IInv' /\ (RowsKept \/ OneGoodWrite)
  BY <1>2, ReadForOpeningKeepsIInv, SaveOpenedKeepsIInv
<1>3. ASSUME NEW m \in Dms, DeliverDm(m) \/ GetOrder(m) \/ ReadForPut(m)
      PROVE  IInv' /\ RowsKept
  BY <1>3, DeliverDmKeepsIInv, GetOrderKeepsIInv, ReadForPutKeepsIInv
<1>4. ASSUME NEW m \in Dms, PersistDm(m) \/ LearnDispute(m)
      PROVE  IInv' /\ (RowsKept \/ OneGoodWrite)
  BY <1>4, PersistDmKeepsIInv, LearnDisputeKeepsIInv
<1>5. CASE Restart
  BY <1>5, RestartKeepsIInv
<1>6. CASE UNCHANGED vars
  BY <1>6 DEF vars, RowsKept, IInv, TypeOK, Exclusive, ReadsAreFresh, WritesAreMeant,
              OpeningComesFirst, HandlersOfOpened, Running, Opening
<1>. QED  BY <1>1, <1>2, <1>3, <1>4, <1>5, <1>6 DEF Next

\* A good write, or none, is a step of the lifecycle and loses no fact.
FactsKept ==
    \A o \in Orders : rows[o] # NoRow =>
        rows'[o] # NoRow /\ rows[o].facts \subseteq rows'[o].facts

LEMMA WritesAreLifecycleSteps ==
    ASSUME IInv, RowsKept \/ OneGoodWrite
    PROVE  [Lifecycle!Next]_StoredStatus /\ FactsKept
<1>1. CASE RowsKept
  BY <1>1 DEF RowsKept, StoredStatus, FactsKept
<1>2. CASE OneGoodWrite
  <2>1. PICK o \in Orders, new \in Row :
           rows' = [rows EXCEPT ![o] = new] /\ GoodWrite(rows[o], new)
    BY <1>2 DEF OneGoodWrite
  <2>2. new # NoRow
    BY TradeDmAssumption
  <2>3. FactsKept
    BY <2>1, <2>2 DEF FactsKept, GoodWrite, IInv, TypeOK
  <2>4. StoredStatus' = [StoredStatus EXCEPT ![o] = new.status]
    BY <2>1, <2>2 DEF StoredStatus, CurrentStatus, IInv, TypeOK
  <2>5. StoredStatus[o] = CurrentStatus(rows[o]) /\ StoredStatus = [p \in Orders |-> StoredStatus[p]]
    BY DEF StoredStatus
  <2>6. CASE new.status = CurrentStatus(rows[o])
    BY <2>3, <2>4, <2>5, <2>6
  <2>7. CASE new.status \in Statuses /\ Lifecycle!CanFollow(CurrentStatus(rows[o]), new.status)
    <3>1. new.status \in Lifecycle!Statuses
      BY <2>7 DEF Statuses, TerminalStatuses, LiveStatuses, Lifecycle!Statuses,
                  Lifecycle!TerminalStatuses, Lifecycle!LiveStatuses
    <3>2. Lifecycle!Advance(o, new.status)
      BY <2>4, <2>5, <2>7 DEF Lifecycle!Advance
    <3>. QED  BY <2>3, <3>1, <3>2 DEF Lifecycle!Next
  <2>. QED  BY <2>1, <2>6, <2>7 DEF GoodWrite
<1>. QED  BY <1>1, <1>2

-----------------------------------------------------------------------------
(* The theorems.                                                            *)

\* The invariant holds when handlers do not overlap.
THEOREM IInvHolds == ASSUME NoOverlap PROVE Spec => []IInv
<1>1. IInv /\ [Next]_vars => IInv'
  BY NextKeepsIInv
<1>. QED  BY <1>1, InitIInv, PTL DEF Spec

\* Every reachable state is well typed.
THEOREM TypeCorrect == ASSUME NoOverlap PROVE Spec => []TypeOK
<1>1. IInv => TypeOK
  BY DEF IInv
<1>. QED  BY <1>1, IInvHolds, PTL

\* The status stored for an order never goes back, with either store, however
\* the relay orders and repeats the DMs and wherever the process restarts.
THEOREM LifecycleImplemented == ASSUME NoOverlap PROVE Spec => ImplementsLifecycle
<1>1. Init => Lifecycle!Init
  BY DEF Init, Lifecycle!Init, StoredStatus, CurrentStatus, NoStatus, Lifecycle!NoStatus
<1>2. IInv /\ [Next]_vars => [Lifecycle!Next]_StoredStatus
  BY NextKeepsIInv, WritesAreLifecycleSteps
<1>. QED  BY <1>1, <1>2, IInvHolds, PTL DEF Spec, ImplementsLifecycle, Lifecycle!Spec

\* What a row has learnt it keeps.
THEOREM FactsNeverLostHolds == ASSUME NoOverlap PROVE Spec => FactsNeverLost
<1>1. IInv /\ [Next]_vars => [FactsKept]_vars
  BY NextKeepsIInv, WritesAreLifecycleSteps
<1>. QED  BY <1>1, IInvHolds, PTL DEF Spec, FactsNeverLost, FactsKept
-----------------------------------------------------------------------------
(* The order in which the relay delivers the DMs of a session does not      *)
(* matter: for every set of DMs, when handlers do not overlap.  The         *)
(* argument: a DM that is refused was behind the row, a DM that is applied  *)
(* is where the row is, and no later write but a payout retry takes the row *)
(* behind either.                                                          *)

\* The row of an order that was saved with its kind keeps a kind.
KindsKnown ==
    \A o \in Orders : opened[o] \in SavesKind /\ rows[o] # NoRow => rows[o].kind \in Kinds

\* A DM that has started belongs to a tracked order whose opening is over.
StartedWhenTracked ==
    \A m \in Dms : jobs[m].pc # "new" => m.order \in trades /\ ~Opening(m.order)

\* A tracked order that was opened with a save has its row, or is being saved.
TrackedHaveRows ==
    \A o \in trades : opened[o] \in SavesKind => Opening(o) \/ rows[o] # NoRow

\* The inductive invariant, on top of IInv.
OInv ==
    /\ KindsKnown
    /\ StartedWhenTracked
    /\ TrackedHaveRows
    /\ HandledDmsNeverOutrank

-----------------------------------------------------------------------------
(* The guard.                                                               *)

Phase(s) == Lifecycle!Phase(s)

\* Statuses have phases, and finished ones the last.
LEMMA PhaseType ==
    ASSUME NEW s \in Statuses \cup {NoStatus}
    PROVE  /\ Phase(s) \in 0..7
           /\ s \in TerminalStatuses => Phase(s) = 7
BY DEF Phase, Lifecycle!Phase, Lifecycle!NoStatus, NoStatus, Statuses, TerminalStatuses,
       LiveStatuses

\* What the guard admits is no step back, unless it is a payout retry.
LEMMA AppliedRaisesPhase ==
    ASSUME NEW cur \in Statuses \cup {NoStatus}, NEW cand \in Statuses,
           NEW kind \in Kinds \cup {NoKind}, NEW action,
           ShouldApplyStatusTransition(cur, cand, kind, action),
           ~(action = "add-invoice" /\ cand = "settled-hold-invoice")
    PROVE  Phase(cur) =< Phase(cand)
<1>1. Phase(cur) \in Int /\ Phase(cand) \in Int
  BY PhaseType
<1>2. ~Lifecycle!PayoutRetried(cur, cand)
  BY DEF Lifecycle!PayoutRetried, ShouldApplyStatusTransition, ReopensForPayout, NoStatus,
         TerminalStatuses
<1>3. cur = cand \/ Lifecycle!CanFollow(cur, cand)
  BY GuardRespectsLifecycle
<1>. QED  BY <1>1, <1>2, <1>3 DEF Lifecycle!CanFollow, Phase

\* What the guard refuses is behind, when the kind of the order is known.
LEMMA RefusedIsBehind ==
    ASSUME NEW cur \in Statuses \cup {NoStatus}, NEW cand \in Statuses,
           NEW kind \in Kinds, NEW action,
           ~ShouldApplyStatusTransition(cur, cand, kind, action)
    PROVE  Phase(cand) =< Phase(cur)
<1>1. cur \in Statuses /\ (cur \notin TerminalStatuses => cand \in LiveStatuses)
  BY DEF ShouldApplyStatusTransition, Statuses
<1>2. CASE cur \in TerminalStatuses
  BY <1>2, PhaseType
<1>3. CASE cur \notin TerminalStatuses
  <2>1. cur \in LiveStatuses /\ cand \in LiveStatuses
    BY <1>1, <1>3 DEF Statuses
  <2>2. \A s \in LiveStatuses : StatusPhaseRank(s, kind) \in 0..6
    BY DEF StatusPhaseRank, LiveStatuses, Kinds
  <2>3. StatusPhaseRank(cand, kind) < StatusPhaseRank(cur, kind)
    BY <1>3, <2>1, <2>2 DEF ShouldApplyStatusTransition, NoRank
  <2>4. \A s \in LiveStatuses :
           \/ StatusPhaseRank(s, kind) = 0 /\ Phase(s) = 1
           \/ StatusPhaseRank(s, kind) \in {1, 2} /\ Phase(s) = 2
           \/ StatusPhaseRank(s, kind) \in 3..6 /\ Phase(s) = StatusPhaseRank(s, kind)
    <3>. SUFFICES ASSUME NEW s \in LiveStatuses
                  PROVE  \/ StatusPhaseRank(s, kind) = 0 /\ Phase(s) = 1
                         \/ StatusPhaseRank(s, kind) \in {1, 2} /\ Phase(s) = 2
                         \/ /\ StatusPhaseRank(s, kind) \in 3..6
                            /\ Phase(s) = StatusPhaseRank(s, kind)
      OBVIOUS
    <3>1. CASE s \in {"pending", "waiting-taker-bond", "waiting-maker-bond"}
      BY <3>1 DEF Phase, Lifecycle!Phase, Lifecycle!NoStatus, StatusPhaseRank
    <3>2. CASE s \in {"waiting-payment", "waiting-buyer-invoice"}
      BY <3>2 DEF Phase, Lifecycle!Phase, Lifecycle!NoStatus, StatusPhaseRank, Kinds
    <3>3. CASE s \in {"in-progress", "active", "fiat-sent", "settled-hold-invoice", "dispute"}
      BY <3>3 DEF Phase, Lifecycle!Phase, Lifecycle!NoStatus, StatusPhaseRank
    <3>. QED  BY <3>1, <3>2, <3>3 DEF LiveStatuses
  <2>. QED  BY <2>1, <2>2, <2>3, <2>4
<1>. QED  BY <1>2, <1>3

\* The status a DM leaves a row with.
Left(m, row) ==
    IF AppliedStatus(m, row) # NoStatus THEN AppliedStatus(m, row) ELSE row.status

\* It is at or past the DM, and at or past the row unless the DM is a retry.
LEMMA LeftIsAhead ==
    ASSUME NEW m \in Dms, NEW row \in Row
    PROVE  /\ row.kind \in Kinds /\ Candidate(m) # NoStatus
                 => Phase(Candidate(m)) =< Phase(Left(m, row))
           /\ ~IsRetry(m) => Phase(row.status) =< Phase(Left(m, row))
<1>1. /\ row # NoRow
      /\ row.status \in Statuses \cup {NoStatus}
      /\ row.kind \in Kinds \cup {NoKind}
      /\ CurrentStatus(row) = row.status
      /\ CurrentKind(row) = row.kind
  BY TradeDmAssumption DEF Row, CurrentStatus, CurrentKind
<1>2. Candidate(m) \in Statuses \cup {NoStatus}
  BY CandidateType
<1>3. Phase(row.status) \in Int /\ Phase(Candidate(m)) \in Int
  BY <1>1, <1>2, PhaseType
<1>4. CASE AppliedStatus(m, row) # NoStatus
  <2>1. /\ AppliedStatus(m, row) = Candidate(m)
        /\ Candidate(m) # NoStatus
        /\ ShouldApplyStatusTransition(row.status, Candidate(m), row.kind, m.action)
    BY <1>1, <1>4 DEF AppliedStatus
  <2>2. ~IsRetry(m) => Phase(row.status) =< Phase(Candidate(m))
    BY <1>1, <1>2, <2>1, AppliedRaisesPhase DEF IsRetry
  <2>. QED  BY <1>3, <1>4, <2>1, <2>2 DEF Left
<1>5. CASE AppliedStatus(m, row) = NoStatus
  <2>1. Candidate(m) # NoStatus =>
           ~ShouldApplyStatusTransition(row.status, Candidate(m), row.kind, m.action)
    BY <1>1, <1>5 DEF AppliedStatus
  <2>2. row.kind \in Kinds /\ Candidate(m) # NoStatus => Phase(Candidate(m)) =< Phase(row.status)
    BY <1>1, <1>2, <2>1, RefusedIsBehind
  <2>. QED  BY <1>3, <1>5, <2>2 DEF Left
<1>. QED  BY <1>4, <1>5

\* The write of a DM leaves that status, and a known kind.
LEMMA PersistLeaves ==
    ASSUME NEW m \in Dms, NEW row \in Row,
           m.snapshot \/ AppliedStatus(m, row) # NoStatus
    PROVE  /\ Persisted(m, row, row) \in Row
           /\ Persisted(m, row, row).status = Left(m, row)
           /\ row.kind \in Kinds => Persisted(m, row, row).kind \in Kinds
<1>1. row # NoRow /\ CurrentStatus(row) = row.status
  BY TradeDmAssumption DEF CurrentStatus
<1>2. OrderKind[m.order] \in Kinds
  BY TradeDmAssumption DEF DmType
<1>3. Persisted(m, row, row) \in Row
  BY <1>1, PersistIsGood DEF GoodWrite
<1>4. CASE m.snapshot
  <2>1. /\ SnapshotRow(m, row).status = Left(m, row)
        /\ SnapshotRow(m, row).kind \in Kinds
        /\ SnapshotRow(m, row) = [status |-> SnapshotRow(m, row).status,
                                  kind |-> SnapshotRow(m, row).kind,
                                  facts |-> SnapshotRow(m, row).facts]
    BY <1>1, <1>2 DEF SnapshotRow, Left
  <2>. QED  BY <1>3, <1>4, <2>1 DEF Persisted, SaveOrder
<1>5. CASE ~m.snapshot
  <2>1. Persisted(m, row, row) = [row EXCEPT !.status = Left(m, row)]
    BY <1>1, <1>5 DEF Persisted, UpdateOrderStatus, Left
  <2>. QED  BY <1>3, <2>1 DEF Row
<1>. QED  BY <1>4, <1>5

-----------------------------------------------------------------------------
(* The steps.                                                               *)

\* No DM handled for the order of m asks to retry the payout.
NoRetryHandled(m) ==
    ~\E r \in Dms : r.order = m.order /\ IsRetry(r) /\ Handled(r)

\* What HandledDmsNeverOutrank says of one DM.
NotOutrankedBy(m) ==
    \/ IsRetry(m)
    \/ Candidate(m) = NoStatus
    \/ Phase(Candidate(m)) =< Phase(rows[m.order].status)

LEMMA OutrankedDef ==
    HandledDmsNeverOutrank <=>
        \A m \in Dms : /\ Handled(m)
                       /\ opened[m.order] \in SavesKind
                       /\ rows[m.order] # NoRow
                       /\ NoRetryHandled(m)
                       => NotOutrankedBy(m)
BY DEF HandledDmsNeverOutrank, NoRetryHandled, NotOutrankedBy, Phase

\* Steps that write no row and move no handler past its write.
LEMMA QuietStep ==
    ASSUME IInv, OInv, UNCHANGED <<rows, trades, opened>>,
           \A m \in Dms : /\ Handled(m)' <=> Handled(m)
                          /\ jobs'[m].pc = "new" <=> jobs[m].pc = "new",
           \A o \in Orders : Opening(o)' <=> Opening(o)
    PROVE  OInv'
<1>1. KindsKnown' /\ TrackedHaveRows' /\ StartedWhenTracked'
  <2>1. (\A m \in Dms : m.order \in Orders) /\ trades \subseteq Orders
    BY TradeDmAssumption DEF DmType, IInv, TypeOK
  <2>2. KindsKnown'
    BY DEF OInv, KindsKnown
  <2>3. StartedWhenTracked'
    BY <2>1 DEF OInv, StartedWhenTracked
  <2>4. TrackedHaveRows'
    BY <2>1 DEF OInv, TrackedHaveRows
  <2>. QED  BY <2>2, <2>3, <2>4
<1>2. HandledDmsNeverOutrank'
  BY DEF OInv, HandledDmsNeverOutrank
<1>. QED  BY <1>1, <1>2 DEF OInv

LEMMA InitOInv == Init => OInv
<1>. SUFFICES ASSUME Init PROVE OInv
  OBVIOUS
<1>1. /\ \A m \in Dms : jobs[m].pc = "new"
      /\ \A o \in Orders : rows[o] = NoRow
      /\ trades = {}
  BY FreshJobs DEF Init
<1>. QED  BY <1>1 DEF OInv, KindsKnown, StartedWhenTracked, TrackedHaveRows,
             HandledDmsNeverOutrank, Handled

\* An order is opened once, before any DM of it has started.
LEMMA OpenTradeKeepsOInv ==
    ASSUME NoOverlap, IInv, OInv, NEW o \in Orders, NEW reply \in Openings, OpenTrade(o, reply)
    PROVE  OInv'
<1>1. o \notin trades /\ rows[o] = NoRow
  BY DEF OpenTrade, IInv, OpeningComesFirst
<1>2. \A m \in Dms : jobs[m].pc # "new" => m.order \in trades \ {o}
  BY <1>1 DEF OInv, StartedWhenTracked
<1>3. \A p \in Orders \ {o} : /\ opened'[p] = opened[p]
                              /\ Opening(p)' <=> Opening(p)
  BY DEF OpenTrade, IInv, TypeOK, Opening
<1>4. opened'[o] = reply /\ (reply \in SavesKind => Opening(o)')
  <2>1. opened'[o] = reply
    BY DEF OpenTrade, IInv, TypeOK
  <2>2. [IdleOpening EXCEPT !.pc = "save"].pc = "save"
    BY DEF IdleOpening
  <2>. QED  BY <2>1, <2>2 DEF OpenTrade, IInv, TypeOK, Opening
<1>5. UNCHANGED <<rows, jobs>> /\ trades' = trades \cup {o}
  BY DEF OpenTrade
<1>6. trades \subseteq Orders /\ (\A m \in Dms : m.order \in Orders)
  BY TradeDmAssumption DEF IInv, TypeOK, DmType
<1>7. KindsKnown'
  BY <1>1, <1>3, <1>5 DEF OInv, KindsKnown
<1>8. StartedWhenTracked'
  BY <1>2, <1>3, <1>5, <1>6 DEF OInv, StartedWhenTracked
<1>9. TrackedHaveRows'
  BY <1>3, <1>4, <1>5, <1>6 DEF OInv, TrackedHaveRows
<1>10. HandledDmsNeverOutrank'
  <2>1. \A m \in Dms : Handled(m)' => Handled(m) /\ m.order # o
    BY <1>2, <1>5 DEF Handled
  <2>2. \A m \in Dms : Handled(m) => Handled(m)'
    BY <1>5 DEF Handled
  <2>3. \A m \in Dms : Handled(m) => opened'[m.order] = opened[m.order]
    BY <1>3, <1>6, <2>1, <2>2
  <2>. QED  BY <1>5, <2>1, <2>2, <2>3 DEF OInv, HandledDmsNeverOutrank
<1>. QED  BY <1>7, <1>8, <1>9, <1>10 DEF OInv

\* Its save meets no handled DM either.
LEMMA SaveOpenedKeepsOInv ==
    ASSUME IInv, OInv, NEW o \in Orders, SaveOpened(o)
    PROVE  OInv'
<1>1. \A m \in Dms : m.order \in Orders
  BY TradeDmAssumption DEF DmType
<1>2. \A m \in Dms : jobs[m].pc # "new" => m.order \in trades \ {o}
  BY DEF SaveOpened, OInv, StartedWhenTracked
<1>3. PICK new \in Row : rows' = [rows EXCEPT ![o] = new]
                         /\ (opened[o] \in SavesKind => new.kind \in Kinds)
  <2>1. rows[o] = NoRow /\ (Backend = "idb" => opening[o].base = NoRow)
    BY DEF SaveOpened, IInv, OpeningComesFirst, ReadsAreFresh
  <2>2. rows' = [rows EXCEPT ![o] = SaveOrder(NoRow, OpenedRow(o))]
    BY <2>1 DEF SaveOpened
  <2>3. SaveOrder(NoRow, OpenedRow(o)) \in Row
    BY OpeningIsGood DEF GoodWrite
  <2>4. SaveOrder(NoRow, OpenedRow(o)).kind = OpenedRow(o).kind
    BY DEF SaveOrder, OpenedRow
  <2>5. opened[o] \in SavesKind => OpenedRow(o).kind \in Kinds
    BY TradeDmAssumption DEF OpenedRow
  <2>. QED  BY <2>2, <2>3, <2>4, <2>5
<1>4. new # NoRow
  BY TradeDmAssumption
<1>5. /\ rows'[o] = new
      /\ \A p \in Orders \ {o} : rows'[p] = rows[p]
      /\ UNCHANGED <<trades, jobs, opened>>
  BY <1>3 DEF SaveOpened, IInv, TypeOK
<1>6. \A p \in Orders \ {o} : Opening(p)' <=> Opening(p)
  BY DEF SaveOpened, IInv, TypeOK, Opening
<1>7. KindsKnown'
  BY <1>3, <1>5 DEF OInv, KindsKnown
<1>8. StartedWhenTracked'
  BY <1>1, <1>2, <1>5, <1>6 DEF OInv, StartedWhenTracked
<1>9. TrackedHaveRows'
  BY <1>4, <1>5, <1>6 DEF OInv, TrackedHaveRows, IInv, TypeOK
<1>10. HandledDmsNeverOutrank'
  <2>1. \A m \in Dms : /\ Handled(m)' <=> Handled(m)
                       /\ Handled(m) => m.order \in Orders \ {o}
    BY <1>1, <1>2, <1>5 DEF Handled
  <2>. QED  BY <1>5, <2>1 DEF OInv, HandledDmsNeverOutrank
<1>. QED  BY <1>7, <1>8, <1>9, <1>10 DEF OInv

\* A handler that has just read: it will write, or the row is already there.
LEMMA ReadStep ==
    ASSUME IInv, OInv, NEW m \in Dms, UNCHANGED <<rows, trades, opened, opening>>,
           m.order \in trades, ~Opening(m.order), ~Handled(m),
           NEW job \in JobType, jobs' = [jobs EXCEPT ![m] = job], job.pc # "new",
           job.pc \in {"learn", "done"} =>
               ~m.snapshot /\ AppliedStatus(m, rows[m.order]) = NoStatus
    PROVE  OInv'
<1>1. /\ \A n \in Dms \ {m} : jobs'[n] = jobs[n]
      /\ jobs'[m] = job
      /\ \A o \in Orders : Opening(o)' <=> Opening(o)
  BY DEF IInv, TypeOK, Opening
<1>2. m.order \in Orders /\ trades \subseteq Orders
  BY TradeDmAssumption DEF DmType, IInv, TypeOK
<1>3. KindsKnown' /\ StartedWhenTracked' /\ TrackedHaveRows'
  <2>1. StartedWhenTracked'
    BY <1>1, <1>2 DEF OInv, StartedWhenTracked, Opening
  <2>2. TrackedHaveRows'
    BY <1>1, <1>2 DEF OInv, TrackedHaveRows
  <2>. QED  BY <2>1, <2>2 DEF OInv, KindsKnown
<1>4. HandledDmsNeverOutrank'
  <2>. SUFFICES ASSUME NEW n \in Dms, Handled(n)', opened[n.order] \in SavesKind,
                       rows[n.order] # NoRow, NoRetryHandled(n)'
                PROVE  NotOutrankedBy(n)
    BY DEF HandledDmsNeverOutrank, NoRetryHandled, NotOutrankedBy, Phase
  <2>1. NoRetryHandled(n)
    BY <1>1 DEF NoRetryHandled, Handled
  <2>2. CASE n # m
    BY <1>1, <2>1, <2>2, OutrankedDef DEF OInv, Handled
  <2>3. CASE n = m
    <3>1. AppliedStatus(m, rows[m.order]) = NoStatus
      BY <1>1, <2>3 DEF Handled
    <3>2. rows[m.order] \in Row /\ rows[m.order].kind \in Kinds
      BY <1>2, <2>3 DEF IInv, TypeOK, OInv, KindsKnown
    <3>3. Left(m, rows[m.order]) = rows[m.order].status
      BY <3>1 DEF Left
    <3>. QED  BY <2>3, <3>2, <3>3, LeftIsAhead DEF NotOutrankedBy
  <2>. QED  BY <2>2, <2>3
<1>. QED  BY <1>3, <1>4 DEF OInv

\* What the first step after the read says of the write that is skipped.
LEMMA FirstStepSkips ==
    ASSUME NEW m \in Dms, NEW row
    PROVE  FirstStep(m, row) \in {"learn", "done"} =>
               ~m.snapshot /\ AppliedStatus(m, row) = NoStatus
BY DEF FirstStep, LearnStep

LEMMA DeliverDmKeepsOInv ==
    ASSUME NoOverlap, IInv, OInv, NEW m \in Dms, DeliverDm(m)
    PROVE  OInv'
<1> DEFINE pc == FirstStep(m, rows[m.order])
<1>1. /\ m.order \in Orders
      /\ m.order \in trades
      /\ ~Opening(m.order)
      /\ ~Handled(m)
      /\ UNCHANGED <<rows, trades, opened, opening>>
  BY TradeDmAssumption DEF DmType, NoOverlap, DeliverDm, MayStart, Idle, Handled
<1>2. /\ pc \in {"persist", "learn", "done"}
      /\ pc \in {"learn", "done"} => ~m.snapshot /\ AppliedStatus(m, rows[m.order]) = NoStatus
  BY FirstStepType, FirstStepSkips
<1>3. rows[m.order] \in Row \cup {NoRow}
  BY <1>1 DEF IInv, TypeOK
<1> HIDE DEF pc
<1>4. PICK job \in JobType : /\ jobs' = [jobs EXCEPT ![m] = job]
                             /\ job.pc \in {"get", pc}
  <2>1. CASE Backend = "idb"
    <3>1. [Fresh EXCEPT !.pc = "get"] \in JobType /\ [Fresh EXCEPT !.pc = "get"].pc = "get"
      BY FreshJobs DEF Steps
    <3>. QED  BY <2>1, <3>1 DEF DeliverDm
  <2>2. CASE Backend # "idb"
    <3> DEFINE job == [Fresh EXCEPT !.pc = pc, !.existing = rows[m.order]]
    <3>1. job \in JobType /\ job.pc = pc
      BY <1>2, <1>3 DEF Fresh, JobType, Steps
    <3>2. jobs' = [jobs EXCEPT ![m] = job]
      BY <2>2 DEF DeliverDm, pc
    <3>. QED  BY <3>1, <3>2
  <2>. QED  BY <2>1, <2>2
<1>. QED  BY <1>1, <1>2, <1>4, ReadStep

LEMMA GetOrderKeepsOInv ==
    ASSUME IInv, OInv, NEW m \in Dms, GetOrder(m)
    PROVE  OInv'
<1> DEFINE pc  == FirstStep(m, rows[m.order])
           job == [jobs[m] EXCEPT !.pc = pc, !.existing = rows[m.order]]
<1>1. /\ m.order \in Orders
      /\ m.order \in trades /\ ~Opening(m.order)
      /\ ~Handled(m)
      /\ UNCHANGED <<rows, trades, opened, opening>>
  BY TradeDmAssumption DEF DmType, GetOrder, OInv, StartedWhenTracked, Handled
<1>2. /\ pc \in {"persist", "learn", "done"}
      /\ pc \in {"learn", "done"} => ~m.snapshot /\ AppliedStatus(m, rows[m.order]) = NoStatus
  BY FirstStepType, FirstStepSkips
<1>3. rows[m.order] \in Row \cup {NoRow}
  BY <1>1 DEF IInv, TypeOK
<1>4. jobs' = [jobs EXCEPT ![m] = job]
  BY DEF GetOrder, IInv, TypeOK
<1> HIDE DEF pc
<1>5. job \in JobType /\ job.pc = pc
  BY <1>2, <1>3 DEF IInv, TypeOK, JobType, Steps
<1> HIDE DEF job
<1>. QED  BY <1>1, <1>2, <1>4, <1>5, ReadStep

\* The write leaves the row at or past its DM, and at or past where it was.
LEMMA PersistDmKeepsOInv ==
    ASSUME IInv, OInv, NEW m \in Dms, PersistDm(m)
    PROVE  OInv'
<1> DEFINE row == rows[m.order]
           new == Persisted(m, row, row)
<1>1. /\ m.order \in Orders
      /\ m.order \in trades /\ ~Opening(m.order)
      /\ ~Handled(m)
      /\ m.snapshot \/ AppliedStatus(m, row) # NoStatus
      /\ rows' = Put(m, new)
      /\ UNCHANGED <<trades, opened, opening>>
  BY TradeDmAssumption DEF DmType, PersistDm, OInv, StartedWhenTracked, Handled, IInv,
     ReadsAreFresh, WritesAreMeant, MergedWith, Running
<1>2. /\ jobs'[m].pc \in {"learn", "done"}
      /\ \A n \in Dms \ {m} : jobs'[n] = jobs[n]
  <2>1. [Fresh EXCEPT !.pc = LearnStep(m)].pc = LearnStep(m)
    BY DEF Fresh
  <2>. QED  BY <2>1, FirstStepType DEF PersistDm, IInv, TypeOK
<1>3. /\ Handled(m)'
      /\ \A n \in Dms \ {m} : Handled(n)' <=> Handled(n)
      /\ \A o \in Orders \ {m.order} : rows'[o] = rows[o]
      /\ \A o \in Orders : Opening(o)' <=> Opening(o)
  BY <1>1, <1>2 DEF Handled, Put, IInv, TypeOK, Opening
<1>4. opened[m.order] \in SavesKind =>
         /\ row \in Row /\ row.kind \in Kinds
         /\ new \in Row /\ new # NoRow /\ rows'[m.order] = new
         /\ new.status = Left(m, row) /\ new.kind \in Kinds
  <2>. SUFFICES ASSUME opened[m.order] \in SavesKind
                PROVE  /\ row \in Row /\ row.kind \in Kinds
                       /\ new \in Row /\ new # NoRow /\ rows'[m.order] = new
                       /\ new.status = Left(m, row) /\ new.kind \in Kinds
    OBVIOUS
  <2>1. row \in Row /\ row.kind \in Kinds
    BY <1>1 DEF OInv, TrackedHaveRows, KindsKnown, IInv, TypeOK
  <2>2. new \in Row /\ new.status = Left(m, row) /\ new.kind \in Kinds
    BY <1>1, <2>1, PersistLeaves
  <2>3. new # NoRow
    BY <2>2, TradeDmAssumption
  <2>. QED  BY <1>1, <2>1, <2>2, <2>3 DEF Put, IInv, TypeOK
<1> HIDE DEF new
<1>5. KindsKnown'
  BY <1>1, <1>3, <1>4 DEF OInv, KindsKnown
<1>6. StartedWhenTracked'
  BY <1>1, <1>2 DEF OInv, StartedWhenTracked, Opening
<1>7. TrackedHaveRows'
  BY <1>1, <1>3, <1>4 DEF OInv, TrackedHaveRows, IInv, TypeOK
<1>8. HandledDmsNeverOutrank'
  <2>. SUFFICES ASSUME NEW n \in Dms, Handled(n)', opened[n.order] \in SavesKind,
                       (rows[n.order] # NoRow)', NoRetryHandled(n)'
                PROVE  NotOutrankedBy(n)'
    BY <1>1 DEF HandledDmsNeverOutrank, NoRetryHandled, NotOutrankedBy, Phase
  <2>1. n.order \in Orders
    BY TradeDmAssumption DEF DmType
  <2>2. NoRetryHandled(n)
    BY <1>3 DEF NoRetryHandled
  <2>3. CASE n.order # m.order
    <3>1. Handled(n) /\ rows'[n.order] = rows[n.order]
      BY <1>3, <2>1, <2>3
    <3>2. NotOutrankedBy(n)
      BY <2>2, <3>1, OutrankedDef DEF OInv
    <3>. QED  BY <3>1, <3>2 DEF NotOutrankedBy
  <2>4. CASE n.order = m.order
    <3>1. ~IsRetry(m)
      BY <1>3, <2>4 DEF NoRetryHandled
    <3>2. /\ row \in Row /\ row.kind \in Kinds
          /\ rows'[n.order].status = Left(m, row)
      BY <1>4, <2>4
    <3>3. Phase(row.status) =< Phase(Left(m, row))
      BY <3>1, <3>2, LeftIsAhead
    <3>4. CASE n = m
      BY <3>2, <3>4, LeftIsAhead DEF NotOutrankedBy
    <3>5. CASE n # m
      <4>1. Handled(n) /\ rows[n.order] # NoRow
        BY <1>3, <2>4, <3>2, <3>5, TradeDmAssumption
      <4>2. NotOutrankedBy(n)
        BY <2>2, <4>1, OutrankedDef DEF OInv
      <4>3. /\ Candidate(n) \in Statuses \cup {NoStatus}
            /\ row.status \in Statuses \cup {NoStatus}
            /\ Left(m, row) \in Statuses \cup {NoStatus}
        BY <3>2, CandidateType, AppliedStatusIsAllowed DEF Left, Row
      <4>4. /\ Phase(Candidate(n)) \in Int
            /\ Phase(row.status) \in Int
            /\ Phase(Left(m, row)) \in Int
        BY <4>3, PhaseType
      <4>5. Phase(Candidate(n)) =< Phase(row.status) => Phase(Candidate(n)) =< Phase(Left(m, row))
        BY <3>3, <4>4
      <4>. QED  BY <2>4, <3>2, <4>2, <4>5 DEF NotOutrankedBy
    <3>. QED  BY <3>4, <3>5
  <2>. QED  BY <2>3, <2>4
<1>. QED  BY <1>5, <1>6, <1>7, <1>8 DEF OInv

\* The columns of the dispute are no part of it.
LEMMA LearnDisputeKeepsOInv ==
    ASSUME IInv, OInv, NEW m \in Dms, LearnDispute(m)
    PROVE  OInv'
<1>1. /\ m.order \in Orders
      /\ Handled(m) /\ jobs[m].pc # "new"
      /\ rows' = Put(m, UpdateColumns(rows[m.order], m.tells))
      /\ UNCHANGED <<trades, opened, opening>>
  BY TradeDmAssumption DEF DmType, LearnDispute, Handled, IInv, ReadsAreFresh, MergedWith, Running
<1>2. /\ jobs'[m].pc = "done"
      /\ \A n \in Dms \ {m} : jobs'[n] = jobs[n]
  <2>1. [Fresh EXCEPT !.pc = "done"].pc = "done"
    BY DEF Fresh
  <2>. QED  BY <2>1 DEF LearnDispute, IInv, TypeOK
<1>3. /\ \A n \in Dms : Handled(n)' <=> Handled(n)
      /\ \A n \in Dms : jobs'[n].pc = "new" <=> jobs[n].pc = "new"
      /\ \A o \in Orders : Opening(o)' <=> Opening(o)
  BY <1>1, <1>2 DEF Handled, Opening
<1>4. \A o \in Orders : /\ rows'[o] = NoRow <=> rows[o] = NoRow
                        /\ rows[o] # NoRow => /\ rows'[o].status = rows[o].status
                                              /\ rows'[o].kind = rows[o].kind
  <2>1. CASE rows[m.order] = NoRow
    BY <1>1, <2>1 DEF UpdateColumns, Put
  <2>2. CASE rows[m.order] # NoRow
    <3> DEFINE new == UpdateColumns(rows[m.order], m.tells)
    <3>1. /\ rows[m.order] \in Row
          /\ new \in Row
          /\ new.status = rows[m.order].status /\ new.kind = rows[m.order].kind
      <4>1. rows[m.order] \in Row
        BY <1>1, <2>2 DEF IInv, TypeOK
      <4>2. new \in Row
        BY <2>2, <4>1, LearnIsGood DEF GoodWrite
      <4>3. new = [rows[m.order] EXCEPT !.facts = @ \cup m.tells]
        BY <2>2 DEF UpdateColumns
      <4>. QED  BY <4>1, <4>2, <4>3 DEF Row
    <3>2. new # NoRow
      BY <3>1, TradeDmAssumption
    <3> HIDE DEF new
    <3>3. rows' = [rows EXCEPT ![m.order] = new]
      BY <1>1, <3>2 DEF Put, new
    <3>. QED  BY <1>1, <2>2, <3>1, <3>2, <3>3 DEF IInv, TypeOK
  <2>. QED  BY <2>1, <2>2
<1>5. (\A n \in Dms : n.order \in Orders) /\ trades \subseteq Orders
  BY TradeDmAssumption DEF DmType, IInv, TypeOK
<1>6. KindsKnown' /\ StartedWhenTracked' /\ TrackedHaveRows'
  <2>1. KindsKnown'
    BY <1>1, <1>4 DEF OInv, KindsKnown
  <2>2. StartedWhenTracked'
    BY <1>1, <1>3, <1>5 DEF OInv, StartedWhenTracked
  <2>3. TrackedHaveRows'
    BY <1>1, <1>3, <1>4, <1>5 DEF OInv, TrackedHaveRows
  <2>. QED  BY <2>1, <2>2, <2>3
<1>7. HandledDmsNeverOutrank'
  BY <1>1, <1>3, <1>4, <1>5 DEF OInv, HandledDmsNeverOutrank
<1>. QED  BY <1>6, <1>7 DEF OInv

\* A restart forgets what was handled and keeps orders that have rows.
LEMMA RestartKeepsOInv ==
    ASSUME OInv, Restart
    PROVE  OInv'
<1>1. \A m \in Dms : jobs'[m].pc = "new"
  BY FreshJobs DEF Restart
<1>2. \A o \in trades' : rows'[o] # NoRow
  BY DEF Restart, ActiveOrders
<1>3. KindsKnown'
  BY DEF Restart, OInv, KindsKnown
<1>. QED  BY <1>1, <1>2, <1>3 DEF OInv, StartedWhenTracked, TrackedHaveRows,
             HandledDmsNeverOutrank, Handled

LEMMA NextKeepsOInv ==
    ASSUME NoOverlap, IInv, OInv, [Next]_vars
    PROVE  OInv'
<1>1. ASSUME NEW o \in Orders, NEW reply \in Openings, OpenTrade(o, reply)
      PROVE  OInv'
  BY <1>1, OpenTradeKeepsOInv
<1>2. ASSUME NEW o \in Orders, ReadForOpening(o)
      PROVE  OInv'
  <2>1. \A p \in Orders : Opening(p)' <=> Opening(p)
    BY <1>2 DEF ReadForOpening, IInv, TypeOK, OpeningType, Opening
  <2>. QED  BY <1>2, <2>1, QuietStep DEF ReadForOpening, Handled
<1>3. ASSUME NEW o \in Orders, SaveOpened(o)
      PROVE  OInv'
  BY <1>3, SaveOpenedKeepsOInv
<1>4. ASSUME NEW m \in Dms, ReadForPut(m)
      PROVE  OInv'
  <2>1. \A n \in Dms : jobs'[n].pc = jobs[n].pc
    BY <1>4 DEF ReadForPut, IInv, TypeOK, JobType
  <2>. QED  BY <1>4, <2>1, QuietStep DEF ReadForPut, Handled, Opening
<1>5. ASSUME NEW m \in Dms, DeliverDm(m) \/ GetOrder(m) \/ PersistDm(m) \/ LearnDispute(m)
      PROVE  OInv'
  BY <1>5, DeliverDmKeepsOInv, GetOrderKeepsOInv, PersistDmKeepsOInv, LearnDisputeKeepsOInv
<1>6. CASE Restart
  BY <1>6, RestartKeepsOInv
<1>7. CASE UNCHANGED vars
  BY <1>7, QuietStep DEF vars, Handled, Opening
<1>. QED  BY <1>1, <1>2, <1>3, <1>4, <1>5, <1>6, <1>7 DEF Next

-----------------------------------------------------------------------------

\* Whatever the order in which the DMs of a session are handled, the status of
\* an order that was saved with its kind is at least in the phase of each.
THEOREM HandledDmsNeverOutrankHolds ==
    ASSUME NoOverlap PROVE Spec => []HandledDmsNeverOutrank
<1>1. IInv /\ OInv /\ [Next]_vars => OInv'
  BY NextKeepsOInv
<1>2. OInv => HandledDmsNeverOutrank
  BY DEF OInv
<1>. QED  BY <1>1, <1>2, InitOInv, IInvHolds, PTL DEF Spec
=============================================================================
