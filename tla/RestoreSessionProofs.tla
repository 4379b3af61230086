------------------------- MODULE RestoreSessionProofs -------------------------
(***************************************************************************)
(* Theorems about restore() beside running handlers, for every set of       *)
(* orders, DMs and answers, whether or not handlers overlap.  Nothing       *)
(* excludes anything here, so the argument is about what each write keeps   *)
(* of the row it meets: no write removes a row or a dispute column, a row    *)
(* without a kind has its trade key, and what a handler read after the      *)
(* restore wrote is at least where the restore left the order.              *)
(***************************************************************************)
EXTENDS RestoreSession, TradeDmProofs

\* What is left and at hand belongs to the step restore() is at.
PlaceOK ==
    /\ step \in {"orders", "write"} => left \subseteq answer.orders
    /\ step \in {"disputes", "id", "solver"} => left \subseteq answer.disputes
    /\ step \in {"idle", "track"} => left = {}
    /\ step = "write" => item \in answer.orders
    /\ step \in {"id", "solver"} => item \in answer.disputes
    /\ step \notin {"write", "id", "solver"} => item = NoItem

\* A row that restore() has read is still there.
KnownIsThere == known # NoRow => step = "write" /\ rows[item.order] # NoRow

\* A row that was never saved from an order payload has its trade key.
SoundRow(row) == row.kind = NoKind => "trade_keys" \in row.facts
KindlessRowsHaveKeys == \A o \in Orders : rows[o] # NoRow => SoundRow(rows[o])

\* The orders of the answer have rows, but for those still to be written.
AnsweredHaveRows ==
    step # "idle" =>
        \A i \in answer.orders :
            \/ rows[i.order] # NoRow
            \/ step \in {"orders", "write"} /\ i \in left
            \/ step = "write" /\ i = item

\* A handler about to write an order has read it at least where the last
\* restore left it, and the row is at least there.
HasRetry(o) == \E m \in Dms : m.order = o /\ IsRetry(m)
ReadPast(m, s) ==
    /\ jobs[m].existing # NoRow
    /\ Phase(s) =< Phase(jobs[m].existing.status)
RestoredKept ==
    \A o \in Orders :
        restored[o] # NoStatus /\ ~HasRetry(o) =>
            /\ rows[o] # NoRow
            /\ Phase(restored[o]) =< Phase(rows[o].status)
            /\ \A m \in Dms : m.order = o /\ jobs[m].pc = "persist" => ReadPast(m, restored[o])

\* The inductive invariant.
RInv ==
    /\ TypeOK
    /\ RestoreTypeOK
    /\ WritesAreMeant
    /\ PlaceOK
    /\ KnownIsThere
    /\ KindlessRowsHaveKeys
    /\ AnsweredHaveRows
    /\ RestoredKept

-----------------------------------------------------------------------------
(* The writes.                                                              *)

\* A write that keeps the dispute's columns, and the trade key of a row
\* without a kind.
SoundWrite(old, new) ==
    /\ new \in Row
    /\ SoundRow(new)
    /\ old # NoRow => old.facts \cap SideFacts \subseteq new.facts

\* What a step may do to the rows.
RowsWritten ==
    \/ RowsKept
    \/ \E o \in Orders, new \in Row : /\ rows' = [rows EXCEPT ![o] = new]
                                      /\ SoundWrite(rows[o], new)

\* Saving a sound row is a sound write.
LEMMA SaveIsSound ==
    ASSUME NEW old \in Row \cup {NoRow}, NEW input \in Row, SoundRow(input)
    PROVE  /\ SoundWrite(old, SaveOrder(old, input))
           /\ SaveOrder(old, input).status = input.status
<1>1. old # NoRow => old \in Row /\ old.facts \subseteq Facts
  BY DEF Row
<1>. QED  BY <1>1 DEF SaveOrder, SoundWrite, SoundRow, Row, Facts, SideFacts

\* So is a new status,
LEMMA StatusUpdateIsSound ==
    ASSUME NEW old \in Row, SoundRow(old), NEW s \in Statuses \cup {NoStatus}
    PROVE  /\ SoundWrite(old, UpdateOrderStatus(old, s))
           /\ UpdateOrderStatus(old, s).status = s
<1>1. UpdateOrderStatus(old, s) = [old EXCEPT !.status = s]
  BY TradeDmAssumption DEF UpdateOrderStatus
<1>. QED  BY <1>1 DEF SoundWrite, SoundRow, Row

\* and more columns.
LEMMA ColumnsAreSound ==
    ASSUME NEW old \in Row, SoundRow(old), NEW facts \in SUBSET Facts
    PROVE  /\ SoundWrite(old, UpdateColumns(old, facts))
           /\ UpdateColumns(old, facts).status = old.status
<1>1. UpdateColumns(old, facts) = [old EXCEPT !.facts = @ \cup facts]
  BY TradeDmAssumption DEF UpdateColumns
<1>. QED  BY <1>1 DEF SoundWrite, SoundRow, Row

\* The rows that are saved when a trade is opened or restored.
LEMMA SavedRowsAreSound ==
    /\ \A o \in Orders : OpenedRow(o) \in Row /\ SoundRow(OpenedRow(o))
    /\ \A s \in Statuses : /\ RestoredRow(s) \in Row /\ SoundRow(RestoredRow(s))
                           /\ RestoredRow(s).status = s
<1>1. \A o \in Orders : OrderKind[o] \in Kinds
  BY TradeDmAssumption
<1>2. \A o \in Orders : OpenedRow(o) \in Row /\ SoundRow(OpenedRow(o))
  BY <1>1 DEF OpenedRow, SoundRow, Row, Facts, Statuses, LiveStatuses
<1>3. \A s \in Statuses : /\ RestoredRow(s) \in Row /\ SoundRow(RestoredRow(s))
                          /\ RestoredRow(s).status = s
  BY DEF RestoredRow, SoundRow, Row, Facts
<1>. QED  BY <1>2, <1>3

\* A DM's write leaves the row in the status decided from the row it had read.
LEMMA PersistIsSound ==
    ASSUME NEW m \in Dms, NEW existing \in Row \cup {NoRow}, NEW old \in Row \cup {NoRow},
           old # NoRow => SoundRow(old),
           m.snapshot \/ AppliedStatus(m, existing) # NoStatus
    PROVE  \/ Persisted(m, existing, old) = NoRow /\ old = NoRow
           \/ /\ SoundWrite(old, Persisted(m, existing, old))
              /\ existing # NoRow => Persisted(m, existing, old).status = Left(m, existing)
<1>1. /\ AppliedStatus(m, existing) \in Statuses \cup {NoStatus}
      /\ CurrentStatus(existing) \in Statuses \cup {NoStatus}
      /\ existing # NoRow => existing.facts \in SUBSET Facts
                             /\ CurrentStatus(existing) = existing.status
  BY AppliedStatusIsAllowed DEF Row, CurrentStatus
<1>2. OrderKind[m.order] \in Kinds
  BY TradeDmAssumption DEF DmType
<1>3. CASE m.snapshot
  <2>1. /\ SnapshotRow(m, existing) \in Row
        /\ SoundRow(SnapshotRow(m, existing))
        /\ existing # NoRow => SnapshotRow(m, existing).status = Left(m, existing)
    BY <1>1, <1>2 DEF SnapshotRow, SoundRow, Left, Row, Facts, SideFacts, Kinds, NoKind
  <2>. QED  BY <1>3, <2>1, SaveIsSound DEF Persisted
<1>4. CASE ~m.snapshot /\ old = NoRow
  BY <1>4 DEF Persisted, UpdateOrderStatus
<1>5. CASE ~m.snapshot /\ old # NoRow
  <2>1. Persisted(m, existing, old) = UpdateOrderStatus(old, AppliedStatus(m, existing))
    BY <1>5 DEF Persisted
  <2>2. AppliedStatus(m, existing) = Left(m, existing)
    BY <1>5 DEF Left
  <2>. QED  BY <1>1, <1>5, <2>1, <2>2, StatusUpdateIsSound
<1>. QED  BY <1>3, <1>4, <1>5

\* What follows from the rows having been written soundly.
LEMMA RowsAfter ==
    ASSUME TypeOK, KindlessRowsHaveKeys, RowsWritten
    PROVE  /\ rows' \in [Orders -> Row \cup {NoRow}]
           /\ KindlessRowsHaveKeys'
           /\ \A o \in Orders : rows[o] # NoRow =>
                 /\ rows'[o] # NoRow
                 /\ rows[o].facts \cap SideFacts \subseteq rows'[o].facts
<1>1. CASE RowsKept
  BY <1>1 DEF RowsKept, TypeOK, KindlessRowsHaveKeys
<1>2. CASE ~RowsKept
  <2>1. PICK o \in Orders, new \in Row : /\ rows' = [rows EXCEPT ![o] = new]
                                         /\ SoundWrite(rows[o], new)
    BY <1>2 DEF RowsWritten
  <2>2. new # NoRow
    BY TradeDmAssumption
  <2>. QED  BY <2>1, <2>2 DEF TypeOK, KindlessRowsHaveKeys, SoundWrite
<1>. QED  BY <1>1, <1>2

-----------------------------------------------------------------------------
(* The steps of openings and handlers.                                      *)

\* An opening and a handler leave restore() where it is; the orders whose
\* opening moved are no longer as the restore left them.
RestoreWaits ==
    /\ UNCHANGED <<step, answer, item, known, left, restores>>
    /\ restored' = [o \in Orders |-> IF opening'[o] # opening[o] THEN NoStatus
                                                                 ELSE restored[o]]

\* What a step of TradeDm keeps of the invariant.
TradeKept == TypeOK' /\ WritesAreMeant' /\ RowsWritten /\ RestoredKept'

LEMMA OpenTradeKept ==
    ASSUME RInv, RestoreWaits, NEW o \in Orders, NEW reply \in Openings, OpenTrade(o, reply)
    PROVE  TradeKept
<1>1. [IdleOpening EXCEPT !.pc = "save"] \in OpeningType
  BY DEF IdleOpening, OpeningType
<1>2. TypeOK'
  BY <1>1 DEF RInv, TypeOK, OpenTrade
<1>3. \A p \in Orders : restored'[p] \in {NoStatus, restored[p]}
  BY DEF RestoreWaits
<1>4. RestoredKept'
  BY <1>3 DEF RInv, RestoredKept, ReadPast, OpenTrade
<1>. QED  BY <1>2, <1>4 DEF TradeKept, RowsWritten, RowsKept, OpenTrade, RInv, WritesAreMeant

LEMMA SaveOpenedKept ==
    ASSUME RInv, RestoreWaits, NEW o \in Orders, SaveOpened(o)
    PROVE  TradeKept
<1> DEFINE new == SaveOrder(rows[o], OpenedRow(o))
<1>1. rows' = [rows EXCEPT ![o] = new]
  BY RestoreAssumption DEF SaveOpened
<1>2. SoundWrite(rows[o], new) /\ new \in Row
  BY SavedRowsAreSound, SaveIsSound DEF SoundWrite, RInv, TypeOK
<1> HIDE DEF new
<1>3. TypeOK'
  BY <1>1, <1>2, FreshJobs DEF SaveOpened, RInv, TypeOK
<1>4. RowsWritten
  BY <1>1, <1>2 DEF RowsWritten
<1>5. /\ restored'[o] = NoStatus
      /\ \A p \in Orders \ {o} : rows'[p] = rows[p] /\ restored'[p] = restored[p]
  BY <1>1, FreshJobs DEF SaveOpened, RestoreWaits, Opening, RInv, TypeOK
<1>6. RestoredKept'
  BY <1>5 DEF SaveOpened, RInv, RestoredKept, ReadPast
<1>. QED  BY <1>3, <1>4, <1>6 DEF TradeKept, SaveOpened, RInv, WritesAreMeant

\* One handler moves, and writes soundly and not behind the restore.
LEMMA HandlerKept ==
    ASSUME RInv, RestoreWaits, NEW m \in Dms, NEW job \in JobType,
           jobs' = [jobs EXCEPT ![m] = job],
           UNCHANGED <<trades, opened, opening, restarts>>,
           RowsWritten,
           \A o \in Orders \ {m.order} : rows'[o] = rows[o],
           job.pc = "persist" =>
               /\ job.existing = rows'[m.order]
               /\ m.snapshot \/ AppliedStatus(m, job.existing) # NoStatus,
           restored[m.order] # NoStatus /\ ~HasRetry(m.order)
               => Phase(restored[m.order]) =< Phase(rows'[m.order].status)
    PROVE  TradeKept
<1>1. m.order \in Orders
  BY TradeDmAssumption DEF DmType
<1>2. /\ rows' \in [Orders -> Row \cup {NoRow}]
      /\ \A o \in Orders : rows[o] # NoRow => rows'[o] # NoRow
  BY RowsAfter DEF RInv
<1>3. TypeOK'
  BY <1>2 DEF RInv, TypeOK
<1>4. jobs'[m] = job /\ \A n \in Dms \ {m} : jobs'[n] = jobs[n]
  BY DEF RInv, TypeOK
<1>5. WritesAreMeant'
  BY <1>4 DEF RInv, WritesAreMeant
<1>6. restored' = restored
  BY DEF RestoreWaits, RInv, RestoreTypeOK
<1>7. RestoredKept'
  <2>. SUFFICES ASSUME NEW o \in Orders, restored[o] # NoStatus, ~HasRetry(o)
                PROVE  /\ rows'[o] # NoRow
                       /\ Phase(restored[o]) =< Phase(rows'[o].status)
                       /\ \A n \in Dms : n.order = o /\ jobs'[n].pc = "persist"
                                          => ReadPast(n, restored[o])'
    BY <1>6 DEF RestoredKept, HasRetry
  <2>1. /\ rows'[o] # NoRow
        /\ Phase(restored[o]) =< Phase(rows[o].status)
        /\ \A n \in Dms : n.order = o /\ jobs[n].pc = "persist" => ReadPast(n, restored[o])
    BY <1>2 DEF RInv, RestoredKept
  <2>2. Phase(restored[o]) =< Phase(rows'[o].status)
    BY <2>1, <1>1
  <2>3. ASSUME NEW n \in Dms, n.order = o, jobs'[n].pc = "persist"
        PROVE  ReadPast(n, restored[o])'
    BY <1>4, <1>6, <2>1, <2>2, <2>3 DEF ReadPast
  <2>. QED  BY <2>1, <2>2, <2>3
<1>. QED  BY <1>3, <1>5, <1>7 DEF TradeKept

LEMMA DeliverDmKept ==
    ASSUME RInv, RestoreWaits, NEW m \in Dms, DeliverDm(m)
    PROVE  TradeKept
<1>1. m.order \in Orders
  BY TradeDmAssumption DEF DmType
<1> DEFINE pc  == FirstStep(m, rows[m.order])
           job == [Fresh EXCEPT !.pc = pc, !.existing = rows[m.order]]
<1>2. /\ pc \in {"persist", "learn", "done"}
      /\ pc = "persist" => m.snapshot \/ AppliedStatus(m, rows[m.order]) # NoStatus
  BY FirstStepType
<1>3. jobs' = [jobs EXCEPT ![m] = job]
  BY RestoreAssumption DEF DeliverDm
<1>4. rows[m.order] \in Row \cup {NoRow}
  BY <1>1 DEF RInv, TypeOK
<1> HIDE DEF pc
<1>5. job \in JobType /\ job.pc = pc /\ job.existing = rows[m.order]
  BY <1>2, <1>4 DEF Fresh, JobType, Steps
<1>6. job.pc = "persist" => m.snapshot \/ AppliedStatus(m, job.existing) # NoStatus
  BY <1>2, <1>5
<1> HIDE DEF job
<1>7. RowsWritten /\ rows' = rows
  BY DEF DeliverDm, RowsWritten, RowsKept
<1>8. restored[m.order] # NoStatus /\ ~HasRetry(m.order)
          => Phase(restored[m.order]) =< Phase(rows[m.order].status)
  BY <1>1 DEF RInv, RestoredKept
<1>. QED  BY <1>3, <1>5, <1>6, <1>7, <1>8, HandlerKept DEF DeliverDm

\* Whatever a handler that is no retry read, its write is not behind it.
LEMMA PersistDmKept ==
    ASSUME RInv, RestoreWaits, NEW m \in Dms, PersistDm(m)
    PROVE  TradeKept
<1> DEFINE existing == jobs[m].existing
           old      == rows[m.order]
           new      == Persisted(m, existing, old)
           job      == [Fresh EXCEPT !.pc = LearnStep(m)]
<1>1. m.order \in Orders
  BY TradeDmAssumption DEF DmType
<1>2. rows' = Put(m, new) /\ jobs' = [jobs EXCEPT ![m] = job]
  BY RestoreAssumption DEF PersistDm, MergedWith
<1>3. /\ existing \in Row \cup {NoRow}
      /\ old \in Row \cup {NoRow} /\ (old # NoRow => SoundRow(old))
      /\ m.snapshot \/ AppliedStatus(m, existing) # NoStatus
  BY <1>1 DEF RInv, TypeOK, JobType, KindlessRowsHaveKeys, WritesAreMeant, PersistDm
<1>4. \/ new = NoRow /\ old = NoRow
      \/ /\ SoundWrite(old, new)
         /\ existing # NoRow => new.status = Left(m, existing)
  BY <1>3, PersistIsSound
<1>5. job \in JobType /\ job.pc # "persist"
  BY FirstStepType, FreshJobs DEF Steps
<1>6. restored[m.order] # NoStatus /\ ~HasRetry(m.order) =>
          /\ existing \in Row
          /\ existing # NoRow
          /\ old # NoRow
          /\ Phase(restored[m.order]) =< Phase(existing.status)
          /\ ~IsRetry(m)
  BY <1>1, <1>3 DEF RInv, RestoredKept, ReadPast, PersistDm, HasRetry
<1>7. restored[m.order] # NoStatus /\ ~HasRetry(m.order) =>
          Phase(restored[m.order]) =< Phase(Left(m, existing))
  <2>. SUFFICES ASSUME restored[m.order] # NoStatus, ~HasRetry(m.order)
                PROVE  Phase(restored[m.order]) =< Phase(Left(m, existing))
    OBVIOUS
  <2>1. /\ restored[m.order] \in Statuses \cup {NoStatus}
        /\ existing.status \in Statuses \cup {NoStatus}
        /\ Left(m, existing) \in Statuses \cup {NoStatus}
    BY <1>1, <1>6, AppliedStatusIsAllowed DEF RInv, RestoreTypeOK, Row, Left
  <2>2. /\ Phase(restored[m.order]) \in Int
        /\ Phase(existing.status) \in Int
        /\ Phase(Left(m, existing)) \in Int
    BY <2>1, PhaseType
  <2>3. Phase(existing.status) =< Phase(Left(m, existing))
    BY <1>6, LeftIsAhead
  <2>. QED  BY <1>6, <2>2, <2>3
<1> HIDE DEF new, job
<1>8. CASE new = NoRow /\ old = NoRow
  <2>1. rows' = rows
    BY <1>2, <1>8 DEF Put
  <2>. QED  BY <1>2, <1>5, <1>6, <1>8, <2>1, HandlerKept DEF PersistDm, RowsWritten, RowsKept
<1>9. CASE SoundWrite(old, new)
  <2>1. new \in Row /\ new # NoRow
    BY <1>9, TradeDmAssumption DEF SoundWrite
  <2>2. rows' = [rows EXCEPT ![m.order] = new]
    BY <1>2, <2>1 DEF Put
  <2>3. /\ RowsWritten
        /\ rows'[m.order] = new
        /\ \A o \in Orders \ {m.order} : rows'[o] = rows[o]
    BY <1>1, <1>9, <2>1, <2>2 DEF RowsWritten, RInv, TypeOK
  <2>4. restored[m.order] # NoStatus /\ ~HasRetry(m.order)
            => Phase(restored[m.order]) =< Phase(new.status)
    BY <1>4, <1>6, <1>7
  <2>. QED  BY <1>2, <1>5, <2>3, <2>4, HandlerKept DEF PersistDm
<1>. QED  BY <1>4, <1>8, <1>9

LEMMA LearnDisputeKept ==
    ASSUME RInv, RestoreWaits, NEW m \in Dms, LearnDispute(m)
    PROVE  TradeKept
<1> DEFINE old == rows[m.order]
           new == UpdateColumns(old, m.tells)
           job == [Fresh EXCEPT !.pc = "done"]
<1>1. m.order \in Orders /\ m.tells \in SUBSET Facts
  BY TradeDmAssumption DEF DmType, Facts, SideFacts
<1>2. rows' = Put(m, new) /\ jobs' = [jobs EXCEPT ![m] = job]
  BY RestoreAssumption DEF LearnDispute, MergedWith
<1>3. job \in JobType /\ job.pc # "persist"
  BY FreshJobs DEF Steps
<1>4. restored[m.order] # NoStatus /\ ~HasRetry(m.order)
          => old # NoRow /\ Phase(restored[m.order]) =< Phase(old.status)
  BY <1>1 DEF RInv, RestoredKept
<1> HIDE DEF job
<1>5. CASE old = NoRow
  <2>1. rows' = rows
    BY <1>2, <1>5 DEF Put, UpdateColumns
  <2>. QED  BY <1>2, <1>3, <1>4, <2>1, HandlerKept DEF LearnDispute, RowsWritten, RowsKept
<1>6. CASE old # NoRow
  <2>1. /\ SoundWrite(old, new) /\ new.status = old.status
        /\ new \in Row /\ new # NoRow
    BY <1>1, <1>6, ColumnsAreSound, TradeDmAssumption
       DEF RInv, TypeOK, KindlessRowsHaveKeys, SoundWrite
  <2> HIDE DEF new
  <2>2. rows' = [rows EXCEPT ![m.order] = new]
    BY <1>2, <2>1 DEF Put
  <2>3. /\ RowsWritten
        /\ rows'[m.order] = new
        /\ \A o \in Orders \ {m.order} : rows'[o] = rows[o]
    BY <1>1, <2>1, <2>2 DEF RowsWritten, RInv, TypeOK
  <2>. QED  BY <1>2, <1>3, <1>4, <2>1, <2>3, HandlerKept DEF LearnDispute
<1>. QED  BY <1>5, <1>6

LEMMA TradeStepKeepsRInv ==
    ASSUME RInv, TradeStep
    PROVE  RInv' /\ RowsWritten
<1>1. RestoreWaits
  BY DEF TradeStep, RestoreWaits
<1>2. TradeKept
  BY <1>1, OpenTradeKept, SaveOpenedKept, DeliverDmKept, PersistDmKept, LearnDisputeKept
     DEF TradeStep
<1>3. /\ KindlessRowsHaveKeys'
      /\ \A o \in Orders : rows[o] # NoRow => rows'[o] # NoRow
  BY <1>2, RowsAfter DEF TradeKept, RInv
<1>4. RestoreTypeOK' /\ PlaceOK'
  BY <1>1 DEF RestoreWaits, RInv, RestoreTypeOK, PlaceOK
<1>5. step # "idle" => \A i \in answer.orders : i.order \in Orders
  BY RestoreAssumption DEF RInv, RestoreTypeOK, AnswerType, InfoType
<1>6. KnownIsThere' /\ AnsweredHaveRows'
  BY <1>1, <1>3, <1>5 DEF RestoreWaits, RInv, KnownIsThere, PlaceOK, AnsweredHaveRows
<1>. QED  BY <1>2, <1>3, <1>4, <1>6 DEF TradeKept, RInv

-----------------------------------------------------------------------------
(* The steps of restore().                                                  *)

\* What restore() is writing is of an answer the relays may deliver.
LEMMA AnswerWritten ==
    ASSUME RInv, step # "idle"
    PROVE  /\ answer \in Answers /\ answer # NoAnswer
           /\ \A i \in answer.orders : i.order \in Orders /\ i.status \in Statuses
           /\ \A d \in answer.disputes : d.order \in Orders
BY RestoreAssumption DEF RInv, RestoreTypeOK, AnswerType, InfoType, DisputeInfoType

\* A step that leaves the rows and the handlers alone keeps what is said of them.
LEMMA QuietRestoreStep ==
    ASSUME RInv, UNCHANGED <<vars, restored>>
    PROVE  /\ TypeOK' /\ WritesAreMeant' /\ KindlessRowsHaveKeys' /\ RestoredKept'
           /\ RowsWritten
BY DEF RInv, vars, TypeOK, WritesAreMeant, KindlessRowsHaveKeys, RestoredKept, ReadPast,
       RowsWritten, RowsKept

\* restore() writes the status of an order: from now on it is what the last
\* restore left, unless a handler of the order is still to write.
LEMMA WriteKept ==
    ASSUME RInv, NEW o \in Orders, NEW row, SoundWrite(rows[o], row),
           row.status \in Statuses, Write(o, row)
    PROVE  /\ TypeOK' /\ WritesAreMeant' /\ KindlessRowsHaveKeys' /\ RestoredKept'
           /\ RowsWritten
           /\ restored' \in [Orders -> Statuses \cup {NoStatus}]
           /\ rows'[o] # NoRow
           /\ \A p \in Orders : rows[p] # NoRow => rows'[p] # NoRow
<1>1. row \in Row /\ row # NoRow
  BY TradeDmAssumption DEF SoundWrite
<1>2. rows' = [rows EXCEPT ![o] = row] /\ rows'[o] = row
  BY <1>1 DEF Write, RInv, TypeOK
<1>3. RowsWritten
  BY <1>1, <1>2 DEF RowsWritten
<1>4. /\ rows' \in [Orders -> Row \cup {NoRow}]
      /\ KindlessRowsHaveKeys'
      /\ \A p \in Orders : rows[p] # NoRow => rows'[p] # NoRow
  BY <1>3, RowsAfter DEF RInv
<1>5. TypeOK' /\ WritesAreMeant'
  BY <1>4 DEF Write, RInv, TypeOK, WritesAreMeant
<1>6. /\ restored' \in [Orders -> Statuses \cup {NoStatus}]
      /\ restored'[o] = IF Contended(o) THEN NoStatus ELSE row.status
      /\ \A p \in Orders \ {o} : restored'[p] = restored[p] /\ rows'[p] = rows[p]
  BY <1>2 DEF Write, RInv, RestoreTypeOK, TypeOK
<1>7. RestoredKept'
  <2>. SUFFICES ASSUME NEW p \in Orders, restored'[p] # NoStatus, ~HasRetry(p)
                PROVE  /\ rows'[p] # NoRow
                       /\ Phase(restored'[p]) =< Phase(rows'[p].status)
                       /\ \A m \in Dms : m.order = p /\ jobs[m].pc = "persist"
                                          => ReadPast(m, restored'[p])
    BY DEF RestoredKept, HasRetry, ReadPast, Write
  <2>1. CASE p = o
    <3>1. ~Contended(o) /\ restored'[o] = row.status
      BY <1>6, <2>1
    <3>2. \A m \in Dms : m.order = o => jobs[m].pc # "persist"
      BY <3>1 DEF Contended, Running
    <3>3. Phase(row.status) \in Int
      BY PhaseType
    <3>. QED  BY <1>1, <1>2, <2>1, <3>1, <3>2, <3>3
  <2>2. CASE p # o
    BY <1>6, <2>2 DEF RInv, RestoredKept
  <2>. QED  BY <2>1, <2>2
<1>. QED  BY <1>2, <1>1, <1>3, <1>4, <1>5, <1>6, <1>7

LEMMA AskRestoreKeepsRInv ==
    ASSUME RInv, NEW a \in Answers, AskRestore(a)
    PROVE  RInv' /\ RowsWritten
<1>1. a # NoAnswer
  BY RestoreAssumption
<1>2. RestoreTypeOK'
  BY <1>1, RestoreAssumption DEF AskRestore, RInv, RestoreTypeOK, PlaceOK
<1>3. PlaceOK' /\ KnownIsThere' /\ AnsweredHaveRows'
  BY DEF AskRestore, RInv, PlaceOK, KnownIsThere, AnsweredHaveRows
<1>. QED  BY <1>2, <1>3, QuietRestoreStep DEF AskRestore, RInv

LEMMA ReadOrderKeepsRInv ==
    ASSUME RInv, NEW i \in left, ReadOrder(i)
    PROVE  RInv' /\ RowsWritten
<1>1. /\ answer # NoAnswer
      /\ i \in answer.orders /\ i.order \in Orders
      /\ left \subseteq answer.orders
  BY AnswerWritten DEF ReadOrder, RInv, PlaceOK
<1>2. rows[i.order] \in Row \cup {NoRow}
  BY <1>1 DEF RInv, TypeOK
<1>3. RestoreTypeOK'
  BY <1>1, <1>2 DEF ReadOrder, RInv, RestoreTypeOK
<1>4. PlaceOK' /\ KnownIsThere'
  BY <1>1 DEF ReadOrder, PlaceOK, KnownIsThere, vars
<1>5. AnsweredHaveRows'
  BY DEF ReadOrder, RInv, AnsweredHaveRows, vars
<1>. QED  BY <1>3, <1>4, <1>5, QuietRestoreStep DEF ReadOrder, RInv

LEMMA WriteOrderKeepsRInv ==
    ASSUME RInv, WriteOrder
    PROVE  RInv' /\ RowsWritten
<1> DEFINE o   == item.order
           row == IF HasDetails(known) THEN UpdateOrderStatus(rows[o], item.status)
                                       ELSE SaveOrder(rows[o], RestoredRow(item.status))
<1>1. /\ answer # NoAnswer
      /\ item \in answer.orders /\ o \in Orders /\ item.status \in Statuses
      /\ \A i \in answer.orders : i.order \in Orders
      /\ left \subseteq answer.orders
  BY AnswerWritten DEF WriteOrder, RInv, PlaceOK
<1>2. SoundWrite(rows[o], row) /\ row.status = item.status
  <2>1. CASE HasDetails(known)
    <3>1. rows[o] \in Row /\ SoundRow(rows[o])
      BY <1>1, <2>1 DEF HasDetails, RInv, KnownIsThere, KindlessRowsHaveKeys, TypeOK
    <3>. QED  BY <1>1, <2>1, <3>1, StatusUpdateIsSound
  <2>2. CASE ~HasDetails(known)
    <3>1. rows[o] \in Row \cup {NoRow}
      BY <1>1 DEF RInv, TypeOK
    <3>2. /\ RestoredRow(item.status) \in Row
          /\ SoundRow(RestoredRow(item.status))
          /\ RestoredRow(item.status).status = item.status
      BY <1>1, SavedRowsAreSound
    <3>. QED  BY <2>2, <3>1, <3>2, SaveIsSound
  <2>. QED  BY <2>1, <2>2
<1>3. Write(o, row)
  BY DEF WriteOrder
<1> HIDE DEF row
<1>4. /\ TypeOK' /\ WritesAreMeant' /\ KindlessRowsHaveKeys' /\ RestoredKept'
      /\ RowsWritten
      /\ restored' \in [Orders -> Statuses \cup {NoStatus}]
      /\ rows'[o] # NoRow
      /\ \A p \in Orders : rows[p] # NoRow => rows'[p] # NoRow
  BY <1>1, <1>2, <1>3, WriteKept
<1>5. RestoreTypeOK'
  BY <1>1, <1>4 DEF WriteOrder, RInv, RestoreTypeOK
<1>6. PlaceOK' /\ KnownIsThere'
  BY <1>1 DEF WriteOrder, PlaceOK, KnownIsThere
<1>7. AnsweredHaveRows'
  BY <1>1, <1>4 DEF WriteOrder, RInv, AnsweredHaveRows
<1>. QED  BY <1>4, <1>5, <1>6, <1>7 DEF RInv

LEMMA BeginDisputesKeepsRInv ==
    ASSUME RInv, BeginDisputes
    PROVE  RInv' /\ RowsWritten
<1>1. answer # NoAnswer
  BY AnswerWritten DEF BeginDisputes
<1>2. RestoreTypeOK' /\ PlaceOK' /\ KnownIsThere' /\ AnsweredHaveRows'
  BY <1>1 DEF BeginDisputes, RInv, RestoreTypeOK, PlaceOK, KnownIsThere, AnsweredHaveRows, vars
<1>. QED  BY <1>2, QuietRestoreStep DEF BeginDisputes, RInv

LEMMA MarkDisputedKeepsRInv ==
    ASSUME RInv, NEW d \in left, MarkDisputed(d)
    PROVE  RInv' /\ RowsWritten
<1>1. /\ answer # NoAnswer /\ step = "disputes"
      /\ d \in answer.disputes /\ d.order \in Orders
      /\ left \subseteq answer.disputes
      /\ \A i \in answer.orders : i.order \in Orders
  BY AnswerWritten DEF MarkDisputed, RInv, PlaceOK
<1>2. CASE rows[d.order] = NoRow
  <2>1. RestoreTypeOK' /\ PlaceOK' /\ KnownIsThere' /\ AnsweredHaveRows'
    BY <1>1, <1>2 DEF MarkDisputed, RInv, RestoreTypeOK, PlaceOK, KnownIsThere,
       AnsweredHaveRows, vars
  <2>. QED  BY <1>2, <2>1, QuietRestoreStep DEF MarkDisputed, RInv
<1>3. CASE rows[d.order] # NoRow
  <2> DEFINE row == UpdateOrderStatus(rows[d.order], "dispute")
  <2>1. SoundWrite(rows[d.order], row) /\ row.status \in Statuses
    BY <1>1, <1>3, StatusUpdateIsSound DEF RInv, TypeOK, KindlessRowsHaveKeys, Statuses,
       LiveStatuses
  <2>2. Write(d.order, row)
    BY <1>3 DEF MarkDisputed
  <2> HIDE DEF row
  <2>3. /\ TypeOK' /\ WritesAreMeant' /\ KindlessRowsHaveKeys' /\ RestoredKept'
        /\ RowsWritten
        /\ restored' \in [Orders -> Statuses \cup {NoStatus}]
        /\ \A p \in Orders : rows[p] # NoRow => rows'[p] # NoRow
    BY <1>1, <2>1, <2>2, WriteKept
  <2>4. /\ step' = "id" /\ item' = d
        /\ left' = left \ {d}
        /\ UNCHANGED <<answer, known, restores>>
    BY <1>3 DEF MarkDisputed
  <2>5. RestoreTypeOK'
    BY <1>1, <2>3, <2>4 DEF RInv, RestoreTypeOK
  <2>6. PlaceOK' /\ KnownIsThere'
    BY <1>1, <2>4 DEF RInv, PlaceOK, KnownIsThere
  <2>7. AnsweredHaveRows'
    BY <1>1, <2>3, <2>4 DEF RInv, AnsweredHaveRows
  <2>. QED  BY <2>3, <2>5, <2>6, <2>7 DEF RInv
<1>. QED  BY <1>2, <1>3

\* A column of a dispute touches no status.
LEMMA WriteColumnKept ==
    ASSUME RInv, item.order \in Orders, NEW fact \in Facts, WriteColumn(fact),
           UNCHANGED restored
    PROVE  /\ TypeOK' /\ WritesAreMeant' /\ KindlessRowsHaveKeys' /\ RestoredKept'
           /\ RowsWritten
           /\ \A p \in Orders : rows[p] # NoRow => rows'[p] # NoRow
<1> DEFINE o   == item.order
           row == UpdateColumns(rows[o], {fact})
<1>1. rows' = [rows EXCEPT ![o] = row]
  BY DEF WriteColumn
<1>2. rows[o] \in Row \cup {NoRow}
  BY DEF RInv, TypeOK
<1>3. /\ RowsWritten
      /\ \A p \in Orders : rows[p] # NoRow => rows'[p].status = rows[p].status
  <2>1. CASE rows[o] = NoRow
    BY <1>1, <2>1 DEF UpdateColumns, RowsWritten, RowsKept, RInv, TypeOK
  <2>2. CASE rows[o] # NoRow
    <3>1. SoundWrite(rows[o], row) /\ row.status = rows[o].status /\ row \in Row
      BY <1>2, <2>2, ColumnsAreSound DEF RInv, KindlessRowsHaveKeys, SoundWrite
    <3> HIDE DEF row
    <3>. QED  BY <1>1, <3>1 DEF RowsWritten, RInv, TypeOK
  <2>. QED  BY <2>1, <2>2
<1>4. /\ rows' \in [Orders -> Row \cup {NoRow}]
      /\ KindlessRowsHaveKeys'
      /\ \A p \in Orders : rows[p] # NoRow => rows'[p] # NoRow
  BY <1>3, RowsAfter DEF RInv
<1>5. TypeOK' /\ WritesAreMeant'
  BY <1>4 DEF WriteColumn, RInv, TypeOK, WritesAreMeant
<1>6. RestoredKept'
  BY <1>3, <1>4 DEF WriteColumn, RInv, RestoredKept, ReadPast
<1>. QED  BY <1>3, <1>4, <1>5, <1>6

LEMMA WriteDisputeKeepsRInv ==
    ASSUME RInv, WriteDisputeId \/ WriteSolver
    PROVE  RInv' /\ RowsWritten
<1>1. /\ answer # NoAnswer /\ step \in {"id", "solver"}
      /\ item \in answer.disputes /\ item.order \in Orders
      /\ left \subseteq answer.disputes
      /\ \A i \in answer.orders : i.order \in Orders
  BY AnswerWritten DEF WriteDisputeId, WriteSolver, RInv, PlaceOK
<1>2. /\ TypeOK' /\ WritesAreMeant' /\ KindlessRowsHaveKeys' /\ RestoredKept'
      /\ RowsWritten
      /\ \A p \in Orders : rows[p] # NoRow => rows'[p] # NoRow
  <2>1. "dispute_id" \in Facts /\ "solver" \in Facts
    BY DEF Facts
  <2>. QED  BY <1>1, <2>1, WriteColumnKept DEF WriteDisputeId, WriteSolver
<1>3. /\ UNCHANGED <<answer, known, left, restored, restores>>
      /\ \/ step' = "solver" /\ item' = item
         \/ step' = "disputes" /\ item' = NoItem
  BY DEF WriteDisputeId, WriteSolver
<1>4. RestoreTypeOK'
  BY <1>1, <1>3 DEF RInv, RestoreTypeOK
<1>5. PlaceOK' /\ KnownIsThere'
  BY <1>1, <1>3 DEF RInv, PlaceOK, KnownIsThere
<1>6. AnsweredHaveRows'
  BY <1>1, <1>2, <1>3 DEF RInv, AnsweredHaveRows
<1>. QED  BY <1>2, <1>4, <1>5, <1>6 DEF RInv

LEMMA BeginTrackingKeepsRInv ==
    ASSUME RInv, BeginTracking
    PROVE  RInv' /\ RowsWritten
<1>1. answer # NoAnswer
  BY AnswerWritten DEF BeginTracking
<1>2. RestoreTypeOK' /\ PlaceOK' /\ KnownIsThere' /\ AnsweredHaveRows'
  BY <1>1 DEF BeginTracking, RInv, RestoreTypeOK, PlaceOK, KnownIsThere, AnsweredHaveRows, vars
<1>. QED  BY <1>2, QuietRestoreStep DEF BeginTracking, RInv

LEMMA FinishRestoreKeepsRInv ==
    ASSUME RInv, FinishRestore
    PROVE  RInv' /\ RowsWritten
<1>1. TypeOK' /\ WritesAreMeant' /\ KindlessRowsHaveKeys' /\ RestoredKept'
  BY DEF FinishRestore, Retrack, ActiveOrders, RInv, TypeOK, WritesAreMeant,
         KindlessRowsHaveKeys, RestoredKept, ReadPast
<1>2. RestoreTypeOK' /\ PlaceOK' /\ KnownIsThere' /\ AnsweredHaveRows'
  BY DEF FinishRestore, RInv, RestoreTypeOK, PlaceOK, KnownIsThere, AnsweredHaveRows
<1>. QED  BY <1>1, <1>2 DEF RInv, RowsWritten, RowsKept, FinishRestore

\* After a restart no handler has anything to write.
LEMMA RestartClientKeepsRInv ==
    ASSUME RInv, RestartClient
    PROVE  RInv' /\ RowsWritten
<1>1. /\ \A m \in Dms : jobs'[m] = Fresh
      /\ rows' = rows /\ restored' = restored /\ opened' = opened
  BY DEF RestartClient, Restart
<1>2. TypeOK'
  BY FreshJobs, TradeDmAssumption DEF RestartClient, Restart, ActiveOrders, RInv, TypeOK
<1>3. WritesAreMeant' /\ KindlessRowsHaveKeys' /\ RestoredKept'
  BY <1>1, FreshJobs DEF RInv, WritesAreMeant, KindlessRowsHaveKeys, RestoredKept
<1>4. RestoreTypeOK' /\ PlaceOK' /\ KnownIsThere' /\ AnsweredHaveRows'
  BY DEF RestartClient, RInv, RestoreTypeOK, PlaceOK, KnownIsThere, AnsweredHaveRows
<1>. QED  BY <1>1, <1>2, <1>3, <1>4 DEF RInv, RowsWritten, RowsKept

LEMMA RestoreNextKeepsRInv ==
    ASSUME RInv, [RestoreNext]_allVars
    PROVE  RInv' /\ RowsWritten
<1>1. CASE TradeStep
  BY <1>1, TradeStepKeepsRInv
<1>2. ASSUME NEW a \in Answers, AskRestore(a)
      PROVE  RInv' /\ RowsWritten
  BY <1>2, AskRestoreKeepsRInv
<1>3. ASSUME NEW i \in left, ReadOrder(i) \/ MarkDisputed(i)
      PROVE  RInv' /\ RowsWritten
  BY <1>3, ReadOrderKeepsRInv, MarkDisputedKeepsRInv
<1>4. CASE WriteOrder \/ WriteDisputeId \/ WriteSolver
  BY <1>4, WriteOrderKeepsRInv, WriteDisputeKeepsRInv
<1>5. CASE BeginDisputes \/ BeginTracking \/ FinishRestore
  BY <1>5, BeginDisputesKeepsRInv, BeginTrackingKeepsRInv, FinishRestoreKeepsRInv
<1>6. CASE RestartClient
  BY <1>6, RestartClientKeepsRInv
<1>7. CASE UNCHANGED allVars
  <2>1. RestoreTypeOK' /\ PlaceOK' /\ KnownIsThere' /\ AnsweredHaveRows'
    BY <1>7 DEF allVars, restoreVars, vars, RInv, RestoreTypeOK, PlaceOK, KnownIsThere,
                AnsweredHaveRows
  <2>. QED  BY <1>7, <2>1, QuietRestoreStep DEF allVars, restoreVars, RInv
<1>. QED  BY <1>1, <1>2, <1>3, <1>4, <1>5, <1>6, <1>7 DEF RestoreNext

LEMMA InitRInv == RestoreInit => RInv
<1>. SUFFICES ASSUME RestoreInit PROVE RInv
  OBVIOUS
<1>1. TypeOK
  BY FreshJobs, TradeDmAssumption DEF RestoreInit, Init, TypeOK
<1>2. \A m \in Dms : jobs[m] = Fresh
  BY DEF RestoreInit, Init
<1>3. WritesAreMeant /\ KindlessRowsHaveKeys /\ RestoredKept
  BY <1>2, FreshJobs DEF RestoreInit, Init, WritesAreMeant, KindlessRowsHaveKeys, RestoredKept
<1>4. RestoreTypeOK
  BY RestoreAssumption DEF RestoreInit, RestoreTypeOK
<1>5. PlaceOK /\ KnownIsThere /\ AnsweredHaveRows
  BY DEF RestoreInit, PlaceOK, KnownIsThere, AnsweredHaveRows
<1>. QED  BY <1>1, <1>3, <1>4, <1>5 DEF RInv

-----------------------------------------------------------------------------
(* The theorems.                                                            *)

\* The invariant holds, whether or not handlers overlap.
THEOREM RInvHolds == RestoreSpec => []RInv
<1>1. RInv /\ [RestoreNext]_allVars => RInv'
  BY RestoreNextKeepsRInv
<1>. QED  BY <1>1, InitRInv, PTL DEF RestoreSpec

\* restore() is always at a step of its own, with an answer the relays may
\* deliver and nothing left that is not in it.
THEOREM RestoreTypeCorrect == RestoreSpec => []RestoreTypeOK
<1>1. RInv => RestoreTypeOK
  BY DEF RInv
<1>. QED  BY <1>1, RInvHolds, PTL

\* No DM takes an order behind the status a restore gave it.
THEOREM RestoredStatusKeptHolds == RestoreSpec => []RestoredStatusKept
<1>1. RInv => RestoredStatusKept
  BY DEF RInv, RestoredKept, RestoredStatusKept, HasRetry, Phase
<1>. QED  BY <1>1, RInvHolds, PTL

\* No write, a handler's or the restore's own, loses the dispute id or the
\* solver of a row, though none of them is in a transaction.
THEOREM DisputeNeverLostHolds == RestoreSpec => DisputeNeverLost
<1>1. RInv /\ [RestoreNext]_allVars
         => [\A o \in Orders : rows[o] # NoRow =>
                rows[o].facts \cap SideFacts \subseteq rows'[o].facts]_vars
  BY RestoreNextKeepsRInv, RowsAfter DEF RInv
<1>. QED  BY <1>1, RInvHolds, PTL DEF RestoreSpec, DisputeNeverLost

\* What is active and restored is tracked when restore() ends.
RestoredTracked ==
    step = "track" /\ step' = "idle" /\ restarts' = restarts =>
        \A i \in answer.orders :
            /\ InFlight(i.order)
            /\ HasDetails(rows[i.order]) => "trade_keys" \in rows[i.order].facts
            => i.order \in trades'

LEMMA RestoreEndsTracking ==
    ASSUME RInv, [RestoreNext]_allVars
    PROVE  RestoredTracked
<1>. SUFFICES ASSUME step = "track", step' = "idle", restarts' = restarts,
                     NEW i \in answer.orders, InFlight(i.order),
                     HasDetails(rows[i.order]) => "trade_keys" \in rows[i.order].facts
              PROVE  i.order \in trades'
  BY DEF RestoredTracked
<1>1. FinishRestore
  <2>1. ~RestartClient
    BY DEF RestartClient, Restart, RInv, TypeOK
  <2>2. ~TradeStep /\ ~UNCHANGED allVars
    BY DEF TradeStep, allVars, restoreVars
  <2>3. \A a \in Answers : ~AskRestore(a)
    BY DEF AskRestore
  <2>4. \A j \in left : ~ReadOrder(j) /\ ~MarkDisputed(j)
    BY DEF ReadOrder, MarkDisputed
  <2>5. ~WriteOrder /\ ~WriteDisputeId /\ ~WriteSolver /\ ~BeginDisputes /\ ~BeginTracking
    BY DEF WriteOrder, WriteDisputeId, WriteSolver, BeginDisputes, BeginTracking
  <2>. QED  BY <2>1, <2>2, <2>3, <2>4, <2>5 DEF RestoreNext
<1>2. i.order \in Orders /\ rows[i.order] # NoRow
  BY AnswerWritten DEF RInv, AnsweredHaveRows
<1>3. "trade_keys" \in rows[i.order].facts
  BY <1>2 DEF RInv, KindlessRowsHaveKeys, SoundRow, HasDetails
<1>. QED  BY <1>1, <1>2, <1>3 DEF FinishRestore, Retrack, ActiveOrders, InFlight

\* When restore() ends, every order of the answer that is not over is tracked,
\* but for those the client saved with details and without their trade key.
THEOREM RestoreTracksItsOrdersHolds == RestoreSpec => RestoreTracksItsOrders
<1>1. RInv /\ [RestoreNext]_allVars => [RestoredTracked]_allVars
  BY RestoreEndsTracking
<1>. QED  BY <1>1, RInvHolds, PTL DEF RestoreSpec, RestoreTracksItsOrders, RestoredTracked
=============================================================================
