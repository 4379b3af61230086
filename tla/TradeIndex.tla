------------------------------ MODULE TradeIndex ------------------------------
(***************************************************************************)
(* The trade-index counter and the calls that move it.                      *)
(*                                                                         *)
(* createOrder, takeOrder and sendTradeAction (for the NextTrade key of a   *)
(* range order) each reserve an index in the user row, publish with the key *)
(* derived from it and wait for the daemon; createOrder also raises the row *)
(* when it is done.  restore() raises it to what the daemon remembers,      *)
(* before it writes the order rows.  Calls run concurrently; the process    *)
(* may stop at any point and loses the calls in flight, not the store.      *)
(*                                                                         *)
(* An SQL store reserves in one synchronous call, but its UPDATE touches no *)
(* row when no user row exists.  IndexedDB reads the row, reads it again in *)
(* upsertUser, and puts it: three transactions.                             *)
(***************************************************************************)
EXTENDS Integers, FiniteSets

CONSTANTS
    Calls,        \* call slots, each used once
    Backend,      \* "sql" or "idb"
    Overlapping,  \* may one call enter the store while another is in it?
    NoUser,       \* an absent user row
    InitialUser,  \* last_trade_index of the user row at the start, or NoUser
    DaemonUsed,   \* indexes the daemon knows from earlier installations
    RelayAnswers, \* last indexes in answers to restores of earlier installations
    MaxCrashes    \* bound on crashes

ASSUME TradeIndexAssumption ==
    /\ Backend \in {"sql", "idb"}
    /\ Overlapping \in BOOLEAN
    /\ NoUser \notin Int
    /\ InitialUser \in Nat \cup {NoUser}
    /\ DaemonUsed \subseteq Nat \ {0}
    /\ IsFiniteSet(DaemonUsed)
    /\ RelayAnswers \subseteq Nat
    /\ MaxCrashes \in Nat

VARIABLES
    user,        \* last_trade_index of the user row, or NoUser
    calls,       \* the state of each call
    index,       \* the index each call was given, 0 before it has one
    late,        \* the calls that were given theirs after a finished restore
    published,   \* indexes whose key has signed a message the relay may have
    stored,      \* trade_index of the saved order rows
    answers,     \* last indexes in the daemon's answers that relays hold
    crashes

vars == <<user, calls, index, late, published, stored, answers, crashes>>

Ops == {"create", "take", "next-trade", "restore"}
Pcs == {"idle", "upsert", "put", "reserved", "sent", "row",
        "ask", "check", "rows", "done", "failed"}

\* want: the index an upsert in progress raises the row to; seen: the row
\* IndexedDB has read for it; after: where the call goes on.
CallType == [op : Ops \cup {"none"}, pc : Pcs, want : Nat,
             seen : Nat \cup {NoUser}, after : Pcs]

NewCall == [op |-> "none", pc |-> "idle", want |-> 0, seen |-> NoUser, after |-> "idle"]

TypeOK ==
    /\ user \in Nat \cup {NoUser}
    /\ calls \in [Calls -> CallType]
    /\ index \in [Calls -> Nat]
    /\ late \subseteq Calls
    /\ published \subseteq Nat
    /\ stored \subseteq Nat
    /\ answers \subseteq Nat
    /\ crashes \in 0..MaxCrashes

\* A call between the first and the last access of one store operation.
InStore(c) == calls[c].pc \in {"upsert", "put"}

MayRun(c) == Overlapping \/ \A d \in Calls \ {c} : ~InStore(d)

\* `?? 0` and `?? noneBase` on the row's counter.
LastOr(u, default) == IF u = NoUser THEN default ELSE u

Larger(a, b) == IF a < b THEN b ELSE a

\* noneBase: 1 for orders, 0 for the NextTrade key.
NoneBase(op) == IF op = "next-trade" THEN 0 ELSE 1

\* A counter that is moved the wrong way.
NextIndexCountsDown(op) == LastOr(user, NoneBase(op)) - 1

NextIndex(op) == LastOr(user, NoneBase(op)) + 1

\* The row after an upsert that replaces the counter with what it was given.
UpsertedWithoutMax(u, want) == want

\* The row after upsertUser: MAX(old, new) in both stores.
Upserted(u, want) == Larger(LastOr(u, 0), want)

-----------------------------------------------------------------------------

Init ==
    /\ user = InitialUser
    /\ calls = [c \in Calls |-> NewCall]
    /\ index = [c \in Calls |-> 0]
    /\ late = {}
    /\ published = {}
    /\ stored = {}
    /\ answers = RelayAnswers
    /\ crashes = 0

Restored == \E d \in Calls : calls[d].op = "restore" /\ calls[d].pc = "done"

Given(c, i) ==
    /\ index' = [index EXCEPT ![c] = i]
    /\ late' = IF Restored THEN late \cup {c} ELSE late

\* reserveNextTradeIndex in SQL: the row is read and updated in one call; with
\* no row the UPDATE changes nothing.
ReserveSql(c, op) ==
    /\ Backend = "sql"
    /\ calls[c].pc = "idle"
    /\ op \in Ops \ {"restore"}
    /\ MayRun(c)
    /\ user' = IF user = NoUser THEN NoUser ELSE NextIndex(op)
    /\ Given(c, NextIndex(op))
    /\ calls' = [calls EXCEPT ![c].op = op, ![c].pc = "reserved"]
    /\ UNCHANGED <<published, stored, answers, crashes>>

\* reserveNextTradeIndex in IndexedDB: getUser, then upsertUser.
BeginReserveIdb(c, op) ==
    /\ Backend = "idb"
    /\ calls[c].pc = "idle"
    /\ op \in Ops \ {"restore"}
    /\ MayRun(c)
    /\ calls' = [calls EXCEPT ![c].op = op, ![c].pc = "upsert",
                              ![c].want = NextIndex(op), ![c].after = "reserved"]
    /\ UNCHANGED <<user, index, late, published, stored, answers, crashes>>

\* upsertUser in SQL: INSERT ... ON CONFLICT ... MAX, one statement.
UpsertSql(c) ==
    /\ Backend = "sql"
    /\ calls[c].pc = "upsert"
    /\ MayRun(c)
    /\ user' = Upserted(user, calls[c].want)
    /\ calls' = [calls EXCEPT ![c].pc = calls[c].after]
    /\ UNCHANGED <<index, late, published, stored, answers, crashes>>

\* upsertUser in IndexedDB: getUser, Math.max in memory, then put.
ReadUserIdb(c) ==
    /\ Backend = "idb"
    /\ calls[c].pc = "upsert"
    /\ MayRun(c)
    /\ calls' = [calls EXCEPT ![c].pc = "put", ![c].seen = user]
    /\ UNCHANGED <<user, index, late, published, stored, answers, crashes>>

PutUserIdb(c) ==
    /\ calls[c].pc = "put"
    /\ MayRun(c)
    /\ user' = Upserted(calls[c].seen, calls[c].want)
    /\ calls' = [calls EXCEPT ![c].pc = calls[c].after, ![c].seen = NoUser]
    /\ IF calls[c].after = "reserved"
       THEN Given(c, calls[c].want)
       ELSE UNCHANGED <<index, late>>
    /\ UNCHANGED <<published, stored, answers, crashes>>

-----------------------------------------------------------------------------

\* The message goes out, signed with the reserved key.
Publish(c) ==
    /\ calls[c].pc = "reserved"
    /\ MayRun(c)
    /\ published' = published \cup {index[c]}
    /\ calls' = [calls EXCEPT ![c].pc = "sent"]
    /\ UNCHANGED <<user, index, late, stored, answers, crashes>>

\* The call throws: the publish fails, no reply in time, a refusal.
Fail(c) ==
    /\ calls[c].pc \in {"reserved", "sent", "ask"}
    /\ MayRun(c)
    /\ calls' = [calls EXCEPT ![c].pc = "failed"]
    /\ UNCHANGED <<user, index, late, published, stored, answers, crashes>>

\* The daemon accepts.  takeOrder saves a row only when it was asked for an
\* invoice; sendTradeAction saves none.
Reply(c) ==
    /\ calls[c].pc = "sent"
    /\ MayRun(c)
    /\ \E pc \in CASE calls[c].op = "create" -> {"row"}
                   [] calls[c].op = "take"   -> {"row", "done"}
                   [] OTHER                  -> {"done"} :
          calls' = [calls EXCEPT ![c].pc = pc]
    /\ UNCHANGED <<user, index, late, published, stored, answers, crashes>>

\* persistOrder; createOrder then upserts the user row, takeOrder does not.
SaveRow(c) ==
    /\ calls[c].pc = "row"
    /\ MayRun(c)
    /\ stored' = stored \cup {index[c]}
    /\ calls' = IF calls[c].op = "create"
                THEN [calls EXCEPT ![c].pc = "upsert", ![c].want = index[c],
                                   ![c].after = "done"]
                ELSE [calls EXCEPT ![c].pc = "done"]
    /\ UNCHANGED <<user, index, late, published, answers, crashes>>

-----------------------------------------------------------------------------

\* MostroClient.restore: getUser, upsertUser with the same counter or 0, then
\* the question to the daemon.
StartRestore(c) ==
    /\ calls[c].pc = "idle"
    /\ MayRun(c)
    /\ calls' = [calls EXCEPT ![c].op = "restore", ![c].pc = "upsert",
                              ![c].want = LastOr(user, 0), ![c].after = "ask"]
    /\ UNCHANGED <<user, index, late, published, stored, answers, crashes>>

Known == DaemonUsed \cup published

\* The two answers: effectiveLast is the largest index of the restored orders,
\* the disputes and the daemon's own.  The daemon counts every earlier
\* installation; a message it has not got yet is missing.  The questions carry
\* no request id, and the waiter and the relay poll of roundtripDm accept any
\* answer to the identity key that a relay still holds.
RestoreReplies(c) ==
    /\ calls[c].pc = "ask"
    /\ MayRun(c)
    /\ \E last \in Known \cup {0} :
          /\ \A i \in DaemonUsed : i =< last
          /\ answers' = answers \cup {last}
    /\ \E got \in answers' : calls' = [calls EXCEPT ![c].pc = "check", ![c].want = got]
    /\ UNCHANGED <<user, index, late, published, stored, crashes>>

\* The counter is raised only where there was no row to raise.
RaiseIndexOfMissingRow(c) ==
    /\ calls[c].pc = "check"
    /\ MayRun(c)
    /\ calls' = IF user = NoUser
                THEN [calls EXCEPT ![c].pc = "upsert", ![c].after = "rows"]
                ELSE [calls EXCEPT ![c].pc = "rows"]
    /\ UNCHANGED <<user, index, late, published, stored, answers, crashes>>

\* "Advance last_trade_index BEFORE writing rows": getUser, compare, upsert.
RaiseIndex(c) ==
    /\ calls[c].pc = "check"
    /\ MayRun(c)
    /\ calls' = IF calls[c].want > LastOr(user, 0)
                THEN [calls EXCEPT ![c].pc = "upsert", ![c].after = "rows"]
                ELSE [calls EXCEPT ![c].pc = "rows"]
    /\ UNCHANGED <<user, index, late, published, stored, answers, crashes>>

\* One order of the reply is saved with the key of its index.
RestoreRow(c, i) ==
    /\ calls[c].pc = "rows"
    /\ MayRun(c)
    /\ i \in Known \ stored
    /\ i =< calls[c].want
    /\ stored' = stored \cup {i}
    /\ UNCHANGED <<user, calls, index, late, published, answers, crashes>>

FinishRestore(c) ==
    /\ calls[c].pc = "rows"
    /\ MayRun(c)
    /\ calls' = [calls EXCEPT ![c].pc = "done"]
    /\ UNCHANGED <<user, index, late, published, stored, answers, crashes>>

-----------------------------------------------------------------------------

\* The process ends and starts again: calls in flight are lost.
Crash ==
    /\ crashes < MaxCrashes
    /\ crashes' = crashes + 1
    /\ calls' = [c \in Calls |->
                   IF calls[c].pc \in {"idle", "done", "failed"}
                   THEN calls[c]
                   ELSE [calls[c] EXCEPT !.pc = "failed"]]
    /\ UNCHANGED <<user, index, late, published, stored, answers>>

Next ==
    \/ \E c \in Calls :
          \/ \E op \in Ops : ReserveSql(c, op) \/ BeginReserveIdb(c, op)
          \/ UpsertSql(c)
          \/ ReadUserIdb(c)
          \/ PutUserIdb(c)
          \/ Publish(c)
          \/ Fail(c)
          \/ Reply(c)
          \/ SaveRow(c)
          \/ StartRestore(c)
          \/ RestoreReplies(c)
          \/ RaiseIndex(c)
          \/ \E i \in Known : RestoreRow(c, i)
          \/ FinishRestore(c)
    \/ Crash

Spec == Init /\ [][Next]_vars

-----------------------------------------------------------------------------
(* Properties.                                                              *)

Keys == INSTANCE TradeKeys

\* Every reservation gets an index above all that were handed out before, also
\* across crashes, failed calls and restores: "every trade gets a fresh trade
\* key at a strictly-increasing index" (keys.ts:6).
ImplementsTradeKeys == Keys!Spec

\* No two calls are ever given the same index, so no two trades share a key.
NoIndexReused ==
    \A c, d \in Calls : c # d /\ index[c] # 0 => index[c] # index[d]

\* No saved order row has an index the counter has yet to reach, not even when
\* a restore is cut short between two rows (restore.ts:93).
CounterCoversRows ==
    \A i \in stored : user # NoUser /\ i =< user

\* An index handed out after a finished restore is none that the daemon has
\* seen from an earlier installation: the counter was raised to the
\* "authoritative last trade index" (restore.ts:75).
FreshAfterRestore ==
    \A c \in late : index[c] \notin DaemonUsed
=============================================================================
