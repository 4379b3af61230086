--------------------------- MODULE TradeIndexProofs ---------------------------
(***************************************************************************)
(* Theorems about TradeIndex over an SQL store in which the user row        *)
(* exists, for every set of calls, every history of the daemon and every    *)
(* interleaving: the counter is above everything that was handed out, saved *)
(* or restored, and therefore no trade key is given out twice.              *)
(***************************************************************************)
EXTENDS TradeIndex, TLAPS

\* The installation the theorems are about.
SqlWithUserRow == Backend = "sql" /\ InitialUser \in Nat

\* No relay holds an answer that is older than what the daemon knows.
NoOldAnswers == \A a \in RelayAnswers, i \in DaemonUsed : i =< a

\* Nothing that was handed out or saved is above the counter.
CounterBounds ==
    /\ user \in Nat
    /\ \A c \in Calls : index[c] =< user
    /\ \A i \in stored : i =< user

\* A restore writes rows only once the counter has reached its reply.
RestoreBounds ==
    \A c \in Calls : calls[c].pc = "rows" => calls[c].want =< user

\* Where a call stands agrees with what it has been given.
CallsConsistent ==
    \A c \in Calls :
        /\ calls[c].pc = "idle" => index[c] = 0 /\ c \notin late
        /\ calls[c].pc # "put"
        /\ calls[c].pc = "upsert" => calls[c].after \in {"ask", "rows", "done"}
        /\ calls[c].op = "restore" =>
              /\ calls[c].pc \in {"upsert", "ask", "check", "rows", "done", "failed"}
              /\ calls[c].pc = "upsert" => calls[c].after # "done"

\* Above everything the daemon knows of earlier installations.
Reaches(n) == \A i \in DaemonUsed : i =< n

\* With no old answer about, a restore raises the counter far enough, and no
\* call gets one of those indexes after it.
RestoreReaches ==
    NoOldAnswers =>
        /\ \A a \in answers : Reaches(a)
        /\ \A c \in Calls :
              /\ \/ calls[c].pc \in {"check", "rows"}
                 \/ calls[c].pc = "upsert" /\ calls[c].after = "rows"
                 => Reaches(calls[c].want)
              /\ calls[c].op = "restore" /\ calls[c].pc = "done" => Reaches(user)
        /\ FreshAfterRestore

\* The inductive invariant.
IInv ==
    /\ TypeOK
    /\ CounterBounds
    /\ RestoreBounds
    /\ CallsConsistent
    /\ NoIndexReused
    /\ RestoreReaches

-----------------------------------------------------------------------------

\* upsertUser never lowers the counter and reaches what it was given.
LEMMA UpsertRaises ==
    ASSUME NEW u \in Nat, NEW w \in Nat
    PROVE  Upserted(u, w) \in Nat /\ u =< Upserted(u, w) /\ w =< Upserted(u, w)
  BY TradeIndexAssumption DEF Upserted, Larger, LastOr

\* A reservation in SQL hands out exactly one more than the counter.
LEMMA NextIsOneAbove ==
    ASSUME user \in Nat, NEW op \in Ops
    PROVE  NextIndex(op) = user + 1
  BY TradeIndexAssumption DEF NextIndex, LastOr

\* The initial state satisfies the inductive invariant.
LEMMA InitIInv ==
    ASSUME SqlWithUserRow, Init
    PROVE  IInv
  BY TradeIndexAssumption
     DEF SqlWithUserRow, Init, IInv, TypeOK, CounterBounds, RestoreBounds, CallsConsistent,
         NoIndexReused, RestoreReaches, FreshAfterRestore, NoOldAnswers, Reaches,
         CallType, NewCall, Pcs, Ops

-----------------------------------------------------------------------------
(* What a step of one call has to see to.                                   *)

\* A call whose record becomes new, with the counter no lower than before.
CallInOrder(new) ==
    /\ new.pc = "rows" => new.want =< user'
    /\ new.pc \notin {"idle", "put"}
    /\ new.pc = "upsert" => new.after \in {"ask", "rows", "done"}
    /\ new.op = "restore" =>
          /\ new.pc \in {"upsert", "ask", "check", "rows", "done", "failed"}
          /\ new.pc = "upsert" => new.after # "done"

\* The same for what a restore has to reach.
RestoreInOrder(new) ==
    /\ new.pc \in {"check", "rows"} \/ (new.pc = "upsert" /\ new.after = "rows")
          => Reaches(new.want)
    /\ new.op = "restore" /\ new.pc = "done" => Reaches(user')

LEMMA CallStep ==
    ASSUME IInv, NEW c \in Calls, NEW new \in CallType, calls' = [calls EXCEPT ![c] = new],
           user' \in Nat, user =< user', CallInOrder(new),
           \A d \in Calls \ {c} : index'[d] = index[d] /\ (d \in late' => d \in late)
    PROVE  /\ calls' \in [Calls -> CallType]
           /\ RestoreBounds'
           /\ CallsConsistent'
<1>1. calls \in [Calls -> CallType] /\ user \in Nat
  BY DEF IInv, TypeOK, CounterBounds
<1>2. calls' \in [Calls -> CallType]
  BY <1>1
<1>3. RestoreBounds'
  <2>1. SUFFICES ASSUME NEW d \in Calls, calls'[d].pc = "rows"
                 PROVE  calls'[d].want =< user'
    BY DEF RestoreBounds
  <2>2. CASE d = c
    BY <1>1, <2>1, <2>2 DEF CallInOrder
  <2>3. CASE d # c
    <3>1. calls[d].want \in Nat /\ calls[d].want =< user /\ calls'[d] = calls[d]
      BY <1>1, <2>1, <2>3 DEF IInv, RestoreBounds, CallType
    <3>. QED  BY <1>1, <3>1
  <2>. QED  BY <2>2, <2>3
<1>4. CallsConsistent'
  BY <1>1 DEF IInv, CallsConsistent, CallInOrder
<1>. QED  BY <1>2, <1>3, <1>4

LEMMA ReachesUp ==
    ASSUME NEW m \in Nat, NEW n \in Nat, m =< n, Reaches(m)
    PROVE  Reaches(n)
  BY TradeIndexAssumption DEF Reaches

LEMMA RestoreStep ==
    ASSUME IInv, NEW c \in Calls, NEW new, calls' = [calls EXCEPT ![c] = new],
           user' \in Nat, user =< user',
           NoOldAnswers => /\ \A a \in answers' : Reaches(a)
                           /\ RestoreInOrder(new)
                           /\ FreshAfterRestore'
    PROVE  RestoreReaches'
<1>1. user \in Nat /\ calls \in [Calls -> CallType]
  BY DEF IInv, TypeOK, CounterBounds
<1>2. SUFFICES ASSUME NoOldAnswers, NEW d \in Calls
               PROVE  /\ \/ calls'[d].pc \in {"check", "rows"}
                         \/ calls'[d].pc = "upsert" /\ calls'[d].after = "rows"
                         => Reaches(calls'[d].want)
                      /\ calls'[d].op = "restore" /\ calls'[d].pc = "done" => Reaches(user')
  BY DEF RestoreReaches, Reaches
<1>3. CASE d = c
  BY <1>1, <1>2, <1>3 DEF RestoreInOrder
<1>4. CASE d # c
  <2>1. calls'[d] = calls[d]
    BY <1>1, <1>4
  <2>2. /\ \/ calls[d].pc \in {"check", "rows"}
           \/ calls[d].pc = "upsert" /\ calls[d].after = "rows"
           => Reaches(calls[d].want)
        /\ calls[d].op = "restore" /\ calls[d].pc = "done" => Reaches(user)
    BY <1>2 DEF IInv, RestoreReaches
  <2>. QED  BY <1>1, <2>1, <2>2, ReachesUp
<1>. QED  BY <1>3, <1>4

\* What holds of the past restores.
LEMMA PastRestores ==
    ASSUME IInv, NoOldAnswers
    PROVE  /\ \A a \in answers : Reaches(a)
           /\ FreshAfterRestore
           /\ Restored => Reaches(user)
  BY DEF IInv, RestoreReaches, Restored

\* Steps that hand out no index and save no row.
LEMMA QuietStep ==
    ASSUME IInv, NEW c \in Calls, NEW new \in CallType, calls' = [calls EXCEPT ![c] = new],
           user' \in Nat, user =< user', CallInOrder(new),
           NoOldAnswers => RestoreInOrder(new),
           published' \subseteq Nat, stored' \subseteq stored \cup {index[c]},
           UNCHANGED <<index, late, answers, crashes>>
    PROVE  IInv'
<1>1. TypeOK'
  BY CallStep DEF IInv, TypeOK
<1>2. CounterBounds'
  BY DEF IInv, TypeOK, CounterBounds
<1>3. RestoreBounds' /\ CallsConsistent'
  BY CallStep
<1>4. RestoreReaches'
  <2>1. NoOldAnswers => FreshAfterRestore' /\ \A a \in answers' : Reaches(a)
    BY PastRestores DEF FreshAfterRestore
  <2>. QED  BY <2>1, RestoreStep
<1>5. NoIndexReused'
  BY DEF IInv, NoIndexReused
<1>. QED  BY <1>1, <1>2, <1>3, <1>4, <1>5 DEF IInv

-----------------------------------------------------------------------------
(* One lemma per action or group of actions.                                *)

\* reserveNextTradeIndex keeps the inductive invariant.
LEMMA ReserveKeepsIInv ==
    ASSUME SqlWithUserRow, IInv, NEW c \in Calls, NEW op \in Ops, ReserveSql(c, op)
    PROVE  IInv'
<1>1. user \in Nat /\ user' = user + 1
  BY NextIsOneAbove, TradeIndexAssumption DEF IInv, CounterBounds, ReserveSql
<1>2. index' = [index EXCEPT ![c] = user + 1]
  BY <1>1, NextIsOneAbove DEF ReserveSql, Given
<1>3. late' = IF Restored THEN late \cup {c} ELSE late
  BY DEF ReserveSql, Given
<1> DEFINE new == [calls[c] EXCEPT !.op = op, !.pc = "reserved"]
<1>4. /\ calls' = [calls EXCEPT ![c] = new]
      /\ new \in CallType /\ new.op = op /\ new.pc = "reserved" /\ op # "restore"
  BY DEF ReserveSql, IInv, TypeOK, CallType, Pcs
<1> HIDE DEF new
<1>5. UNCHANGED <<published, stored, answers, crashes>>
  BY DEF ReserveSql
<1>6. CallInOrder(new) /\ RestoreInOrder(new)
  BY <1>4 DEF CallInOrder, RestoreInOrder
<1>7. TypeOK'
  <2>1. index' \in [Calls -> Nat] /\ late' \subseteq Calls /\ user' \in Nat
    BY <1>1, <1>2, <1>3 DEF IInv, TypeOK
  <2>2. calls' \in [Calls -> CallType]
    BY <1>4 DEF IInv, TypeOK
  <2>. QED  BY <1>5, <2>1, <2>2 DEF IInv, TypeOK
<1>8. CounterBounds'
  BY <1>1, <1>2, <1>5 DEF IInv, TypeOK, CounterBounds
<1>9. \A d \in Calls \ {c} : index'[d] = index[d] /\ (d \in late' => d \in late)
  BY <1>2, <1>3 DEF IInv, TypeOK
<1>14. user' \in Nat /\ user =< user'
  BY <1>1
<1>10. RestoreBounds' /\ CallsConsistent'
  BY <1>14, <1>4, <1>6, <1>9, CallStep
<1>11. NoIndexReused'
  BY <1>1, <1>2 DEF IInv, TypeOK, CounterBounds, NoIndexReused
<1>12. NoOldAnswers => FreshAfterRestore'
  <2> SUFFICES ASSUME NoOldAnswers PROVE FreshAfterRestore'
    OBVIOUS
  <2>1. FreshAfterRestore /\ (Restored => Reaches(user))
    BY PastRestores
  <2>2. Restored => user + 1 \notin DaemonUsed
    BY <1>1, <2>1, TradeIndexAssumption DEF Reaches
  <2>3. c \notin late
    BY DEF IInv, CallsConsistent, ReserveSql
  <2>4. \A d \in late : index'[d] = index[d] \/ d = c
    BY <1>2 DEF IInv, TypeOK
  <2>. QED  BY <1>2, <1>3, <2>1, <2>2, <2>3, <2>4 DEF IInv, TypeOK, FreshAfterRestore
<1>13. RestoreReaches'
  <2>1. NoOldAnswers => \A a \in answers' : Reaches(a)
    BY <1>5, PastRestores
  <2>. QED  BY <1>14, <1>4, <1>6, <1>12, <2>1, RestoreStep
<1>. QED  BY <1>7, <1>8, <1>10, <1>11, <1>13 DEF IInv

\* upsertUser keeps the inductive invariant.
LEMMA UpsertKeepsIInv ==
    ASSUME SqlWithUserRow, IInv, NEW c \in Calls, UpsertSql(c)
    PROVE  IInv'
<1>1. /\ user \in Nat /\ calls[c] \in CallType /\ calls[c].pc = "upsert"
      /\ calls[c].want \in Nat /\ calls[c].after \in {"ask", "rows", "done"}
  BY DEF IInv, TypeOK, CounterBounds, CallsConsistent, UpsertSql, CallType
<1>2. user' \in Nat /\ user =< user' /\ calls[c].want =< user'
  BY <1>1, UpsertRaises DEF UpsertSql
<1> DEFINE new == [calls[c] EXCEPT !.pc = calls[c].after]
<1>3. /\ calls' = [calls EXCEPT ![c] = new]
      /\ new \in CallType /\ new.pc = calls[c].after
      /\ new.op = calls[c].op /\ new.want = calls[c].want
  BY <1>1 DEF UpsertSql, IInv, TypeOK, CallType, Pcs
<1>4. calls[c].op = "restore" => calls[c].after # "done"
  BY <1>1 DEF IInv, CallsConsistent
<1> HIDE DEF new
<1>5. CallInOrder(new)
  BY <1>1, <1>2, <1>3, <1>4 DEF CallInOrder
<1>6. NoOldAnswers => RestoreInOrder(new)
  <2>1. NoOldAnswers /\ calls[c].after = "rows" => Reaches(calls[c].want)
    BY <1>1 DEF IInv, RestoreReaches
  <2>. QED  BY <1>1, <1>3, <1>4, <2>1 DEF RestoreInOrder
<1>7. /\ published' \subseteq Nat /\ stored' = stored
      /\ UNCHANGED <<index, late, answers, crashes>>
  BY DEF UpsertSql, IInv, TypeOK
<1>. QED  BY <1>2, <1>3, <1>5, <1>6, <1>7, QuietStep

\* The steps of a call between its visits to the user row keep it too.
LEMMA CallStepsKeepIInv ==
    ASSUME SqlWithUserRow, IInv, NEW c \in Calls,
           Publish(c) \/ Fail(c) \/ Reply(c) \/ SaveRow(c)
    PROVE  IInv'
<1>1. UNCHANGED <<user, index, late, answers, crashes>> /\ user \in Nat /\ user =< user'
  BY DEF Publish, Fail, Reply, SaveRow, IInv, CounterBounds
<1>2. published' \subseteq Nat /\ stored' \subseteq stored \cup {index[c]}
  BY DEF Publish, Fail, Reply, SaveRow, IInv, TypeOK
<1>3. calls[c] \in CallType /\ calls \in [Calls -> CallType] /\ index[c] \in Nat
  BY DEF IInv, TypeOK
<1>4. \E new \in CallType :
         /\ calls' = [calls EXCEPT ![c] = new]
         /\ new.op = calls[c].op
         /\ \/ new.pc = "failed"
            \/ new.pc \in {"sent", "row", "done"} /\ new.op # "restore"
            \/ new.pc = "upsert" /\ new.after = "done" /\ new.op # "restore"
  <2>1. CASE Publish(c)
    <3>1. calls[c].op # "restore"
      BY <2>1 DEF Publish, IInv, CallsConsistent
    <3> DEFINE new == [calls[c] EXCEPT !.pc = "sent"]
    <3>2. new \in CallType /\ new.op = calls[c].op /\ new.pc = "sent"
      BY <1>3 DEF CallType, Pcs
    <3>3. calls' = [calls EXCEPT ![c] = new]
      BY <1>3, <2>1 DEF Publish
    <3>. QED  BY <3>1, <3>2, <3>3
  <2>2. CASE Fail(c)
    <3> DEFINE new == [calls[c] EXCEPT !.pc = "failed"]
    <3>1. new \in CallType /\ new.op = calls[c].op /\ new.pc = "failed"
      BY <1>3 DEF CallType, Pcs
    <3>2. calls' = [calls EXCEPT ![c] = new]
      BY <1>3, <2>2 DEF Fail
    <3>. QED  BY <3>1, <3>2
  <2>3. CASE Reply(c)
    <3>1. calls[c].op # "restore"
      BY <2>3 DEF Reply, IInv, CallsConsistent
    <3>2. PICK pc \in {"row", "done"} : calls' = [calls EXCEPT ![c].pc = pc]
      BY <1>3, <2>3 DEF Reply, CallType, Ops
    <3> DEFINE new == [calls[c] EXCEPT !.pc = pc]
    <3>3. new \in CallType /\ new.op = calls[c].op /\ new.pc = pc
      BY <1>3 DEF CallType, Pcs
    <3>4. calls' = [calls EXCEPT ![c] = new]
      BY <1>3, <3>2
    <3>. QED  BY <3>1, <3>3, <3>4
  <2>4. CASE SaveRow(c)
    <3>1. calls[c].op # "restore"
      BY <2>4 DEF SaveRow, IInv, CallsConsistent
    <3>2. CASE calls[c].op = "create"
      <4> DEFINE new == [calls[c] EXCEPT !.pc = "upsert", !.want = index[c], !.after = "done"]
      <4>1. new \in CallType /\ new.op = calls[c].op /\ new.pc = "upsert" /\ new.after = "done"
        BY <1>3 DEF CallType, Pcs
      <4>2. calls' = [calls EXCEPT ![c] = new]
        BY <1>3, <2>4, <3>2 DEF SaveRow
      <4>. QED  BY <3>1, <4>1, <4>2
    <3>3. CASE calls[c].op # "create"
      <4> DEFINE new == [calls[c] EXCEPT !.pc = "done"]
      <4>1. new \in CallType /\ new.op = calls[c].op /\ new.pc = "done"
        BY <1>3 DEF CallType, Pcs
      <4>2. calls' = [calls EXCEPT ![c] = new]
        BY <1>3, <2>4, <3>3 DEF SaveRow
      <4>. QED  BY <3>1, <4>1, <4>2
    <3>. QED  BY <3>2, <3>3
  <2>. QED  BY <2>1, <2>2, <2>3, <2>4
<1>5. PICK new \in CallType :
         /\ calls' = [calls EXCEPT ![c] = new]
         /\ \/ new.pc = "failed"
            \/ new.pc \in {"sent", "row", "done"} /\ new.op # "restore"
            \/ new.pc = "upsert" /\ new.after = "done" /\ new.op # "restore"
  BY <1>4
<1>6. CallInOrder(new) /\ RestoreInOrder(new)
  BY <1>5 DEF CallInOrder, RestoreInOrder
<1>. QED  BY <1>1, <1>2, <1>5, <1>6, QuietStep

\* The first steps of restore(): the row is there to be read and asked about.
LEMMA StartRestoreKeepsIInv ==
    ASSUME SqlWithUserRow, IInv, NEW c \in Calls, StartRestore(c)
    PROVE  IInv'
<1>1. user \in Nat /\ LastOr(user, 0) = user
  BY TradeIndexAssumption DEF IInv, CounterBounds, LastOr
<1> DEFINE new == [calls[c] EXCEPT !.op = "restore", !.pc = "upsert", !.want = user,
                                   !.after = "ask"]
<1>2. /\ calls' = [calls EXCEPT ![c] = new]
      /\ new \in CallType /\ new.op = "restore" /\ new.pc = "upsert" /\ new.after = "ask"
  BY <1>1 DEF StartRestore, IInv, TypeOK, CallType, Pcs, Ops
<1> HIDE DEF new
<1>3. CallInOrder(new) /\ RestoreInOrder(new)
  BY <1>2 DEF CallInOrder, RestoreInOrder
<1>4. /\ published' \subseteq Nat
      /\ UNCHANGED <<user, stored, index, late, answers, crashes>>
      /\ user' \in Nat /\ user =< user'
  BY <1>1 DEF StartRestore, IInv, TypeOK
<1>. QED  BY <1>1, <1>2, <1>3, <1>4, QuietStep

\* The answer the daemon gives reaches everything it knows; an old one does
\* only if nothing has been used since.
LEMMA RestoreRepliesKeepsIInv ==
    ASSUME SqlWithUserRow, IInv, NEW c \in Calls, RestoreReplies(c)
    PROVE  IInv'
<1>1. PICK last \in Known \cup {0} :
         Reaches(last) /\ answers' = answers \cup {last}
  BY DEF RestoreReplies, Reaches
<1>2. PICK got \in answers' :
         calls' = [calls EXCEPT ![c].pc = "check", ![c].want = got]
  BY DEF RestoreReplies
<1>3. answers' \subseteq Nat /\ got \in Nat
  BY <1>1, <1>2, TradeIndexAssumption DEF Known, IInv, TypeOK
<1> DEFINE new == [calls[c] EXCEPT !.pc = "check", !.want = got]
<1>4. /\ calls' = [calls EXCEPT ![c] = new]
      /\ new \in CallType /\ new.op = calls[c].op /\ new.pc = "check" /\ new.want = got
  BY <1>2, <1>3 DEF IInv, TypeOK, CallType, Pcs
<1> HIDE DEF new
<1>5. /\ UNCHANGED <<user, index, late, published, stored, crashes>>
      /\ user' \in Nat /\ user =< user'
  BY DEF RestoreReplies, IInv, CounterBounds
<1>6. CallInOrder(new)
  BY <1>4 DEF CallInOrder
<1>7. NoOldAnswers => (\A a \in answers' : Reaches(a)) /\ RestoreInOrder(new) /\ FreshAfterRestore'
  BY <1>1, <1>2, <1>4, <1>5, PastRestores DEF RestoreInOrder, FreshAfterRestore
<1>8. TypeOK' /\ RestoreBounds' /\ CallsConsistent'
  BY <1>3, <1>4, <1>5, <1>6, CallStep DEF IInv, TypeOK
<1>9. RestoreReaches'
  BY <1>4, <1>5, <1>7, RestoreStep
<1>10. CounterBounds' /\ NoIndexReused'
  BY <1>5 DEF IInv, CounterBounds, NoIndexReused
<1>. QED  BY <1>8, <1>9, <1>10 DEF IInv

\* The comparison before the raise: without one the counter is there already.
LEMMA RaiseIndexKeepsIInv ==
    ASSUME SqlWithUserRow, IInv, NEW c \in Calls, RaiseIndex(c)
    PROVE  IInv'
<1>1. /\ user \in Nat /\ LastOr(user, 0) = user
      /\ calls[c] \in CallType /\ calls[c].want \in Nat /\ calls[c].pc = "check"
  BY TradeIndexAssumption DEF IInv, TypeOK, CallType, CounterBounds, LastOr, RaiseIndex
<1>2. \E new \in CallType :
         /\ calls' = [calls EXCEPT ![c] = new]
         /\ new.want = calls[c].want
         /\ \/ new.pc = "rows" /\ new.want =< user
            \/ new.pc = "upsert" /\ new.after = "rows"
  <2>1. CASE calls[c].want > user
    <3> DEFINE new == [calls[c] EXCEPT !.pc = "upsert", !.after = "rows"]
    <3>1. /\ new \in CallType /\ new.want = calls[c].want
          /\ new.pc = "upsert" /\ new.after = "rows"
      BY <1>1 DEF CallType, Pcs
    <3>2. calls' = [calls EXCEPT ![c] = new]
      BY <1>1, <2>1 DEF RaiseIndex, IInv, TypeOK
    <3>. QED  BY <3>1, <3>2
  <2>2. CASE ~(calls[c].want > user)
    <3> DEFINE new == [calls[c] EXCEPT !.pc = "rows"]
    <3>1. new \in CallType /\ new.want = calls[c].want /\ new.pc = "rows" /\ new.want =< user
      BY <1>1, <2>2 DEF CallType, Pcs
    <3>2. calls' = [calls EXCEPT ![c] = new]
      BY <1>1, <2>2 DEF RaiseIndex, IInv, TypeOK
    <3>. QED  BY <3>1, <3>2
  <2>. QED  BY <2>1, <2>2
<1>3. PICK new \in CallType :
         /\ calls' = [calls EXCEPT ![c] = new]
         /\ new.want = calls[c].want
         /\ \/ new.pc = "rows" /\ new.want =< user
            \/ new.pc = "upsert" /\ new.after = "rows"
  BY <1>2
<1>4. /\ published' \subseteq Nat
      /\ UNCHANGED <<user, stored, index, late, answers, crashes>>
      /\ user' \in Nat /\ user =< user'
  BY <1>1 DEF RaiseIndex, IInv, TypeOK
<1>5. CallInOrder(new)
  BY <1>3, <1>4 DEF CallInOrder
<1>6. NoOldAnswers => RestoreInOrder(new)
  BY <1>1, <1>3 DEF IInv, RestoreReaches, RestoreInOrder
<1>. QED  BY <1>1, <1>3, <1>4, <1>5, <1>6, QuietStep

\* Writing the restored rows keeps it: their indexes are within the answer.
LEMMA RestoreRowKeepsIInv ==
    ASSUME SqlWithUserRow, IInv, NEW c \in Calls, NEW i \in Known, RestoreRow(c, i)
    PROVE  IInv'
<1>1. calls[c].want =< user /\ calls[c].want \in Nat /\ user \in Nat
  BY DEF IInv, TypeOK, CallType, RestoreBounds, CounterBounds, RestoreRow
<1>2. stored' = stored \cup {i} /\ i \in Nat /\ i =< user
  BY <1>1, TradeIndexAssumption DEF Known, IInv, TypeOK, RestoreRow
<1>3. UNCHANGED <<user, calls, index, late, published, answers, crashes>>
  BY DEF RestoreRow
<1>4. TypeOK' /\ CounterBounds'
  BY <1>2, <1>3 DEF IInv, TypeOK, CounterBounds
<1>. QED  BY <1>3, <1>4 DEF IInv, RestoreBounds, CallsConsistent, NoIndexReused, RestoreReaches,
                            FreshAfterRestore, Reaches

LEMMA FinishRestoreKeepsIInv ==
    ASSUME SqlWithUserRow, IInv, NEW c \in Calls, FinishRestore(c)
    PROVE  IInv'
<1>1. /\ user \in Nat /\ calls[c] \in CallType /\ calls[c].want \in Nat
      /\ calls[c].want =< user
  BY DEF IInv, TypeOK, CallType, CounterBounds, RestoreBounds, FinishRestore
<1>2. NoOldAnswers => Reaches(user)
  <2>1. NoOldAnswers => Reaches(calls[c].want)
    BY DEF IInv, RestoreReaches, FinishRestore
  <2>. QED  BY <1>1, <2>1, ReachesUp
<1> DEFINE new == [calls[c] EXCEPT !.pc = "done"]
<1>3. /\ calls' = [calls EXCEPT ![c] = new]
      /\ new \in CallType /\ new.pc = "done"
  BY <1>1 DEF FinishRestore, IInv, TypeOK, CallType, Pcs
<1> HIDE DEF new
<1>4. /\ published' \subseteq Nat
      /\ UNCHANGED <<user, stored, index, late, answers, crashes>>
      /\ user' \in Nat /\ user =< user'
  BY <1>1 DEF FinishRestore, IInv, TypeOK
<1>5. CallInOrder(new) /\ (NoOldAnswers => RestoreInOrder(new))
  BY <1>2, <1>3, <1>4 DEF CallInOrder, RestoreInOrder
<1>. QED  BY <1>1, <1>3, <1>4, <1>5, QuietStep

\* A crash only ends calls.
LEMMA CrashKeepsIInv ==
    ASSUME SqlWithUserRow, IInv, Crash
    PROVE  IInv'
<1>1. UNCHANGED <<user, index, late, published, stored, answers>>
  BY DEF Crash
<1>2. crashes' \in 0..MaxCrashes
  BY TradeIndexAssumption DEF Crash, IInv, TypeOK
<1>3. calls' \in [Calls -> CallType]
  BY DEF Crash, IInv, TypeOK, CallType, Pcs
<1>4. \A c \in Calls : \/ calls'[c] = calls[c]
                       \/ calls'[c].pc = "failed"
  BY DEF Crash, IInv, TypeOK, CallType
<1>5. TypeOK' /\ CounterBounds'
  BY <1>1, <1>2, <1>3 DEF IInv, TypeOK, CounterBounds
<1>6. RestoreBounds' /\ CallsConsistent'
  BY <1>1, <1>4 DEF IInv, RestoreBounds, CallsConsistent
<1>7. NoIndexReused' /\ RestoreReaches'
  BY <1>1, <1>4 DEF IInv, NoIndexReused, RestoreReaches, FreshAfterRestore, Reaches
<1>. QED  BY <1>5, <1>6, <1>7 DEF IInv

-----------------------------------------------------------------------------

\* Every step keeps the inductive invariant; IndexedDB's steps cannot happen.
LEMMA NextKeepsIInv ==
    ASSUME SqlWithUserRow, IInv, [Next]_vars
    PROVE  IInv'
<1>1. CASE UNCHANGED vars
  BY <1>1 DEF vars, IInv, TypeOK, CounterBounds, RestoreBounds, CallsConsistent,
              NoIndexReused, RestoreReaches, FreshAfterRestore, Reaches
<1>2. ASSUME NEW c \in Calls, NEW op \in Ops, ReserveSql(c, op) \/ BeginReserveIdb(c, op)
      PROVE  IInv'
  BY <1>2, ReserveKeepsIInv DEF SqlWithUserRow, BeginReserveIdb
<1>3. ASSUME NEW c \in Calls, UpsertSql(c)
      PROVE  IInv'
  BY <1>3, UpsertKeepsIInv
<1>4. ASSUME NEW c \in Calls, ReadUserIdb(c) \/ PutUserIdb(c)
      PROVE  FALSE
  BY <1>4 DEF SqlWithUserRow, ReadUserIdb, PutUserIdb, IInv, CallsConsistent
<1>5. ASSUME NEW c \in Calls, Publish(c) \/ Fail(c) \/ Reply(c) \/ SaveRow(c)
      PROVE  IInv'
  BY <1>5, CallStepsKeepIInv
<1>6. ASSUME NEW c \in Calls, StartRestore(c) \/ RestoreReplies(c) \/ RaiseIndex(c)
      PROVE  IInv'
  BY <1>6, StartRestoreKeepsIInv, RestoreRepliesKeepsIInv, RaiseIndexKeepsIInv
<1>7. ASSUME NEW c \in Calls, FinishRestore(c) \/ \E i \in Known : RestoreRow(c, i)
      PROVE  IInv'
  BY <1>7, FinishRestoreKeepsIInv, RestoreRowKeepsIInv
<1>8. CASE Crash
  BY <1>8, CrashKeepsIInv
<1>. QED  BY <1>1, <1>2, <1>3, <1>4, <1>5, <1>6, <1>7, <1>8 DEF Next

\* The inductive invariant holds in every reachable state.
THEOREM IInvHolds == ASSUME SqlWithUserRow PROVE Spec => []IInv
<1>1. Init => IInv
  BY InitIInv
<1>2. IInv /\ [Next]_vars => IInv'
  BY NextKeepsIInv
<1>. QED  BY <1>1, <1>2, PTL DEF Spec

\* The state always has its type.
THEOREM TypeCorrect == ASSUME SqlWithUserRow PROVE Spec => []TypeOK
<1>1. IInv => TypeOK
  BY DEF IInv
<1>. QED  BY <1>1, IInvHolds, PTL

\* Whatever the calls, their interleaving and the crashes between them, no two
\* are given the same trade index.
THEOREM NoIndexReusedHolds == ASSUME SqlWithUserRow PROVE Spec => []NoIndexReused
<1>1. IInv => NoIndexReused
  BY DEF IInv
<1>. QED  BY <1>1, IInvHolds, PTL

\* The counter covers every saved row, restored or not.
THEOREM CounterCoversRowsHolds == ASSUME SqlWithUserRow PROVE Spec => []CounterCoversRows
<1>1. IInv => CounterCoversRows
  BY TradeIndexAssumption DEF IInv, CounterBounds, CounterCoversRows
<1>. QED  BY <1>1, IInvHolds, PTL

\* After a restore no call gets an index the daemon knew before, provided no
\* relay holds an old answer to the identity key.
THEOREM FreshAfterRestoreHolds ==
    ASSUME SqlWithUserRow, NoOldAnswers PROVE Spec => []FreshAfterRestore
<1>1. IInv => FreshAfterRestore
  BY DEF IInv, RestoreReaches
<1>. QED  BY <1>1, IInvHolds, PTL

-----------------------------------------------------------------------------

\* A step hands out a fresh index, above all others, or none.
LEMMA StepIssuesOrStutters ==
    ASSUME SqlWithUserRow, IInv, [Next]_vars
    PROVE  [Keys!Next]_index
<1>1. ASSUME NEW c \in Calls, NEW op \in Ops, ReserveSql(c, op)
      PROVE  Keys!Issue(c)
  <2>1. user \in Nat /\ index' = [index EXCEPT ![c] = user + 1]
    BY <1>1, NextIsOneAbove DEF ReserveSql, Given, IInv, CounterBounds
  <2>2. index[c] = 0
    BY <1>1 DEF ReserveSql, IInv, CallsConsistent
  <2>3. index'[c] = user + 1 /\ \A d \in Calls : index[d] < index'[c]
    BY <2>1 DEF IInv, TypeOK, CounterBounds
  <2>. QED  BY <2>1, <2>2, <2>3 DEF Keys!Issue
<1>2. ASSUME NEW c \in Calls, NEW op \in Ops, BeginReserveIdb(c, op)
      PROVE  UNCHANGED index
  BY <1>2 DEF BeginReserveIdb
<1>3. ASSUME NEW c \in Calls,
             \/ UpsertSql(c) \/ ReadUserIdb(c) \/ Publish(c) \/ Fail(c) \/ Reply(c)
             \/ SaveRow(c) \/ StartRestore(c) \/ RestoreReplies(c) \/ RaiseIndex(c)
             \/ (\E i \in Known : RestoreRow(c, i)) \/ FinishRestore(c)
      PROVE  UNCHANGED index
  BY <1>3 DEF UpsertSql, ReadUserIdb, Publish, Fail, Reply, SaveRow, StartRestore,
              RestoreReplies, RaiseIndex, RestoreRow, FinishRestore
<1>4. ASSUME NEW c \in Calls, PutUserIdb(c)
      PROVE  FALSE
  BY <1>4 DEF PutUserIdb, IInv, CallsConsistent
<1>5. CASE Crash \/ UNCHANGED vars
  BY <1>5 DEF Crash, vars
<1>. QED  BY <1>1, <1>2, <1>3, <1>4, <1>5 DEF Next, Keys!Next

\* The counter and its calls implement the promise about trade keys: each call
\* gets a fresh index above all that were handed out before it.
THEOREM TradeKeysImplemented == ASSUME SqlWithUserRow PROVE Spec => ImplementsTradeKeys
<1>1. Init => Keys!Init
  BY DEF Init, Keys!Init
<1>2. IInv /\ [Next]_vars => [Keys!Next]_index
  BY StepIssuesOrStutters
<1>. QED  BY <1>1, <1>2, IInvHolds, PTL DEF Spec, ImplementsTradeKeys, Keys!Spec
=============================================================================
