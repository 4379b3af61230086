---------------------------- MODULE ChatSyncProofs ----------------------------
(***************************************************************************)
(* Theorems about ChatSync for every set of messages, each of the stores     *)
(* and any number of stops, restarts and restores.                          *)
(***************************************************************************)
EXTENDS ChatSync, FiniteSetTheorems, FunctionTheorems, TLAPS

-----------------------------------------------------------------------------
(* Operators.                                                               *)

\* What is appended to a conversation is shown beside what was, and once if it
\* was not shown before.
LEMMA Appended ==
    ASSUME NEW S, NEW s \in Seq(S), NEW x \in S
    PROVE  /\ Append(s, x) \in Seq(S)
           /\ ToSet(Append(s, x)) = ToSet(s) \cup {x}
           /\ IsInjective(s) /\ x \notin ToSet(s) => IsInjective(Append(s, x))
<1> DEFINE t == Append(s, x)
<1>1. /\ t \in Seq(S)
      /\ DOMAIN s = 1..Len(s) /\ DOMAIN t = 1..(Len(s) + 1)
      /\ \A i \in 1..Len(s) : t[i] = s[i]
      /\ t[Len(s) + 1] = x /\ Len(s) \in Nat
  OBVIOUS
<1> HIDE DEF t
<1>2. 1..(Len(s) + 1) = (1..Len(s)) \cup {Len(s) + 1}
  BY <1>1
<1>3. ToSet(t) = ToSet(s) \cup {x}
  BY <1>1, <1>2 DEF ToSet
<1>4. IsInjective(s) /\ x \notin ToSet(s) => IsInjective(t)
  <2> SUFFICES ASSUME IsInjective(s), x \notin ToSet(s),
                      NEW i \in DOMAIN t, NEW j \in DOMAIN t, t[i] = t[j]
               PROVE  i = j
    BY DEF IsInjective
  <2>1. \A k \in 1..Len(s) : s[k] # x
    BY <1>1 DEF ToSet
  <2>2. \A k, l \in 1..Len(s) : s[k] = s[l] => k = l
    BY <1>1 DEF IsInjective
  <2> QED
    BY <1>1, <1>2, <2>1, <2>2
<1> QED
  BY <1>1, <1>3, <1>4 DEF t

\* Of a finite set of messages those sent before one of them are fewer than
\* those sent before a later one.
LEMMA Earlier ==
    ASSUME NEW M, M \subseteq Messages, IsFiniteSet(M), NEW a \in M, NEW b \in M
    PROVE  LET Before(m) == {n \in M : n.at < m.at}
           IN  /\ Cardinality(Before(a)) \in 0..(Cardinality(M) - 1)
               /\ a.at < b.at => Cardinality(Before(a)) < Cardinality(Before(b))
<1> DEFINE Before(m) == {n \in M : n.at < m.at}
<1>1. a.at \in Nat /\ b.at \in Nat
  BY ChatSyncAssumption DEF MessageType
<1>2. IsFiniteSet(Before(a)) /\ IsFiniteSet(Before(b)) /\ IsFiniteSet(M)
  BY FS_Subset
<1>3. a \notin Before(a) /\ Before(a) \subseteq M
  BY <1>1
<1>4. Cardinality(Before(a)) =< Cardinality(M) /\ Cardinality(Before(a)) # Cardinality(M)
  BY <1>3, FS_Subset
<1>5. ASSUME a.at < b.at
      PROVE  Cardinality(Before(a)) < Cardinality(Before(b))
  <2>1. Before(a) \in SUBSET Before(b)
    <3> SUFFICES ASSUME NEW n \in M, n.at < a.at
                 PROVE  n.at < b.at
      OBVIOUS
    <3>1. n.at \in Nat
      BY ChatSyncAssumption DEF MessageType
    <3> QED
      BY <3>1, <1>1, <1>5
  <2>2. a \in Before(b)
    BY <1>5
  <2>3. Before(a) # Before(b)
    BY <2>2, <1>3
  <2> HIDE DEF Before
  <2>4. /\ Cardinality(Before(a)) =< Cardinality(Before(b))
        /\ Cardinality(Before(a)) # Cardinality(Before(b))
    BY <2>1, <2>3, <1>2, FS_Subset
  <2>5. Cardinality(Before(a)) \in Nat /\ Cardinality(Before(b)) \in Nat
    BY <1>2, FS_CardinalityType
  <2> QED
    BY <2>4, <2>5
<1> HIDE DEF Before
<1>6. Cardinality(Before(a)) \in Nat /\ Cardinality(M) \in Nat
  BY <1>2, FS_CardinalityType
<1>7. Cardinality(Before(a)) \in 0..(Cardinality(M) - 1)
  BY <1>4, <1>6
<1> QED
  BY <1>5, <1>7 DEF Before

\* Every finite set of messages can be put in the order of their created_at,
\* and Chronological returns it so: each message once.
LEMMA ChronologicalSorts ==
    ASSUME NEW M, M \subseteq Messages, IsFiniteSet(M)
    PROVE  /\ Chronological(M) \in Seq(M)
           /\ ToSet(Chronological(M)) = M
           /\ IsInjective(Chronological(M))
<1> DEFINE n == Cardinality(M)
           Before(m) == {k \in M : k.at < m.at}
           rank == [m \in M |-> Cardinality(Before(m)) + 1]
           Sorted(s) == \A i, j \in 1..n : i < j => s[i].at < s[j].at
<1>1. n \in Nat
  BY FS_CardinalityType
<1>2. \A m \in M : Cardinality(Before(m)) \in 0..(n - 1)
  BY Earlier
<1>3. \A a, b \in M : a.at < b.at => Cardinality(Before(a)) < Cardinality(Before(b))
  BY Earlier
<1> HIDE DEF Before
<1>4. rank \in [M -> 1..n]
  <2>1. \A m \in M : Cardinality(Before(m)) + 1 \in 1..n
    BY <1>1, <1>2
  <2> QED
    BY <2>1
<1>5. \A a, b \in M : a.at < b.at => rank[a] < rank[b]
  BY <1>1, <1>2, <1>3
<1> HIDE DEF rank
<1>6. \A a, b \in M : a.at \in Nat /\ b.at \in Nat /\ (a # b => a.at < b.at \/ b.at < a.at)
  <2> TAKE a, b \in M
  <2>1. a.at \in Nat /\ b.at \in Nat /\ (a.at = b.at => a = b)
    BY ChatSyncAssumption DEF MessageType
  <2> QED
    BY <2>1
<1>7. \A a, b \in M : rank[a] = rank[b] => a = b
  <2> TAKE a, b \in M
  <2>1. rank[a] \in Nat /\ rank[b] \in Nat
    BY <1>4
  <2> QED
    BY <1>5, <1>6, <2>1
<1>8. rank \in Injection(M, 1..n)
  BY <1>4, <1>7, Fun_IsInj
<1>9. IsFiniteSet(1..n) /\ Cardinality(1..n) = n
  <2>1. 1 \in Int /\ n \in Int
    BY <1>1
  <2>2. IsFiniteSet(1..n) /\ Cardinality(1..n) = IF 1 > n THEN 0 ELSE n - 1 + 1
    BY <2>1, FS_Interval
  <2> QED
    BY <2>2, <1>1
<1>10. rank \in Surjection(M, 1..n)
  BY <1>8, <1>9, FS_Injection
<1>11. \A i \in 1..n : \E m \in M : rank[m] = i
  BY <1>10, Fun_SurjectionProperties
<1>12. \E s \in [1..n -> M] : Sorted(s)
  <2> DEFINE s == [i \in 1..n |-> CHOOSE m \in M : rank[m] = i]
  <2>1. \A i \in 1..n : s[i] \in M /\ rank[s[i]] = i
    BY <1>11
  <2>2. s \in [1..n -> M]
    BY <2>1
  <2> HIDE DEF s
  <2>3. ASSUME NEW i \in 1..n, NEW j \in 1..n, i < j
        PROVE  s[i].at < s[j].at
    <3>1. ~(s[j].at < s[i].at) /\ s[i] # s[j]
      BY <2>1, <2>3, <1>1, <1>5
    <3> QED
      BY <3>1, <2>1, <1>6
  <2> QED
    BY <2>2, <2>3
<1> DEFINE c == Chronological(M)
<1>13. c \in [1..n -> M] /\ Sorted(c)
  BY <1>12 DEF Chronological
<1> HIDE DEF c, n
<1>14. c \in Seq(M) /\ DOMAIN c = 1..n
  BY <1>13, <1>1
<1>15. \A i, j \in 1..n : c[i] = c[j] => i = j
  <2> TAKE i, j \in 1..n
  <2>1. c[i].at \in Nat /\ c[j].at \in Nat
    BY <1>13, <1>6
  <2>2. (i < j => c[i].at < c[j].at) /\ (j < i => c[j].at < c[i].at)
    BY <1>13
  <2> QED
    BY <2>1, <2>2, <1>1
<1>16. IsInjective(c)
  BY <1>14, <1>15 DEF IsInjective
<1>17. c \in Injection(1..n, M)
  BY <1>13, <1>15, Fun_IsInj
<1>18. c \in Surjection(1..n, M)
  BY <1>17, <1>9, FS_Injection DEF n
<1>19. ToSet(c) = M
  <2>1. \A m \in M : \E i \in 1..n : c[i] = m
    BY <1>18 DEF Surjection
  <2> QED
    BY <2>1, <1>13, <1>14 DEF ToSet
<1> QED
  BY <1>14, <1>16, <1>19 DEF c

-----------------------------------------------------------------------------
(* The inductive invariant.                                                 *)

\* The state's types, and that every set of messages is finite.
Types ==
    /\ TypeOK
    /\ history \in [Scopes -> Seq(Messages)]
    /\ sink \in [Scopes -> Seq(Messages)]
    /\ asked \in [Scopes -> SUBSET Messages]
    /\ entries \subseteq Scopes
    /\ IsFiniteSet(store) /\ IsFiniteSet(saving)

\* A message is in the timeline or the UI's list because chatSeen has it, which
\* is what keeps it from being added again.
SeenOnce ==
    /\ \A s \in Scopes : Shown(s) \subseteq seen
    /\ NoMessageTwice

\* What is shown can be brought back from the store, whoever runs; what a
\* hydration is about to show is stored.
ShownIsSaved ==
    /\ \A s \in Scopes : Shown(s) \subseteq store \cup saving
    /\ read \subseteq store

\* Plain SQLite leaves nothing half done: once this client has hydrated the
\* conversations they are the stored ones, and it handles no event before.
SqliteInStep ==
    backend = "sqlite" =>
        /\ saving = {} /\ resuming # "replace"
        /\ running /\ resuming = "no" => "order" \in entries
        /\ "order" \in entries => \A s \in Scopes : Shown(s) = Of(s, store)

CInv == Types /\ SeenOnce /\ ShownIsSaved /\ SqliteInStep

\* The part of Types about the copies of the conversations.
CopiesTyped ==
    /\ store \subseteq Messages /\ saving \subseteq Messages /\ seen \subseteq Messages
    /\ IsFiniteSet(store) /\ IsFiniteSet(saving)
    /\ history \in [Scopes -> Seq(Messages)] /\ sink \in [Scopes -> Seq(Messages)]
    /\ entries \subseteq Scopes
    /\ \A s \in Scopes : /\ Shown(s) \subseteq Of(s, Messages)
                         /\ ToSet(sink[s]) \subseteq Of(s, seen)
                         /\ s \notin entries => history[s] = <<>>

\* A message recorded while the client runs.
LEMMA RecordKeeps ==
    ASSUME CInv, NEW m \in Messages, Record(m), MayRun,
           UNCHANGED <<backend, running, resuming, read>>
    PROVE  CopiesTyped' /\ SeenOnce' /\ ShownIsSaved' /\ SqliteInStep'
<1> USE DEF CInv, Types
<1>1. m.scope \in Scopes
  BY ChatSyncAssumption DEF MessageType
<1> DEFINE h == history[m.scope]
           k == sink[m.scope]
<1>2. /\ h \in Seq(Messages) /\ k \in Seq(Messages)
      /\ IsInjective(h) /\ IsInjective(k)
      /\ m \notin ToSet(h) /\ m \notin ToSet(k)
  BY <1>1 DEF TypeOK, SeenOnce, NoMessageTwice, Shown, Of, Record
<1>3. /\ Append(h, m) \in Seq(Messages) /\ Append(k, m) \in Seq(Messages)
      /\ ToSet(Append(h, m)) = ToSet(h) \cup {m} /\ ToSet(Append(k, m)) = ToSet(k) \cup {m}
      /\ IsInjective(Append(h, m)) /\ IsInjective(Append(k, m))
  BY <1>2, Appended
<1>4. /\ \A s \in Scopes : history'[s] = IF s = m.scope THEN Append(h, m) ELSE history[s]
      /\ \A s \in Scopes : sink'[s] = IF s = m.scope THEN Append(k, m) ELSE sink[s]
      /\ history' \in [Scopes -> Seq(Messages)] /\ sink' \in [Scopes -> Seq(Messages)]
  BY <1>1, <1>3 DEF Record, Upserted
<1>5. \A s \in Scopes : /\ Shown(s)' = IF s = m.scope THEN Shown(s) \cup {m} ELSE Shown(s)
                        /\ ToSet(sink'[s]) = IF s = m.scope THEN ToSet(k) \cup {m} ELSE ToSet(sink[s])
                        /\ IsInjective(history'[s]) /\ IsInjective(sink'[s])
  BY <1>3, <1>4 DEF Shown, SeenOnce, NoMessageTwice
<1>6. store' \subseteq Messages /\ saving' \subseteq Messages /\ seen' = seen \cup {m}
  BY DEF Record, TypeOK
<1>7. IsFiniteSet(store \cup {m}) /\ IsFiniteSet(saving \cup {m})
  BY FS_AddElement
<1>8. IsFiniteSet(store') /\ IsFiniteSet(saving')
  BY <1>7 DEF Record
<1>9. ASSUME NEW s \in Scopes
      PROVE  /\ Shown(s)' \subseteq Of(s, Messages)
             /\ ToSet(sink'[s]) \subseteq Of(s, seen')
             /\ s \notin entries' => history'[s] = <<>>
  BY <1>4, <1>5, <1>6 DEF TypeOK, Of, Record
<1>10. entries' \subseteq Scopes
  BY <1>1 DEF Record
<1>11. CopiesTyped'
  <2>1. seen' \subseteq Messages
    BY <1>6 DEF TypeOK
  <2>2. (\A s \in Scopes : /\ Shown(s) \subseteq Of(s, Messages)
                           /\ ToSet(sink[s]) \subseteq Of(s, seen)
                           /\ s \notin entries => history[s] = <<>>)'
    BY <1>9 DEF Shown, Of
  <2> QED
    BY <1>4, <1>6, <1>8, <1>10, <2>1, <2>2 DEF CopiesTyped
<1>12. SeenOnce'
  BY <1>5, <1>6 DEF SeenOnce, NoMessageTwice, Shown
<1>13. ShownIsSaved'
  BY <1>5 DEF ShownIsSaved, Record, Shown
<1>14. SqliteInStep'
  <2> SUFFICES ASSUME backend = "sqlite"
               PROVE  /\ saving' = {} /\ resuming' # "replace"
                      /\ running' /\ resuming' = "no" => "order" \in entries'
                      /\ "order" \in entries' => \A s \in Scopes : Shown(s)' = Of(s, store')
    BY DEF SqliteInStep, Shown, Of
  <2>1. running /\ resuming = "no" /\ "order" \in entries
    BY DEF MayRun, SqliteInStep
  <2>2. \A s \in Scopes : Shown(s) = Of(s, store)
    BY <2>1 DEF SqliteInStep
  <2>3. store' = store \cup {m}
    BY DEF Record
  <2>4. \A s \in Scopes : Shown(s)' = Of(s, store')
    BY <2>2, <2>3, <1>5 DEF Of
  <2> QED
    BY <2>1, <2>4 DEF SqliteInStep, Record
<1> QED
  BY <1>11, <1>12, <1>13, <1>14

\* A hydration with rows that are stored, and with all of them if the store is
\* plain SQLite.
LEMMA ReplaceKeeps ==
    ASSUME CInv, NEW rows, rows \subseteq store, Replace(rows),
           backend = "sqlite" => rows = store,
           resuming' = "no", read' \subseteq store,
           UNCHANGED <<backend, disk, sink>>
    PROVE  CopiesTyped' /\ SeenOnce' /\ ShownIsSaved' /\ SqliteInStep'
<1> USE DEF CInv, Types
<1>1. rows \subseteq Messages
  BY DEF TypeOK
<1>2. ASSUME NEW s \in Scopes
      PROVE  /\ Chronological(Of(s, rows)) \in Seq(Messages)
             /\ ToSet(Chronological(Of(s, rows))) = Of(s, rows)
             /\ IsInjective(Chronological(Of(s, rows)))
  <2>1. Of(s, rows) \subseteq Messages /\ Of(s, rows) \in SUBSET store
    BY <1>1 DEF Of
  <2>2. IsFiniteSet(Of(s, rows))
    BY <2>1, FS_Subset
  <2>3. /\ Chronological(Of(s, rows)) \in Seq(Of(s, rows))
        /\ ToSet(Chronological(Of(s, rows))) = Of(s, rows)
        /\ IsInjective(Chronological(Of(s, rows)))
    BY <2>1, <2>2, ChronologicalSorts
  <2> QED
    BY <2>1, <2>3
<1>3. \A s \in Scopes : history'[s] = Chronological(Of(s, rows))
  BY DEF Replace
<1>4. history' \in [Scopes -> Seq(Messages)]
  BY <1>2 DEF Replace
<1>5. \A s \in Scopes : Shown(s)' = Of(s, rows) /\ IsInjective(history'[s])
  BY <1>2, <1>3 DEF Shown
<1>6. CopiesTyped'
  <2>1. /\ seen' = seen \cup rows /\ seen' \subseteq Messages
        /\ store' = store /\ saving' = saving /\ sink' = sink /\ entries' = Scopes
    BY <1>1 DEF Replace, TypeOK, disk
  <2>2. ASSUME NEW s \in Scopes
        PROVE  Of(s, rows) \subseteq Of(s, Messages) /\ ToSet(sink[s]) \subseteq Of(s, seen')
    BY <1>1, <2>1 DEF TypeOK, Of
  <2>3. (\A s \in Scopes : /\ Shown(s) \subseteq Of(s, Messages)
                           /\ ToSet(sink[s]) \subseteq Of(s, seen)
                           /\ s \notin entries => history[s] = <<>>)'
    BY <1>5, <2>1, <2>2 DEF Shown, Of
  <2> QED
    BY <1>4, <2>1, <2>3 DEF CopiesTyped, TypeOK
<1>7. SeenOnce'
  BY <1>5 DEF SeenOnce, NoMessageTwice, Shown, Of, Replace
<1>8. ShownIsSaved'
  BY <1>5 DEF ShownIsSaved, Shown, Of, disk
<1>9. SqliteInStep'
  BY <1>5 DEF SqliteInStep, Shown, Of, disk, Replace, Scopes
<1> QED
  BY <1>6, <1>7, <1>8, <1>9

\* A step that changes no copy and does not let the client run before it has
\* hydrated.
LEMMA OthersKeep ==
    ASSUME CInv, UNCHANGED <<backend, disk, memory>>, read' \subseteq store,
           resuming' = "replace" => backend # "sqlite",
           backend = "sqlite" /\ running' /\ resuming' = "no" => "order" \in entries
    PROVE  CopiesTyped' /\ SeenOnce' /\ ShownIsSaved' /\ SqliteInStep'
<1> USE DEF CInv, Types, disk, memory, Shown, Of
<1>1. CopiesTyped'
  BY DEF CopiesTyped, TypeOK
<1>2. SeenOnce'
  BY DEF SeenOnce, NoMessageTwice
<1>3. ShownIsSaved'
  BY DEF ShownIsSaved
<1>4. SqliteInStep'
  BY DEF SqliteInStep
<1> QED
  BY <1>1, <1>2, <1>3, <1>4

\* The rest of Types, about the subscriptions and the loop.
LinksTyped ==
    /\ backend \in Backends
    /\ relay \subseteq Messages /\ old \subseteq relay
    /\ known \subseteq Scopes /\ subscribed \subseteq known /\ open \subseteq subscribed
    /\ asked \in [Scopes -> SUBSET Messages]
    /\ \A s \in Scopes : asked[s] \subseteq Of(s, Messages)
    /\ running \in BOOLEAN
    /\ resuming \in {"no", "track", "hydrate", "replace"}
    /\ read \subseteq Messages
    /\ forgotten \in 0..MaxSessions /\ stops \in 0..MaxSessions

LEMMA TypesSplit == Types <=> CopiesTyped /\ LinksTyped
BY DEF Types, TypeOK, CopiesTyped, LinksTyped

\* Subscribing to a conversation whose key is known.
LEMMA TrackTyped ==
    ASSUME Types, NEW s \in Scopes, Track(s), known' \in SUBSET Scopes, known \subseteq known'
    PROVE  /\ subscribed' \subseteq known' /\ open' \subseteq subscribed'
           /\ asked' \in [Scopes -> SUBSET Messages]
           /\ \A r \in Scopes : asked'[r] \subseteq Of(r, Messages)
<1>1. /\ subscribed \subseteq known /\ open \subseteq subscribed
      /\ asked \in [Scopes -> SUBSET Messages]
      /\ \A r \in Scopes : asked[r] \subseteq Of(r, Messages)
  BY DEF Types, TypeOK
<1>2. Of(s, Messages \ old) \subseteq Of(s, Messages) /\ Of(s, Messages) \subseteq Messages
  BY DEF Of
<1> QED
  BY <1>1, <1>2 DEF Track, subscriptions

-----------------------------------------------------------------------------

LEMMA InitCInv == Init => CInv
<1> SUFFICES ASSUME Init PROVE CInv
  OBVIOUS
<1>1. IsFiniteSet({})
  BY FS_EmptySet
<1>2. <<>> \in Seq(Messages) /\ ToSet(<<>>) = {} /\ IsInjective(<<>>)
  BY DEF ToSet, IsInjective
<1>3. MaxSessions \in Nat
  BY ChatSyncAssumption
<1>4. history \in [Scopes -> Seq(Messages)] /\ sink \in [Scopes -> Seq(Messages)]
  BY <1>2 DEF Init
<1>5. \A s \in Scopes : history[s] = <<>> /\ sink[s] = <<>>
  BY DEF Init
<1>6. CopiesTyped
  BY <1>1, <1>2, <1>4, <1>5 DEF Init, CopiesTyped, Shown, Of
<1>7. LinksTyped
  <2>1. 0 \in 0..MaxSessions
    BY <1>3
  <2>2. asked \in [Scopes -> SUBSET Messages] /\ \A s \in Scopes : asked[s] = {}
    BY DEF Init
  <2> QED
    BY <2>1, <2>2 DEF Init, LinksTyped
<1>8. SeenOnce
  BY <1>2, <1>5 DEF Init, SeenOnce, NoMessageTwice, Shown
<1>9. ShownIsSaved
  BY <1>2, <1>5 DEF Init, ShownIsSaved, Shown
<1>10. SqliteInStep
  BY DEF Init, SqliteInStep
<1> QED
  BY <1>6, <1>7, <1>8, <1>9, <1>10, TypesSplit DEF CInv

LEMMA NextCInv == CInv /\ [Next]_vars => CInv'
<1> SUFFICES ASSUME CInv, [Next]_vars
             PROVE  (CopiesTyped /\ LinksTyped)' /\ SeenOnce' /\ ShownIsSaved' /\ SqliteInStep'
  BY TypesSplit, PTL DEF CInv
<1>0. Types /\ CopiesTyped /\ LinksTyped /\ SeenOnce /\ ShownIsSaved /\ SqliteInStep
  BY TypesSplit DEF CInv
<1>u. UNCHANGED external => UNCHANGED <<backend, relay, old, known>>
  BY DEF external
<1>1. ASSUME NEW s \in Scopes, HearDm(s)
      PROVE  (CopiesTyped /\ LinksTyped)' /\ SeenOnce' /\ ShownIsSaved' /\ SqliteInStep'
  <2>1. UNCHANGED <<backend, relay, old, disk, memory, loop, running, bounds>>
    BY <1>1 DEF HearDm
  <2>2. CopiesTyped' /\ SeenOnce' /\ ShownIsSaved' /\ SqliteInStep'
    BY <1>0, <2>1, OthersKeep DEF loop, ShownIsSaved, SqliteInStep
  <2>3. known' \in SUBSET Scopes /\ known \subseteq known' /\ Track(s)
    BY <1>0, <1>1 DEF HearDm, LinksTyped
  <2>4. LinksTyped'
    BY <1>0, <2>1, <2>3, TrackTyped DEF LinksTyped, loop, bounds
  <2> QED
    BY <2>2, <2>4
<1>2. ASSUME NEW m \in Messages, SaveChatMessage(m)
      PROVE  (CopiesTyped /\ LinksTyped)' /\ SeenOnce' /\ ShownIsSaved' /\ SqliteInStep'
  <2>1. /\ m \in saving /\ saving' = saving \ {m} /\ store' = store \cup {m}
        /\ UNCHANGED <<external, memory, subscriptions, loop, running, bounds>>
    BY <1>2 DEF SaveChatMessage
  <2>2. IsFiniteSet(store \cup {m}) /\ IsFiniteSet(saving \ {m})
    BY <1>0, FS_AddElement, FS_RemoveElement DEF CopiesTyped
  <2>3. CopiesTyped'
    BY <1>0, <2>1, <2>2 DEF CopiesTyped, memory, Shown, Of
  <2>4. LinksTyped'
    BY <1>0, <2>1 DEF LinksTyped, external, subscriptions, loop, bounds
  <2>5. SeenOnce' /\ ShownIsSaved'
    BY <1>0, <2>1 DEF SeenOnce, NoMessageTwice, ShownIsSaved, memory, loop, Shown
  <2>6. SqliteInStep'
    BY <1>0, <2>1 DEF SqliteInStep, external
  <2> QED
    BY <2>3, <2>4, <2>5, <2>6
<1>3. ASSUME NEW m \in Messages, SendChat(m) \/ DeliverChat(m)
      PROVE  (CopiesTyped /\ LinksTyped)' /\ SeenOnce' /\ ShownIsSaved' /\ SqliteInStep'
  <2>1. /\ Record(m) /\ MayRun
        /\ UNCHANGED <<backend, old, known, subscriptions, loop, running, bounds>>
        /\ relay' = relay \cup {m} \/ relay' = relay
    BY <1>3 DEF SendChat, DeliverChat, external
  <2>2. UNCHANGED <<backend, running, resuming, read>>
    BY <2>1 DEF loop
  <2>3. CopiesTyped' /\ SeenOnce' /\ ShownIsSaved' /\ SqliteInStep'
    BY <2>1, <2>2, RecordKeeps
  <2>4. LinksTyped'
    BY <1>0, <2>1 DEF LinksTyped, subscriptions, loop, bounds
  <2> QED
    BY <2>3, <2>4
<1>4. ASSUME NEW m \in Messages, PeerSends(m) \/ GrowOld(m)
      PROVE  (CopiesTyped /\ LinksTyped)' /\ SeenOnce' /\ ShownIsSaved' /\ SqliteInStep'
  <2>1. /\ UNCHANGED <<backend, known, disk, memory, subscriptions, loop, running, bounds>>
        /\ relay' \subseteq Messages /\ old' \subseteq relay'
    BY <1>0, <1>4 DEF PeerSends, GrowOld, LinksTyped
  <2>2. CopiesTyped' /\ SeenOnce' /\ ShownIsSaved' /\ SqliteInStep'
    BY <1>0, <2>1, OthersKeep DEF loop, ShownIsSaved, SqliteInStep
  <2>3. LinksTyped'
    BY <1>0, <2>1 DEF LinksTyped, subscriptions, loop, bounds
  <2> QED
    BY <2>2, <2>3
<1>5. ASSUME Resume
      PROVE  (CopiesTyped /\ LinksTyped)' /\ SeenOnce' /\ ShownIsSaved' /\ SqliteInStep'
  <2>1. /\ running' = TRUE /\ resuming' = "track"
        /\ UNCHANGED <<external, disk, memory, subscriptions, read, bounds>>
    BY <1>5 DEF Resume
  <2>2. CopiesTyped' /\ SeenOnce' /\ ShownIsSaved' /\ SqliteInStep'
    BY <1>0, <1>u, <2>1, OthersKeep DEF ShownIsSaved
  <2>3. LinksTyped'
    BY <1>0, <2>1 DEF LinksTyped, external, subscriptions, bounds
  <2> QED
    BY <2>2, <2>3
<1>6. ASSUME TrackDispute
      PROVE  (CopiesTyped /\ LinksTyped)' /\ SeenOnce' /\ ShownIsSaved' /\ SqliteInStep'
  <2>1. /\ Track("dispute") /\ resuming' = "hydrate"
        /\ UNCHANGED external /\ UNCHANGED <<disk, memory, read, running, bounds>>
    BY <1>6 DEF TrackDispute
  <2>2. CopiesTyped' /\ SeenOnce' /\ ShownIsSaved' /\ SqliteInStep'
    BY <1>0, <1>u, <2>1, OthersKeep DEF ShownIsSaved
  <2>3. "dispute" \in Scopes /\ known' \in SUBSET Scopes /\ known \subseteq known'
    BY <1>0, <1>u, <2>1 DEF LinksTyped, Scopes
  <2>4. LinksTyped'
    BY <1>0, <2>1, <2>3, TrackTyped DEF LinksTyped, external, bounds
  <2> QED
    BY <2>2, <2>4
<1>7. ASSUME HydrateChat
      PROVE  (CopiesTyped /\ LinksTyped)' /\ SeenOnce' /\ ShownIsSaved' /\ SqliteInStep'
  <2>1. /\ resuming = "hydrate"
        /\ UNCHANGED <<external, disk, subscriptions, running, bounds>>
        /\ \/ "order" \in entries /\ resuming' = "no" /\ UNCHANGED <<read, memory>>
           \/ /\ backend # "indexeddb" /\ resuming' = "no" /\ Replace(store)
              /\ UNCHANGED <<read, sink>>
           \/ /\ backend = "indexeddb" /\ resuming' = "replace" /\ read' = store
              /\ UNCHANGED memory
    BY <1>7 DEF HydrateChat
  <2>2. LinksTyped'
    BY <1>0, <2>1 DEF LinksTyped, CopiesTyped, external, subscriptions, bounds
  <2>3. CASE "order" \in entries /\ resuming' = "no" /\ UNCHANGED <<read, memory>>
    BY <1>0, <1>u, <2>1, <2>2, <2>3, OthersKeep DEF ShownIsSaved
  <2>4. CASE resuming' = "no" /\ Replace(store) /\ UNCHANGED <<read, sink>>
    BY <1>0, <1>u, <2>1, <2>2, <2>4, ReplaceKeeps DEF ShownIsSaved
  <2>5. CASE backend = "indexeddb" /\ resuming' = "replace" /\ read' = store /\ UNCHANGED memory
    BY <1>0, <1>u, <2>1, <2>2, <2>5, OthersKeep
  <2> QED
    BY <2>1, <2>3, <2>4, <2>5
<1>8. ASSUME ReplaceHistory
      PROVE  (CopiesTyped /\ LinksTyped)' /\ SeenOnce' /\ ShownIsSaved' /\ SqliteInStep'
  <2>1. /\ resuming = "replace" /\ Replace(read) /\ resuming' = "no" /\ read' = {}
        /\ UNCHANGED <<external, disk, sink, subscriptions, running, bounds>>
    BY <1>8 DEF ReplaceHistory
  <2>2. LinksTyped'
    BY <1>0, <2>1 DEF LinksTyped, external, subscriptions, bounds
  <2>3. read \subseteq store /\ backend # "sqlite"
    BY <1>0, <2>1 DEF ShownIsSaved, SqliteInStep
  <2> QED
    BY <1>0, <1>u, <2>1, <2>2, <2>3, ReplaceKeeps
<1>9. ASSUME Stop
      PROVE  (CopiesTyped /\ LinksTyped)' /\ SeenOnce' /\ ShownIsSaved' /\ SqliteInStep'
  <2>1. /\ running' = FALSE /\ open' = {} /\ stops < MaxSessions /\ stops' = stops + 1
        /\ UNCHANGED <<external, disk, memory, subscribed, asked, loop, forgotten>>
    BY <1>9 DEF Stop
  <2>2. CopiesTyped' /\ SeenOnce' /\ ShownIsSaved' /\ SqliteInStep'
    BY <1>0, <1>u, <2>1, OthersKeep DEF loop, ShownIsSaved, SqliteInStep
  <2>3. LinksTyped'
    <3>1. stops' \in 0..MaxSessions /\ forgotten' \in 0..MaxSessions
      BY <1>0, <2>1, ChatSyncAssumption DEF LinksTyped
    <3> QED
      BY <1>0, <2>1, <3>1 DEF LinksTyped, external, loop
  <2> QED
    BY <2>2, <2>3
<1>10. ASSUME Forget
       PROVE  (CopiesTyped /\ LinksTyped)' /\ SeenOnce' /\ ShownIsSaved' /\ SqliteInStep'
  <2>1. IsFiniteSet({}) /\ <<>> \in Seq(Messages) /\ ToSet(<<>>) = {} /\ IsInjective(<<>>)
    BY FS_EmptySet DEF ToSet, IsInjective
  <2>2. /\ \A s \in Scopes : history'[s] = <<>> /\ sink'[s] = <<>>
        /\ history' \in [Scopes -> Seq(Messages)] /\ sink' \in [Scopes -> Seq(Messages)]
    BY <1>10, <2>1 DEF Forget
  <2>3. /\ running' = FALSE /\ resuming' = "no" /\ read' = {} /\ entries' = {} /\ seen' = {}
        /\ saving' = {} /\ store' = store /\ backend' = backend
    BY <1>10 DEF Forget, external
  <2>4. CopiesTyped'
    BY <1>0, <2>1, <2>2, <2>3 DEF CopiesTyped, Shown, Of
  <2>5. SeenOnce' /\ ShownIsSaved'
    BY <2>1, <2>2, <2>3 DEF SeenOnce, NoMessageTwice, ShownIsSaved, Shown
  <2>6. SqliteInStep'
    BY <2>3 DEF SqliteInStep
  <2>7. LinksTyped'
    <3>1. stops' \in 0..MaxSessions /\ forgotten' \in 0..MaxSessions
      BY <1>0, <1>10, ChatSyncAssumption DEF LinksTyped, Forget
    <3>2. asked' \in [Scopes -> SUBSET Messages] /\ \A s \in Scopes : asked'[s] = {}
      BY <1>10 DEF Forget
    <3>3. UNCHANGED external /\ subscribed' = {} /\ open' = {}
      BY <1>10 DEF Forget
    <3> QED
      BY <1>0, <2>3, <3>1, <3>2, <3>3 DEF LinksTyped, external
  <2> QED
    BY <2>4, <2>5, <2>6, <2>7
<1>11. CASE UNCHANGED vars
  <2>1. /\ UNCHANGED <<backend, disk, memory>>
        /\ UNCHANGED <<external, subscriptions, loop, running, bounds>>
    BY <1>11 DEF vars, external
  <2>2. CopiesTyped' /\ SeenOnce' /\ ShownIsSaved' /\ SqliteInStep'
    BY <1>0, <2>1, OthersKeep DEF loop, ShownIsSaved, SqliteInStep
  <2>3. LinksTyped'
    BY <1>0, <2>1 DEF LinksTyped, external, subscriptions, loop, bounds
  <2> QED
    BY <2>2, <2>3
<1> QED
  BY <1>1, <1>2, <1>3, <1>4, <1>5, <1>6, <1>7, <1>8, <1>9, <1>10, <1>11 DEF Next

\* The inductive invariant holds whatever the messages, whichever the store and
\* however often the client stops, restarts or is replaced.
THEOREM CInvHolds == Spec => []CInv
BY InitCInv, NextCInv, PTL DEF Spec

\* Type correctness.
THEOREM TypeCorrect == Spec => []TypeOK
<1>1. CInv => TypeOK
  BY DEF CInv, Types
<1> QED
  BY <1>1, CInvHolds, PTL

\* No message is shown twice, whether it comes by the echo of its sending, by a
\* replay, or from the store.
THEOREM NoMessageTwiceHolds == Spec => []NoMessageTwice
<1>1. CInv => NoMessageTwice
  BY DEF CInv, SeenOnce
<1> QED
  BY <1>1, CInvHolds, PTL

\* Between two starts what is shown is stored or on its way there, and with
\* plain SQLite what is stored is shown.
THEOREM HistoryMatchesStoreHolds == Spec => []HistoryMatchesStore
<1>1. CInv => HistoryMatchesStore
  BY DEF CInv, ShownIsSaved, SqliteInStep, HistoryMatchesStore
<1> QED
  BY <1>1, CInvHolds, PTL
=============================================================================
