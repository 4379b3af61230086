--------------------------- MODULE TrustGraphProofs ---------------------------
(***************************************************************************)
(* Theorems about TrustGraph for any people, attestations and relays, any    *)
(* bounds of the walk and either reciprocity mode.                          *)
(***************************************************************************)
EXTENDS TrustGraph, FiniteSetTheorems, WellFoundedInduction, TLAPS

-----------------------------------------------------------------------------
(* Choices from finite sets.                                                *)

\* A set of naturals has a least element.
LEMMA SmallestNat ==
    ASSUME NEW S \in SUBSET Nat, S # {}
    PROVE  \E i \in S : \A j \in S : i =< j
<1>1. PICK i \in S : \A j \in S : ~(<<j, i>> \in OpToRel(<, Nat))
  BY WFMin, NatLessThanWellFounded
<1>2. \A j \in S : j < i => <<j, i>> \in OpToRel(<, Nat)
  BY DEF OpToRel
<1> DEFINE below(j) == <<j, i>> \in OpToRel(<, Nat)
<1>3. \A j \in S : ~below(j) /\ (j < i => below(j))
  BY <1>1, <1>2
<1> HIDE DEF below
<1> QED
  BY <1>3

\* A finite set has an element of the greatest weight.
LEMMA Heaviest ==
    ASSUME NEW S, IsFiniteSet(S), S # {}, NEW w \in [S -> Nat]
    PROVE  \E x \in S : \A y \in S : w[y] =< w[x]
<1> DEFINE Above(x) == {y \in S : w[y] > w[x]}
           sizes == {Cardinality(Above(x)) : x \in S}
<1>1. \A x \in S : IsFiniteSet(Above(x)) /\ Cardinality(Above(x)) \in Nat
  BY FS_Subset, FS_CardinalityType
<1>2. \E i \in sizes : \A j \in sizes : i =< j
  <2> HIDE DEF Above
  <2>1. sizes \in SUBSET Nat /\ sizes # {}
    BY <1>1
  <2> HIDE DEF sizes
  <2> QED
    BY <2>1, SmallestNat
<1>3. PICK x \in S : \A y \in S : Cardinality(Above(x)) =< Cardinality(Above(y))
  <2> HIDE DEF Above
  <2> QED
    BY <1>2
<1>4. ASSUME NEW y \in S, ~(w[y] =< w[x])
      PROVE  FALSE
  <2>1. w[y] \in Nat /\ w[x] \in Nat /\ w[y] > w[x]
    BY <1>4
  <2>2. Above(y) \in SUBSET Above(x)
    BY <2>1
  <2>3. y \in Above(x) /\ y \notin Above(y)
    BY <2>1
  <2> HIDE DEF Above
  <2>4. Cardinality(Above(y)) =< Cardinality(Above(x)) /\ Cardinality(Above(y)) # Cardinality(Above(x))
    BY <1>1, <2>2, <2>3, FS_Subset
  <2> QED
    BY <1>1, <1>3, <2>4
<1> QED
  BY <1>3, <1>4

\* Any number of elements no lighter than the rest can be taken from a finite set.
Tops(S, w, n) ==
    {t \in SUBSET S : /\ Cardinality(t) = Least(Cardinality(S), n)
                      /\ \A x \in t, y \in S \ t : w[x] >= w[y]}

\* From the n heaviest to the n + 1 heaviest.
LEMMA OneMore ==
    ASSUME NEW S, IsFiniteSet(S), NEW w \in [S -> Nat], NEW n \in Nat, Tops(S, w, n) # {}
    PROVE  Tops(S, w, n + 1) # {}
<1>1. PICK t \in SUBSET S : /\ Cardinality(t) = Least(Cardinality(S), n)
                            /\ \A x \in t, y \in S \ t : w[x] >= w[y]
  BY DEF Tops
<1>2. IsFiniteSet(t) /\ Cardinality(t) \in Nat /\ Cardinality(S) \in Nat
  BY FS_Subset, FS_CardinalityType
<1>3. CASE Cardinality(S) =< n
  <2>1. Least(Cardinality(S), n) = Least(Cardinality(S), n + 1)
    BY <1>2, <1>3 DEF Least
  <2> QED
    BY <1>1, <2>1 DEF Tops
<1>4. CASE n < Cardinality(S)
  <2>1. Cardinality(t) = n /\ Least(Cardinality(S), n + 1) = n + 1
    BY <1>1, <1>2, <1>4 DEF Least
  <2>2. S \ t # {} /\ IsFiniteSet(S \ t)
    BY <1>2, <1>4, <2>1, FS_Difference
  <2> DEFINE rest == [y \in S \ t |-> w[y]]
  <2>3. \E m \in S \ t : \A y \in S \ t : rest[y] =< rest[m]
    <3>1. rest \in [S \ t -> Nat]
      OBVIOUS
    <3> HIDE DEF rest
    <3> QED
      BY <3>1, <2>2, Heaviest
  <2>4. PICK m \in S \ t : \A y \in S \ t : w[y] =< w[m]
    BY <2>3
  <2>5. Cardinality(t \cup {m}) = n + 1
    BY <1>2, <2>1, FS_AddElement
  <2>6. ASSUME NEW x \in t \cup {m}, NEW y \in S \ (t \cup {m})
        PROVE  w[x] >= w[y]
    <3>1. w[x] \in Nat /\ w[y] \in Nat
      OBVIOUS
    <3> QED
      BY <3>1, <1>1, <2>4
  <2> QED
    BY <2>1, <2>5, <2>6 DEF Tops
<1> QED
  BY <1>2, <1>3, <1>4

LEMMA TopsExist ==
    ASSUME NEW S, IsFiniteSet(S), NEW w \in [S -> Nat], NEW n \in Nat
    PROVE  Tops(S, w, n) # {}
<1> DEFINE none == {i \in Nat : Tops(S, w, i) = {}}
<1>1. Tops(S, w, 0) # {}
  <2>1. Cardinality({}) = 0 /\ Cardinality(S) \in Nat
    BY FS_EmptySet, FS_CardinalityType
  <2>2. {} \in Tops(S, w, 0)
    BY <2>1 DEF Tops, Least
  <2> QED
    BY <2>2
<1>2. ASSUME none # {}
      PROVE  FALSE
  <2>1. PICK i \in none : \A j \in none : i =< j
    <3>1. none \in SUBSET Nat
      OBVIOUS
    <3> HIDE DEF none
    <3> QED
      BY <3>1, <1>2, SmallestNat
  <2>2. i - 1 \in Nat /\ i - 1 \notin none
    BY <1>1, <2>1
  <2>3. Tops(S, w, i - 1 + 1) # {}
    BY <2>2, OneMore
  <2>4. i - 1 + 1 = i
    BY <2>1
  <2> QED
    BY <2>1, <2>3, <2>4
<1> QED
  BY <1>2

-----------------------------------------------------------------------------
(* The graph.                                                               *)

LEMMA KeysFinite == IsFiniteSet(AllKeys) /\ IsFiniteSet(People)
<1>1. IsFiniteSet(AllKeys)
  BY TrustGraphAssumption, FS_Union DEF AllKeys
<1> DEFINE from == {Truster(k) : k \in AllKeys}
           to == {Trustee(k) : k \in AllKeys}
<1>2. IsFiniteSet(from)
  <2> DEFINE f == [k \in AllKeys |-> Truster(k)]
  <2>1. f \in Surjection(AllKeys, from)
    BY DEF Surjection
  <2> HIDE DEF f, from
  <2> QED
    BY <1>1, <2>1, FS_Surjection
<1>3. IsFiniteSet(to)
  <2> DEFINE f == [k \in AllKeys |-> Trustee(k)]
  <2>1. f \in Surjection(AllKeys, to)
    BY DEF Surjection
  <2> HIDE DEF f, to
  <2> QED
    BY <1>1, <2>1, FS_Surjection
<1>4. IsFiniteSet({Root})
  BY FS_Singleton
<1> HIDE DEF from, to
<1>5. IsFiniteSet({Root} \cup from)
  BY <1>2, <1>4, FS_Union
<1>6. IsFiniteSet(({Root} \cup from) \cup to)
  BY <1>3, <1>5, FS_Union
<1> QED
  BY <1>1, <1>6 DEF People, from, to

\* Of any edges whose weights are naturals Strongest keeps at most MaxOutDegree
\* of each truster, and a strongest part of them.
LEMMA StrongestCaps ==
    ASSUME NEW c, NEW edges \in SUBSET AllKeys, \A k \in edges : c[k].weight \in Nat
    PROVE  /\ Strongest(c, edges) \subseteq edges
           /\ \A u \in People :
                 Cardinality({k \in Strongest(c, edges) : Truster(k) = u}) =< MaxOutDegree
<1> DEFINE Edges(u) == {k \in edges : Truster(k) = u}
           w(u) == [k \in Edges(u) |-> c[k].weight]
           Caps(s) == \A u \in People :
                        /\ Cardinality(s \cap Edges(u)) = Least(Cardinality(Edges(u)), MaxOutDegree)
                        /\ \A k \in s \cap Edges(u), l \in Edges(u) \ s : c[k].weight >= c[l].weight
<1>1. MaxOutDegree \in Nat
  BY TrustGraphAssumption
<1>2. \A u \in People : IsFiniteSet(Edges(u)) /\ Cardinality(Edges(u)) \in Nat
  BY KeysFinite, FS_Subset, FS_CardinalityType
<1>3. \A u \in People : \E t \in SUBSET Edges(u) :
          /\ Cardinality(t) = Least(Cardinality(Edges(u)), MaxOutDegree)
          /\ \A k \in t, l \in Edges(u) \ t : c[k].weight >= c[l].weight
  <2> TAKE u \in People
  <2>1. w(u) \in [Edges(u) -> Nat] /\ \A k \in Edges(u) : w(u)[k] = c[k].weight
    OBVIOUS
  <2> HIDE DEF Edges, w
  <2>2. Tops(Edges(u), w(u), MaxOutDegree) # {}
    BY <1>1, <1>2, <2>1, TopsExist
  <2>3. PICK t \in SUBSET Edges(u) :
            /\ Cardinality(t) = Least(Cardinality(Edges(u)), MaxOutDegree)
            /\ \A k \in t, l \in Edges(u) \ t : w(u)[k] >= w(u)[l]
    BY <2>2 DEF Tops
  <2> QED
    BY <2>1, <2>3
<1>4. \E s \in SUBSET edges : Caps(s)
  <2> DEFINE top(u) == CHOOSE t \in SUBSET Edges(u) :
                           /\ Cardinality(t) = Least(Cardinality(Edges(u)), MaxOutDegree)
                           /\ \A k \in t, l \in Edges(u) \ t : c[k].weight >= c[l].weight
             s == UNION {top(u) : u \in People}
  <2>1. \A u \in People :
            /\ top(u) \in SUBSET Edges(u)
            /\ Cardinality(top(u)) = Least(Cardinality(Edges(u)), MaxOutDegree)
            /\ \A k \in top(u), l \in Edges(u) \ top(u) : c[k].weight >= c[l].weight
    BY <1>3
  <2> HIDE DEF top
  <2>2. \A u \in People : s \cap Edges(u) = top(u)
    BY <2>1
  <2>3. s \in SUBSET edges
    BY <2>1
  <2> HIDE DEF s
  <2>4. Caps(s)
    BY <2>1, <2>2
  <2> QED
    BY <2>3, <2>4
<1> DEFINE kept == Strongest(c, edges)
<1>5. kept \in SUBSET edges /\ Caps(kept)
  BY <1>4 DEF Strongest
<1> HIDE DEF kept
<1>6. ASSUME NEW u \in People
      PROVE  Cardinality({k \in kept : Truster(k) = u}) =< MaxOutDegree
  <2>1. {k \in kept : Truster(k) = u} = kept \cap Edges(u)
    BY <1>5
  <2>2. Cardinality(kept \cap Edges(u)) = Least(Cardinality(Edges(u)), MaxOutDegree)
    BY <1>5
  <2> QED
    BY <1>1, <1>2, <2>1, <2>2 DEF Least
<1> QED
  BY <1>5, <1>6 DEF kept

\* What the cache says, scored: capped, and in strict mode only edges whose
\* reverse is scored too.
LEMMA CappedAdjacencyIs ==
    ASSUME NEW c \in Revisions
    PROVE  /\ CappedAdjacency(c) \subseteq AllKeys
           /\ \A u \in People :
                 Cardinality({k \in CappedAdjacency(c) : Truster(k) = u}) =< MaxOutDegree
           /\ HardReciprocal => DropNonMutual(CappedAdjacency(c)) = CappedAdjacency(c)
<1> DEFINE strong == {k \in AdjacencyFromAttestations(c) : c[k].weight >= MinEdgeWeight}
           capped == Strongest(c, strong)
<1>1. strong \in SUBSET AllKeys /\ \A k \in strong : c[k].weight \in Nat
  BY DEF AdjacencyFromAttestations, Revisions, Attestation
<1> HIDE DEF strong
<1>2. /\ capped \subseteq strong
      /\ \A u \in People : Cardinality({k \in capped : Truster(k) = u}) =< MaxOutDegree
  BY <1>1, StrongestCaps
<1>3. CappedAdjacency(c) = IF HardReciprocal THEN DropNonMutual(capped) ELSE capped
  BY DEF CappedAdjacency, strong
<1> HIDE DEF capped
<1>4. DropNonMutual(capped) \subseteq capped /\ DropNonMutual(DropNonMutual(capped)) = DropNonMutual(capped)
  BY DEF DropNonMutual
<1>5. ASSUME NEW u \in People
      PROVE  Cardinality({k \in CappedAdjacency(c) : Truster(k) = u}) =< MaxOutDegree
  <2> DEFINE of == {k \in capped : Truster(k) = u}
             kept == {k \in CappedAdjacency(c) : Truster(k) = u}
  <2>1. kept \in SUBSET of /\ of \in SUBSET AllKeys
    BY <1>1, <1>2, <1>3, <1>4
  <2>2. Cardinality(of) =< MaxOutDegree
    BY <1>2
  <2> HIDE DEF of, kept
  <2>3. IsFiniteSet(of) /\ IsFiniteSet(kept) /\ Cardinality(kept) =< Cardinality(of)
    BY <2>1, KeysFinite, FS_Subset
  <2>4. Cardinality(kept) \in Nat /\ Cardinality(of) \in Nat /\ MaxOutDegree \in Nat
    BY <2>3, FS_CardinalityType, TrustGraphAssumption
  <2>5. Cardinality(kept) =< MaxOutDegree
    BY <2>2, <2>3, <2>4
  <2> QED
    BY <2>5 DEF kept
<1> QED
  BY <1>1, <1>2, <1>3, <1>4, <1>5

-----------------------------------------------------------------------------
(* The cache.                                                               *)

\* Of some revisions one is written last.
LEMMA WrittenLastIs ==
    ASSUME NEW revs \in SUBSET Attestation, revs # {}, NEW oldest \in BOOLEAN
    PROVE  WrittenLast(revs, oldest) \in Attestation
<1>1. \A v \in revs : v.weight \in 0..100 /\ v.at \in 0..MaxAt
  BY DEF Attestation
<1>2. MaxAt \in Nat
  BY TrustGraphAssumption
<1> DEFINE weights == {v.weight : v \in revs}
           weakest == {v \in revs : \A w \in revs : v.weight =< w.weight}
           ats == {v.at : v \in weakest}
           ages == {MaxAt - v.at : v \in weakest}
<1>3. \E i \in weights : \A j \in weights : i =< j
  <2>1. weights \in SUBSET Nat /\ weights # {}
    BY <1>1
  <2> HIDE DEF weights
  <2> QED
    BY <2>1, SmallestNat
<1>4. weakest # {}
  BY <1>3
<1>5. \A v \in weakest : v \in revs /\ v.at \in 0..MaxAt
  BY <1>1
<1> HIDE DEF weakest
<1>6. \E i \in ats : \A j \in ats : i =< j
  <2>1. ats \in SUBSET Nat /\ ats # {}
    BY <1>4, <1>5
  <2> HIDE DEF ats
  <2> QED
    BY <2>1, SmallestNat
<1>7. \E i \in ages : \A j \in ages : i =< j
  <2>1. ages \in SUBSET Nat /\ ages # {}
    BY <1>2, <1>4, <1>5
  <2> HIDE DEF ages
  <2> QED
    BY <2>1, SmallestNat
<1>8. \E v \in weakest : \A w \in weakest : v.at =< w.at
  BY <1>6
<1>9. \E v \in weakest : \A w \in weakest : v.at >= w.at
  <2>1. PICK v \in weakest : \A w \in weakest : MaxAt - v.at =< MaxAt - w.at
    BY <1>7
  <2>2. \A w \in weakest : v.at >= w.at
    BY <1>2, <1>5, <2>1
  <2> QED
    BY <2>2
<1>10. \E v \in weakest : \A w \in weakest : IF oldest THEN v.at =< w.at ELSE v.at >= w.at
  BY <1>8, <1>9
<1>11. WrittenLast(revs, oldest) =
         CHOOSE v \in weakest : \A w \in weakest : IF oldest THEN v.at =< w.at ELSE v.at >= w.at
  BY DEF WrittenLast, weakest
<1>12. WrittenLast(revs, oldest) \in weakest
  BY <1>10, <1>11
<1> QED
  BY <1>5, <1>12

-----------------------------------------------------------------------------
(* The inductive invariant.                                                 *)

FetchType ==
    [stage : Stages, hop : 0..MaxHop, queried : SUBSET People, frontier : SUBSET People,
     authors : SUBSET People, waiting : SUBSET Relays, found : SUBSET (Keys \X Attestation),
     got : SUBSET (AllKeys \X Attestation), failed : BOOLEAN]

\* A walk at the beginning of a hop: within its budget, and what it was answered
\* is of authors it has asked for.
Walk(f) ==
    /\ f \in FetchType
    /\ f.frontier \cap f.queried = {}
    /\ f.authors \subseteq f.queried
    /\ Cardinality(f.queried) =< MaxNodes
    /\ \A g \in f.found : Truster(g[1]) \in f.queried

\* Once the hop has begun nothing is left on the frontier, and there was a hop
\* left to begin.
WalkOK(f) ==
    /\ Walk(f)
    /\ f.frontier = {}
    /\ f.stage = "hop" => f.hop < MaxHop

JobType ==
    [key : Keys \cup {NoKey}, rev : Attestation \cup {NoRev}, pending : SUBSET Relays,
     took : SUBSET Relays, todo : SUBSET Keys, floor : [Keys -> Nat], weight : 0..100,
     batch : BOOLEAN]

\* A publication has something to send, and no relay is both waited for and done.
JobOK(j) ==
    /\ j \in JobType
    /\ j.took \cap j.pending = {}
    /\ j # NoJob => j.key \in Keys /\ j.rev \in Attestation

WorldTyped ==
    /\ relay \in [Relays -> [Keys -> Attestation \cup {NoRev}]]
    /\ late \in BOOLEAN

SessionTyped ==
    /\ hydrated \in BOOLEAN /\ running \in BOOLEAN /\ live \in BOOLEAN
    /\ restarts \in 0..MaxRestarts

\* The cache and the snapshot are revisions, and the graph came from a cache.
HeldOK ==
    /\ cache \in Revisions /\ saved \in Revisions
    /\ graph \subseteq AllKeys
    /\ MutualWithinCap

TInv == WorldTyped /\ HeldOK /\ SessionTyped /\ WalkOK(fetch) /\ JobOK(job)

LEMMA TInvMeans == TInv => TypeOK /\ MutualWithinCap
<1> SUFFICES ASSUME TInv PROVE TypeOK
  BY DEF TInv, HeldOK
<1>1. /\ fetch.stage \in Stages /\ fetch.hop \in 0..MaxHop
      /\ fetch.queried \subseteq People /\ Cardinality(fetch.queried) =< MaxNodes
      /\ fetch.frontier \subseteq People \ fetch.queried
      /\ fetch.waiting \subseteq Relays
      /\ fetch.got \subseteq AllKeys \X Attestation
  BY DEF TInv, WalkOK, Walk, FetchType
<1>2. \A f \in fetch.found : f[1] \in Keys /\ Truster(f[1]) \in fetch.queried
  <2>1. fetch.found \subseteq Keys \X Attestation
    BY DEF TInv, WalkOK, Walk, FetchType
  <2> QED
    BY <2>1 DEF TInv, WalkOK, Walk
<1>3. job.key \in Keys \cup {NoKey} /\ job.took \cap job.pending = {} /\ job.todo \subseteq Keys
  BY DEF TInv, JobOK, JobType
<1> QED
  BY <1>1, <1>2, <1>3 DEF TInv, TypeOK, WorldTyped, HeldOK, SessionTyped

\* Whatever is saved and scored.
LEMMA SaveAndScoreKeeps ==
    ASSUME NEW c \in Revisions, SaveAndScore(c)
    PROVE  HeldOK'
<1>1. cache' = c /\ saved' = c /\ graph' = CappedAdjacency(c)
  BY DEF SaveAndScore
<1>2. MutualWithinCap'
  BY <1>1, CappedAdjacencyIs DEF MutualWithinCap
<1> QED
  BY <1>1, <1>2, CappedAdjacencyIs DEF HeldOK

LEMMA IdleOK == Walk(Idle) /\ WalkOK(Idle) /\ JobOK(NoJob)
<1>1. Cardinality({}) = 0 /\ MaxNodes \in Nat /\ MaxHop \in Nat
  BY FS_EmptySet, TrustGraphAssumption
<1>2. Idle \in FetchType
  BY <1>1 DEF Idle, FetchType, Stages
<1>3. Walk(Idle)
  BY <1>1, <1>2 DEF Walk, Idle
<1>4. NoJob \in JobType
  BY DEF NoJob, JobType
<1>5. JobOK(NoJob)
  BY <1>4 DEF JobOK, NoJob
<1> QED
  BY <1>3, <1>5 DEF WalkOK, Idle

\* A walk goes on within its budget.
LEMMA NextHopOK ==
    ASSUME NEW f, Walk(f), NEW g \in NextHop(f)
    PROVE  WalkOK(g)
<1>1. /\ f \in FetchType /\ f.stage \in Stages /\ f.hop \in Nat /\ MaxHop \in Nat /\ MaxNodes \in Nat
      /\ f.queried \subseteq People /\ f.frontier \subseteq People /\ f.authors \subseteq People
      /\ f.got \subseteq AllKeys \X Attestation
  BY TrustGraphAssumption DEF Walk, FetchType
<1>2. CASE \E s \in Authors(f) :
              /\ f.hop < MaxHop
              /\ g = [f EXCEPT !.stage = "hop", !.authors = s, !.frontier = {},
                               !.queried = @ \cup s,
                               !.waiting = UNION {RelaysOf(f, u) : u \in s}]
  <2>1. PICK s \in Authors(f) :
              /\ f.hop < MaxHop
              /\ g = [f EXCEPT !.stage = "hop", !.authors = s, !.frontier = {},
                               !.queried = @ \cup s,
                               !.waiting = UNION {RelaysOf(f, u) : u \in s}]
    BY <1>2
  <2> DEFINE waiting == UNION {RelaysOf(f, u) : u \in s}
  <2>2. waiting \subseteq Relays
    <3> SUFFICES ASSUME NEW u PROVE RelaysOf(f, u) \subseteq Relays
      OBVIOUS
    <3>1. \A h \in f.got : h[2].hint \in Relays \cup {NoHint}
      BY <1>1 DEF Attestation
    <3> QED
      BY <3>1, TrustGraphAssumption DEF RelaysOf
  <2>3. s \subseteq f.frontier /\ Cardinality(s) = Least(Cardinality(f.frontier), MaxNodes - Cardinality(f.queried))
    BY DEF Authors
  <2>4. Cardinality(f.queried \cup s) =< MaxNodes
    <3>1. IsFiniteSet(f.queried) /\ IsFiniteSet(f.frontier) /\ IsFiniteSet(s)
      BY <1>1, <2>3, KeysFinite, FS_Subset
    <3>2. f.queried \cap s = {}
      BY <2>3 DEF Walk
    <3>3. Cardinality(f.queried \cup s) = Cardinality(f.queried) + Cardinality(s) - Cardinality(f.queried \cap s)
      BY <3>1, FS_Union
    <3>4. Cardinality(f.queried \cap s) = 0
      BY <3>2, FS_EmptySet
    <3>5. Cardinality(f.queried) \in Nat /\ Cardinality(f.frontier) \in Nat /\ Cardinality(s) \in Nat
      BY <3>1, FS_CardinalityType
    <3>6. Cardinality(s) =< MaxNodes - Cardinality(f.queried)
      BY <1>1, <2>3, <3>5 DEF Least
    <3> QED
      BY <1>1, <3>3, <3>4, <3>5, <3>6
  <2> HIDE DEF waiting
  <2>5. g = [f EXCEPT !.stage = "hop", !.authors = s, !.frontier = {},
                     !.queried = @ \cup s, !.waiting = waiting]
    BY <2>1 DEF waiting
  <2>6. /\ g.stage = "hop" /\ g.authors = s /\ g.frontier = {} /\ g.queried = f.queried \cup s
        /\ g.hop = f.hop /\ g.found = f.found
    BY <1>1, <2>5 DEF FetchType
  <2>7. g \in FetchType
    BY <1>1, <2>2, <2>3, <2>5 DEF FetchType, Stages
  <2> QED
    BY <2>1, <2>3, <2>4, <2>6, <2>7 DEF WalkOK, Walk
<1>3. CASE g = [f EXCEPT !.stage = "end", !.frontier = {}]
  <2>1. /\ g.stage = "end" /\ g.frontier = {} /\ g.queried = f.queried
        /\ g.authors = f.authors /\ g.found = f.found
    BY <1>1, <1>3 DEF FetchType
  <2>2. g \in FetchType
    BY <1>1, <1>3 DEF FetchType, Stages
  <2> QED
    BY <2>1, <2>2 DEF WalkOK, Walk
<1>4. \/ \E s \in Authors(f) :
              /\ f.hop < MaxHop
              /\ g = [f EXCEPT !.stage = "hop", !.authors = s, !.frontier = {},
                               !.queried = @ \cup s,
                               !.waiting = UNION {RelaysOf(f, u) : u \in s}]
      \/ g = [f EXCEPT !.stage = "end", !.frontier = {}]
  BY DEF NextHop
<1> QED
  BY <1>2, <1>3, <1>4

LEMMA WalksOK == \A g \in Walks : WalkOK(g)
<1> DEFINE f == [Idle EXCEPT !.frontier = {Root} \cup {Trustee(k) : k \in Seeds},
                            !.got = {<<k, SeedEdge>> : k \in Seeds}]
<1>1. {Root} \cup {Trustee(k) : k \in Seeds} \subseteq People
  BY DEF People, AllKeys
<1>2. SeedEdge \in Attestation
  BY TrustGraphAssumption DEF SeedEdge, Attestation
<1>3. {<<k, SeedEdge>> : k \in Seeds} \subseteq AllKeys \X Attestation
  BY <1>2 DEF AllKeys
<1>4. Idle \in FetchType
  BY IdleOK DEF Walk
<1>5. f \in FetchType
  BY <1>1, <1>3, <1>4 DEF FetchType
<1>6. f.queried = Idle.queried /\ f.authors = Idle.authors /\ f.found = Idle.found
  BY <1>4 DEF FetchType
<1>7. Idle.queried = {}
  BY DEF Idle
<1> HIDE DEF f
<1>8. Walk(f)
  BY <1>5, <1>6, <1>7, IdleOK DEF Walk
<1>9. Walks = NextHop(f)
  BY DEF Walks, f
<1> QED
  BY <1>8, <1>9, NextHopOK

-----------------------------------------------------------------------------
(* The steps.                                                               *)

LEMMA InitTInv == Init => TInv
<1> SUFFICES ASSUME Init PROVE TInv
  OBVIOUS
<1>1. MaxRestarts \in Nat /\ MaxOutDegree \in Nat /\ 0 \in 0..MaxRestarts
  BY TrustGraphAssumption
<1>2. Cardinality({}) = 0
  BY FS_EmptySet
<1>3. \A u \in People : {k \in graph : Truster(k) = u} = {}
  BY DEF Init
<1>4. MutualWithinCap
  BY <1>1, <1>2, <1>3 DEF Init, MutualWithinCap, DropNonMutual
<1>5. WorldTyped /\ SessionTyped
  BY <1>1 DEF Init, WorldTyped, SessionTyped
<1>6. HeldOK
  BY <1>4 DEF Init, HeldOK, Revisions
<1> QED
  BY <1>5, <1>6, IdleOK DEF Init, TInv

\* A refresh begins.
LEMMA BeginFetchOK ==
    ASSUME BeginFetch
    PROVE  WalkOK(fetch') /\ hydrated' = TRUE
<1>1. CASE fetch' \in Walks
  BY <1>1, WalksOK DEF BeginFetch
<1>2. CASE fetch' = [Idle EXCEPT !.stage = "hydrate"]
  <2>1. Idle \in FetchType
    BY IdleOK DEF Walk
  <2>2. /\ fetch'.stage = "hydrate" /\ fetch'.queried = Idle.queried /\ fetch'.frontier = Idle.frontier
        /\ fetch'.authors = Idle.authors /\ fetch'.found = Idle.found
    BY <1>2, <2>1 DEF FetchType
  <2>3. fetch' \in FetchType
    BY <1>2, <2>1 DEF FetchType, Stages
  <2> QED
    BY <2>2, <2>3, IdleOK DEF BeginFetch, WalkOK, Walk
<1> QED
  BY <1>1, <1>2 DEF BeginFetch

\* The steps of a walk.
LEMMA FetchStepOK ==
    ASSUME TInv, FetchStep
    PROVE  TInv'
<1> USE DEF TInv
<1>0. fetch \in FetchType /\ fetch.found \subseteq Keys \X Attestation /\ fetch.got \subseteq AllKeys \X Attestation
  BY DEF WalkOK, Walk, FetchType
<1>1. CASE Hydrate
  <2>1. /\ cache' = [k \in AllKeys |-> IF saved[k] = NoRev THEN cache[k] ELSE saved[k]]
        /\ fetch' \in Walks
        /\ UNCHANGED <<world, saved, graph, session, job>>
    BY <1>1 DEF Hydrate
  <2>2. cache' \in Revisions
    BY <2>1 DEF HeldOK, Revisions
  <2>3. HeldOK'
    BY <2>1, <2>2 DEF HeldOK, MutualWithinCap
  <2>4. WalkOK(fetch')
    BY <2>1, WalksOK
  <2> QED
    BY <2>1, <2>3, <2>4 DEF world, session, WorldTyped, SessionTyped
<1>2. CASE \E r \in Relays : RelayAnswers(r) \/ RelayFails(r)
  <2>1. PICK r \in Relays : RelayAnswers(r) \/ RelayFails(r)
    BY <1>2
  <2>2. UNCHANGED <<world, held, session, job>>
    BY <2>1 DEF RelayAnswers, RelayFails
  <2>3. Answer(r) \subseteq Keys \X Attestation /\ \A g \in Answer(r) : Truster(g[1]) \in fetch.queried
    BY DEF Answer, WorldTyped, WalkOK, Walk
  <2>4. WalkOK(fetch')
    <3>1. CASE RelayAnswers(r)
      <4>1. fetch' = [fetch EXCEPT !.waiting = @ \ {r}, !.found = @ \cup Answer(r)]
        BY <3>1 DEF RelayAnswers
      <4>2. /\ fetch'.stage = fetch.stage /\ fetch'.hop = fetch.hop /\ fetch'.queried = fetch.queried
            /\ fetch'.frontier = fetch.frontier /\ fetch'.authors = fetch.authors
            /\ fetch'.found = fetch.found \cup Answer(r)
        BY <1>0, <4>1 DEF FetchType
      <4>3. fetch' \in FetchType
        BY <1>0, <2>3, <4>1 DEF FetchType
      <4> QED
        BY <2>3, <4>2, <4>3 DEF WalkOK, Walk
    <3>2. CASE RelayFails(r)
      <4>1. fetch' = [fetch EXCEPT !.waiting = @ \ {r}, !.failed = TRUE]
        BY <3>2 DEF RelayFails
      <4>2. /\ fetch'.stage = fetch.stage /\ fetch'.hop = fetch.hop /\ fetch'.queried = fetch.queried
            /\ fetch'.frontier = fetch.frontier /\ fetch'.authors = fetch.authors
            /\ fetch'.found = fetch.found
        BY <1>0, <4>1 DEF FetchType
      <4>3. fetch' \in FetchType
        BY <1>0, <4>1 DEF FetchType
      <4> QED
        BY <4>2, <4>3 DEF WalkOK, Walk
    <3> QED
      BY <2>1, <3>1, <3>2
  <2>5. WorldTyped' /\ HeldOK' /\ SessionTyped'
    BY <2>2 DEF world, held, session, WorldTyped, HeldOK, SessionTyped, MutualWithinCap
  <2> QED
    BY <2>2, <2>4, <2>5
<1>3. CASE EndHop
  <2>1. PICK kept \in SUBSET fetch.found :
          LET strong == {f \in kept : f[2].weight >= MinEdgeWeight}
          IN fetch' \in NextHop([fetch EXCEPT !.hop = @ + 1, !.authors = {}, !.found = {},
                                             !.got = @ \cup strong,
                                             !.frontier = {Trustee(f[1]) : f \in strong} \ fetch.queried])
    BY <1>3 DEF EndHop
  <2> DEFINE strong == {f \in kept : f[2].weight >= MinEdgeWeight}
             people == {Trustee(f[1]) : f \in strong} \ fetch.queried
             next == [fetch EXCEPT !.hop = @ + 1, !.authors = {}, !.found = {},
                                   !.got = @ \cup strong, !.frontier = people]
  <2>2. strong \subseteq AllKeys \X Attestation
    BY <1>0 DEF AllKeys
  <2>3. people \subseteq People /\ people \cap fetch.queried = {}
    BY <1>0 DEF People, AllKeys
  <2>4. fetch.stage = "hop" /\ UNCHANGED <<world, held, session, job>>
    BY <1>3 DEF EndHop
  <2>5. fetch.hop + 1 \in 0..MaxHop
    BY <1>0, <2>4, TrustGraphAssumption DEF WalkOK, FetchType
  <2> HIDE DEF strong, people
  <2>6. next \in FetchType
    BY <1>0, <2>2, <2>3, <2>5 DEF FetchType
  <2>7. next.queried = fetch.queried /\ next.frontier = people /\ next.authors = {} /\ next.found = {}
    BY <1>0 DEF FetchType
  <2>8. fetch' \in NextHop(next)
    BY <2>1 DEF strong, people
  <2> HIDE DEF next
  <2>9. Walk(next)
    BY <2>3, <2>6, <2>7 DEF WalkOK, Walk
  <2>10. WalkOK(fetch')
    BY <2>8, <2>9, NextHopOK
  <2>11. WorldTyped' /\ HeldOK' /\ SessionTyped'
    BY <2>4 DEF world, held, session, WorldTyped, HeldOK, SessionTyped, MutualWithinCap
  <2> QED
    BY <2>4, <2>10, <2>11
<1>4. CASE EndRefresh
  <2>1. PICK oldest \in BOOLEAN : SaveAndScore([k \in AllKeys |-> Refreshed(k, oldest)])
    BY <1>4 DEF EndRefresh
  <2>2. \A k \in AllKeys : Refreshed(k, oldest) \in Attestation \cup {NoRev}
    <3> TAKE k \in AllKeys
    <3>1. CASE Collected(k) = {}
      BY <3>1 DEF Refreshed, HeldOK, Revisions
    <3>2. CASE Collected(k) # {}
      <4>1. Collected(k) \in SUBSET Attestation
        BY <1>0 DEF Collected
      <4> QED
        BY <3>2, <4>1, WrittenLastIs DEF Refreshed
    <3> QED
      BY <3>1, <3>2
  <2>3. [k \in AllKeys |-> Refreshed(k, oldest)] \in Revisions
    BY <2>2 DEF Revisions
  <2>4. HeldOK'
    BY <2>1, <2>3, SaveAndScoreKeeps
  <2>5. fetch' = Idle /\ UNCHANGED <<world, session, job>>
    BY <1>4 DEF EndRefresh
  <2> QED
    BY <2>4, <2>5, IdleOK DEF world, session, WorldTyped, SessionTyped
<1> QED
  BY <1>1, <1>2, <1>3, <1>4 DEF FetchStep

\* What is built for a key, if its created_at is within the bound, is an
\* attestation.
LEMMA SendingOK ==
    ASSUME NEW j \in JobType, NEW k \in Keys, NEW hint \in Bootstrap, NEW c \in Revisions,
           Sending(j, k, hint, c).rev.at =< MaxAt
    PROVE  JobOK(Sending(j, k, hint, c))
<1> DEFINE n == Sending(j, k, hint, c)
           rev == Build(c, k, j.weight, j.floor[k], hint)
<1>1. n = [j EXCEPT !.key = k, !.todo = @ \ {k}, !.pending = Bootstrap, !.took = {}, !.rev = rev]
  BY DEF Sending
<1>2. rev = [at |-> IF j.floor[k] = 0 THEN CachedAt(c, k) + 1 ELSE j.floor[k], weight |-> j.weight,
             hint |-> IF j.weight = 0 THEN NoHint ELSE hint, expires |-> FALSE]
  BY DEF Build
<1>3. CachedAt(c, k) \in Nat
  BY DEF CachedAt, Revisions, AllKeys, Attestation
<1>4. j.floor[k] \in Nat /\ j.weight \in 0..100 /\ hint \in Relays /\ Bootstrap \subseteq Relays
      /\ j.todo \subseteq Keys /\ MaxAt \in Nat
  BY TrustGraphAssumption DEF JobType
<1> HIDE DEF n, rev
<1>5. n.rev = rev /\ n.key = k /\ n.took = {} /\ n.pending = Bootstrap
  BY <1>1 DEF JobType
<1>6. rev.at \in Nat /\ rev.at =< MaxAt
  BY <1>2, <1>3, <1>4, <1>5 DEF n
<1>7. rev \in Attestation
  BY <1>2, <1>4, <1>6 DEF Attestation
<1>8. n \in JobType
  BY <1>1, <1>4, <1>7 DEF JobType
<1>9. JobOK(n)
  BY <1>5, <1>7, <1>8 DEF JobOK
<1> QED
  BY <1>9 DEF n

\* The steps of a publication.
LEMMA JobStepOK ==
    ASSUME TInv, JobStep
    PROVE  TInv'
<1> USE DEF TInv
<1>0. job \in JobType
  BY DEF JobOK
<1>1. ASSUME NEW r \in Relays, RelayTakes(r)
      PROVE  TInv'
  <2>1. PICK rev \in Stored(relay[r][job.key], job.rev) : relay' = [relay EXCEPT ![r][job.key] = rev]
    BY <1>1 DEF RelayTakes
  <2>2. /\ r \in job.pending
        /\ job' = [job EXCEPT !.pending = @ \ {r}, !.took = @ \cup {r}]
        /\ UNCHANGED <<late, held, session, fetch>>
    BY <1>1 DEF RelayTakes
  <2>3. job.key \in Keys /\ job.rev \in Attestation
    BY <2>2 DEF JobOK, NoJob
  <2>4. rev \in Attestation \cup {NoRev}
    BY <2>1, <2>3 DEF Stored, WorldTyped
  <2>5. WorldTyped'
    BY <2>1, <2>2, <2>3, <2>4 DEF WorldTyped
  <2>6. HeldOK' /\ SessionTyped'
    BY <2>2 DEF held, session, HeldOK, SessionTyped, MutualWithinCap
  <2>7. /\ job'.key = job.key /\ job'.rev = job.rev
        /\ job'.pending = job.pending \ {r} /\ job'.took = job.took \cup {r}
    BY <1>0, <2>2 DEF JobType
  <2>8. job' \in JobType
    BY <1>0, <2>2 DEF JobType
  <2>9. JobOK(job')
    BY <2>3, <2>7, <2>8 DEF JobOK
  <2> QED
    BY <2>2, <2>5, <2>6, <2>9
<1>2. ASSUME NEW r \in Relays, RelayRefuses(r)
      PROVE  TInv'
  <2>1. /\ r \in job.pending
        /\ job' = [job EXCEPT !.pending = @ \ {r}]
        /\ UNCHANGED <<world, held, session, fetch>>
    BY <1>2 DEF RelayRefuses
  <2>2. job.key \in Keys /\ job.rev \in Attestation
    BY <2>1 DEF JobOK, NoJob
  <2>3. WorldTyped' /\ HeldOK' /\ SessionTyped'
    BY <2>1 DEF world, held, session, WorldTyped, HeldOK, SessionTyped, MutualWithinCap
  <2>4. /\ job'.key = job.key /\ job'.rev = job.rev
        /\ job'.pending = job.pending \ {r} /\ job'.took = job.took
    BY <1>0, <2>1 DEF JobType
  <2>5. job' \in JobType
    BY <1>0, <2>1 DEF JobType
  <2>6. JobOK(job')
    BY <2>2, <2>4, <2>5 DEF JobOK
  <2> QED
    BY <2>1, <2>3, <2>6
<1>3. ASSUME EndSend
      PROVE  TInv'
  <2> DEFINE c == IF job.took = {} THEN cache ELSE [cache EXCEPT ![job.key] = job.rev]
  <2>1. job # NoJob /\ UNCHANGED <<world, session, fetch>>
    BY <1>3 DEF EndSend
  <2>2. job.key \in Keys /\ job.rev \in Attestation /\ job.todo \subseteq Keys
    BY <1>0, <2>1 DEF JobOK, JobType
  <2>3. c \in Revisions
    BY <2>2 DEF HeldOK, Revisions, AllKeys
  <2>4. \/ /\ cache' = c
           /\ \E k \in job.todo, hint \in Bootstrap : job' = Sending(job, k, hint, c)
           /\ job'.rev.at =< MaxAt
           /\ UNCHANGED <<saved, graph>>
        \/ job' = NoJob /\ (SaveAndScore(c) \/ UNCHANGED held)
    BY <1>3 DEF EndSend
  <2> HIDE DEF c
  <2>5. WorldTyped' /\ SessionTyped' /\ WalkOK(fetch')
    BY <2>1 DEF world, session, WorldTyped, SessionTyped
  <2>6. CASE /\ cache' = c
             /\ \E k \in job.todo, hint \in Bootstrap : job' = Sending(job, k, hint, c)
             /\ job'.rev.at =< MaxAt
             /\ UNCHANGED <<saved, graph>>
    <3>1. JobOK(job')
      BY <1>0, <2>2, <2>3, <2>6, SendingOK
    <3>2. HeldOK'
      BY <2>3, <2>6 DEF HeldOK, MutualWithinCap
    <3> QED
      BY <2>5, <3>1, <3>2
  <2>7. CASE job' = NoJob /\ (SaveAndScore(c) \/ UNCHANGED held)
    <3>1. HeldOK'
      BY <2>3, <2>7, SaveAndScoreKeeps DEF held, HeldOK, MutualWithinCap
    <3> QED
      BY <2>5, <2>7, <3>1, IdleOK
  <2> QED
    BY <2>4, <2>6, <2>7
<1> QED
  BY <1>1, <1>2, <1>3 DEF JobStep

\* A publication begins.
LEMMA PublishOK ==
    ASSUME TInv, NEW keys \in SUBSET Own, NEW weight \in OwnWeights, NEW batch \in BOOLEAN,
           Publish(keys, weight, batch)
    PROVE  TInv'
<1> USE DEF TInv
<1> DEFINE floor == [l \in Keys |-> IF batch /\ weight = 0 THEN CachedAt(cache, l) + 1 ELSE 0]
           first == [NoJob EXCEPT !.todo = keys, !.weight = weight, !.batch = batch, !.floor = floor]
<1>1. UNCHANGED <<world, held, session, fetch>>
  BY DEF Publish
<1>2. /\ \E k \in keys, hint \in Bootstrap : job' = Sending(first, k, hint, cache)
      /\ job'.rev.at =< MaxAt
  BY DEF Publish
<1>3. floor \in [Keys -> Nat]
  BY DEF CachedAt, HeldOK, Revisions, AllKeys, Attestation
<1>4. keys \subseteq Keys /\ weight \in 0..100
  BY TrustGraphAssumption DEF Own
<1>5. NoJob \in JobType
  BY IdleOK DEF JobOK
<1> HIDE DEF floor
<1>6. first \in JobType
  BY <1>3, <1>4, <1>5 DEF JobType
<1> HIDE DEF first
<1>7. JobOK(job')
  BY <1>2, <1>4, <1>6, SendingOK DEF HeldOK
<1> QED
  BY <1>1, <1>7 DEF world, held, session, WorldTyped, HeldOK, SessionTyped, MutualWithinCap

LEMMA NextTInv == TInv /\ [Next]_vars => TInv'
<1> SUFFICES ASSUME TInv, [Next]_vars PROVE TInv'
  OBVIOUS
<1> USE DEF TInv
<1>1. ASSUME NEW k \in Keys, NEW rev \in Planned[k], NEW takers \in SUBSET Relays,
             OtherPublishes(k, rev, takers)
      PROVE  TInv'
  <2>1. /\ relay' = [r \in Relays |-> IF r \in takers THEN [relay[r] EXCEPT ![k] = rev] ELSE relay[r]]
        /\ UNCHANGED <<late, held, session, fetch, job>>
    BY <1>1 DEF OtherPublishes
  <2>2. rev \in Attestation
    BY TrustGraphAssumption
  <2>3. WorldTyped'
    BY <2>1, <2>2 DEF WorldTyped
  <2> QED
    BY <2>1, <2>3 DEF held, session, HeldOK, SessionTyped, MutualWithinCap
<1>2. ASSUME Expire PROVE TInv'
  BY <1>2 DEF Expire, held, session, WorldTyped, HeldOK, SessionTyped, MutualWithinCap
<1>3. ASSUME Start \/ Refresh PROVE TInv'
  <2>1. /\ BeginFetch /\ UNCHANGED <<world, held, live, restarts, job>>
        /\ running' = TRUE \/ running' = running
    BY <1>3 DEF Start, Refresh
  <2> QED
    BY <2>1, BeginFetchOK DEF world, held, WorldTyped, HeldOK, SessionTyped, MutualWithinCap
<1>4. ASSUME NEW r \in Relays, NEW k \in Keys, OnLiveEvent(r, k) PROVE TInv'
  <2>1. /\ relay[r][k] # NoRev
        /\ \/ UNCHANGED <<cache, live>>
           \/ cache' = [cache EXCEPT ![k] = relay[r][k]] /\ live' = TRUE
        /\ UNCHANGED <<world, saved, graph, hydrated, running, restarts, fetch, job>>
    BY <1>4 DEF OnLiveEvent
  <2>2. relay[r][k] \in Attestation
    BY <2>1 DEF WorldTyped
  <2>3. cache' \in Revisions
    BY <2>1, <2>2 DEF HeldOK, Revisions, AllKeys
  <2>4. HeldOK'
    BY <2>1, <2>3 DEF HeldOK, MutualWithinCap
  <2> QED
    BY <2>1, <2>4 DEF world, WorldTyped, SessionTyped
<1>5. ASSUME Flush PROVE TInv'
  <2>1. live' = FALSE /\ SaveAndScore(cache) /\ UNCHANGED <<world, hydrated, running, restarts, fetch, job>>
    BY <1>5 DEF Flush
  <2>2. HeldOK'
    BY <2>1, SaveAndScoreKeeps DEF HeldOK
  <2> QED
    BY <2>1, <2>2 DEF world, WorldTyped, SessionTyped
<1>6. ASSUME Stop PROVE TInv'
  BY <1>6 DEF Stop, world, held, WorldTyped, HeldOK, SessionTyped, MutualWithinCap
<1>7. ASSUME Restart PROVE TInv'
  <2>1. /\ restarts < MaxRestarts /\ restarts' = restarts + 1
        /\ cache' = [k \in AllKeys |-> NoRev] /\ graph' = {}
        /\ hydrated' = FALSE /\ running' = FALSE /\ live' = FALSE
        /\ fetch' = Idle /\ job' = NoJob
        /\ UNCHANGED <<world, saved>>
    BY <1>7 DEF Restart
  <2>2. restarts' \in 0..MaxRestarts
    BY <2>1, TrustGraphAssumption DEF SessionTyped
  <2>3. Cardinality({}) = 0 /\ MaxOutDegree \in Nat
    BY FS_EmptySet, TrustGraphAssumption
  <2>4. \A u \in People : {k \in graph' : Truster(k) = u} = {}
    BY <2>1
  <2>5. MutualWithinCap'
    BY <2>1, <2>3, <2>4 DEF MutualWithinCap, DropNonMutual
  <2>6. HeldOK'
    BY <2>1, <2>5 DEF HeldOK, Revisions
  <2>7. WorldTyped' /\ SessionTyped'
    BY <2>1, <2>2 DEF world, WorldTyped, SessionTyped
  <2> QED
    BY <2>1, <2>6, <2>7, IdleOK
<1>8. CASE UNCHANGED vars
  BY <1>8 DEF vars, WorldTyped, HeldOK, SessionTyped, MutualWithinCap
<1> HIDE DEF TInv
<1> QED
  BY <1>1, <1>2, <1>3, <1>4, <1>5, <1>6, <1>7, <1>8, FetchStepOK, JobStepOK, PublishOK DEF Next

\* The inductive invariant holds whoever publishes, whatever the relays answer
\* and however often the viewer restarts.
THEOREM TInvHolds == Spec => []TInv
BY InitTInv, NextTInv, PTL DEF Spec

\* Type correctness; a walk asks for no more people than its budget.
THEOREM TypeCorrect == Spec => []TypeOK
<1>1. TInv => TypeOK
  BY TInvMeans
<1> QED
  BY <1>1, TInvHolds, PTL

\* No truster has more scored edges than the cap, and in strict mode every
\* scored edge has its reverse scored.
THEOREM MutualWithinCapHolds == Spec => []MutualWithinCap
<1>1. TInv => MutualWithinCap
  BY TInvMeans
<1> QED
  BY <1>1, TInvHolds, PTL
=============================================================================
