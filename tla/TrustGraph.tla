----------------------------- MODULE TrustGraph -----------------------------
(***************************************************************************)
(* The viewer's trust graph (extension/tg): attestations collected from     *)
(* relays by a bounded walk, heard live, and published by the viewer.       *)
(*                                                                         *)
(* An attestation is an addressable event: of one key (truster, trustee,    *)
(* context) a relay keeps the newest revision, and a revision of weight 0   *)
(* revokes.  The viewer keeps one revision per key in a cache that every    *)
(* source writes without comparing created_at, and computes the graph from  *)
(* the cache.  A refresh is one walk: hop by hop, the relays of a hop are   *)
(* asked together and each answers, or does not, in its own time.           *)
(*                                                                         *)
(* created_at is a counter: publications follow each other within a second, *)
(* where only nextCreatedAt's + 1 tells them apart.  Priorities of the      *)
(* frontier are not kept: a walk over its budget asks any nodes of it.      *)
(***************************************************************************)
EXTENDS Integers, FiniteSets

CONSTANTS
    Root,             \* the viewer
    Keys,             \* <<truster, trustee, context>> of published attestations
    Seeds,            \* keys of the viewer's private seed edges
    Relays, Bootstrap,
    Planned,          \* what other people publish: key -> set of revisions
    OwnWeights,       \* weights the viewer publishes
    RequireHint, HardReciprocal, MinEdgeWeight, MaxOutDegree, MaxHop, MaxNodes,
    MaxAt,            \* bound on created_at
    MaxRestarts,      \* bound on new TrustGraph objects
    NoHint, NoRev, NoKey

Least(m, n) == IF m < n THEN m ELSE n

Truster(k) == k[1]
Trustee(k) == k[2]
AllKeys == Keys \cup Seeds
People == {Root} \cup {Truster(k) : k \in AllKeys} \cup {Trustee(k) : k \in AllKeys}

\* A revision; expires tells whether its NIP-40 expiration is in this run's time.
Attestation == [at : 0..MaxAt, weight : 0..100, hint : Relays \cup {NoHint}, expires : BOOLEAN]
SeedEdge == [at |-> 0, weight |-> 1, hint |-> NoHint, expires |-> FALSE]

ASSUME TrustGraphAssumption ==
    /\ Bootstrap \subseteq Relays /\ Bootstrap # {} /\ IsFiniteSet(Relays)
    /\ IsFiniteSet(Keys) /\ IsFiniteSet(Seeds) /\ Keys \cap Seeds = {}
    /\ Planned \in [Keys -> SUBSET Attestation]
    /\ \A k \in Keys : Truster(k) = Root => Planned[k] = {}
    /\ OwnWeights \subseteq 0..100
    /\ RequireHint \in BOOLEAN /\ HardReciprocal \in BOOLEAN
    /\ MinEdgeWeight \in Nat /\ MaxOutDegree \in Nat \ {0}
    /\ MaxHop \in Nat /\ MaxNodes \in Nat \ {0} /\ MaxAt \in Nat /\ MaxRestarts \in Nat
    /\ NoRev \notin Attestation /\ NoHint \notin Relays /\ NoKey \notin Keys

VARIABLES
    relay,      \* what each relay stores
    late,       \* whether the expirations have passed
    cache,      \* the revision the viewer holds of each key
    saved,      \* the snapshot in the store
    hydrated,   \* whether the store has been asked for it
    running,    \* the timer and the live subscription
    live,       \* a recompute is due after live events
    fetch,      \* the refresh under way
    job,        \* the publication under way
    graph,      \* the keys whose edges the last recompute kept
    restarts

world == <<relay, late>>
held == <<cache, saved, graph>>
session == <<hydrated, running, live, restarts>>
vars == <<relay, late, cache, saved, hydrated, running, live, fetch, job, graph, restarts>>

Revisions == [AllKeys -> Attestation \cup {NoRev}]
Stages == {"idle", "hydrate", "hop", "end"}
Idle == [stage |-> "idle", hop |-> 0, queried |-> {}, frontier |-> {}, authors |-> {}, waiting |-> {},
         found |-> {}, got |-> {}, failed |-> FALSE]
NoJob == [key |-> NoKey, rev |-> NoRev, pending |-> {}, took |-> {}, todo |-> {},
          floor |-> [k \in Keys |-> 0], weight |-> 0, batch |-> FALSE]

TypeOK ==
    /\ relay \in [Relays -> [Keys -> Attestation \cup {NoRev}]]
    /\ late \in BOOLEAN /\ hydrated \in BOOLEAN /\ running \in BOOLEAN /\ live \in BOOLEAN
    /\ cache \in Revisions /\ saved \in Revisions
    /\ fetch.stage \in Stages /\ fetch.hop \in 0..MaxHop
    /\ fetch.queried \subseteq People /\ Cardinality(fetch.queried) =< MaxNodes
    /\ fetch.frontier \subseteq People \ fetch.queried
    /\ fetch.waiting \subseteq Relays
    /\ \A f \in fetch.found : f[1] \in Keys /\ Truster(f[1]) \in fetch.queried
    /\ fetch.got \subseteq AllKeys \X Attestation
    /\ job.key \in Keys \cup {NoKey} /\ job.took \cap job.pending = {}
    /\ job.todo \subseteq Keys
    /\ graph \subseteq AllKeys
    /\ restarts \in 0..MaxRestarts

-----------------------------------------------------------------------------
(* From the cache to the graph.                                             *)

\* adjacencyFromAttestations: revoked and expired edges are not edges.
AdjacencyFromAttestations(c) ==
    {k \in AllKeys : c[k] # NoRev /\ c[k].weight > 0 /\ ~(late /\ c[k].expires)}

DropNonMutual(edges) ==
    {k \in edges : \E l \in edges : Truster(l) = Trustee(k) /\ Trustee(l) = Truster(k)}

\* The strongest MaxOutDegree edges of every truster; CHOOSE stands for the
\* order of insertion among equals.
Strongest(c, edges) ==
    CHOOSE s \in SUBSET edges :
        \A u \in People :
            LET of == {k \in edges : Truster(k) = u}
            IN /\ Cardinality(s \cap of) = Least(Cardinality(of), MaxOutDegree)
               /\ \A k \in s \cap of, l \in of \ s : c[k].weight >= c[l].weight

\* Reciprocity tested before expirations, weights and the cap.
CappedAfterReciprocity(c) ==
    LET edges == {k \in AllKeys : c[k] # NoRev /\ c[k].weight > 0}
    IN Strongest(c, {k \in IF HardReciprocal THEN DropNonMutual(edges) ELSE edges :
                        k \in AdjacencyFromAttestations(c) /\ c[k].weight >= MinEdgeWeight})

CappedAdjacency(c) ==
    LET strong == {k \in AdjacencyFromAttestations(c) : c[k].weight >= MinEdgeWeight}
        capped == Strongest(c, strong)
    IN IF HardReciprocal THEN DropNonMutual(capped) ELSE capped

-----------------------------------------------------------------------------

Init ==
    /\ relay = [r \in Relays |-> [k \in Keys |-> NoRev]]
    /\ late = FALSE
    /\ cache = [k \in AllKeys |-> NoRev]
    /\ saved = [k \in AllKeys |-> NoRev]
    /\ hydrated = FALSE /\ running = FALSE /\ live = FALSE
    /\ fetch = Idle
    /\ job = NoJob
    /\ graph = {}
    /\ restarts = 0

\* A relay replaces a revision by a newer one; of two of the same second NIP-01
\* keeps the one with the lower id, which may be either.
Stored(old, rev) ==
    IF old = NoRev \/ rev.at > old.at THEN {rev} ELSE IF rev.at = old.at THEN {rev, old} ELSE {old}

\* Someone else publishes the next revision planned for k; some relays get it.
OtherPublishes(k, rev, takers) ==
    /\ rev \in Planned[k]
    /\ takers # {}
    /\ \A r \in Relays : relay[r][k] # NoRev => relay[r][k].at < rev.at
    /\ relay' = [r \in Relays |-> IF r \in takers THEN [relay[r] EXCEPT ![k] = rev] ELSE relay[r]]
    /\ UNCHANGED <<late, held, session, fetch, job>>

Expire ==
    /\ ~late
    /\ late' = TRUE
    /\ UNCHANGED <<relay, held, session, fetch, job>>

-----------------------------------------------------------------------------
(* Refresh.                                                                 *)

\* The relays an author is asked at: the hints heard of it, else the bootstrap.
RelaysOf(f, u) ==
    LET hints == {g[2].hint : g \in {h \in f.got : Trustee(h[1]) = u}} \ {NoHint}
    IN IF hints = {} THEN Bootstrap ELSE hints

\* The nodes of the frontier the budget still allows.
Authors(f) ==
    {s \in SUBSET f.frontier :
        Cardinality(s) = Least(Cardinality(f.frontier), MaxNodes - Cardinality(f.queried))}

\* How the walk f goes on when a hop begins: it asks the next authors, or ends
\* because no node, hop or budget is left, or at a later hop by the deadline.
NextHop(f) ==
    LET asked == {[f EXCEPT !.stage = "hop", !.authors = s, !.frontier = {},
                            !.queried = @ \cup s,
                            !.waiting = UNION {RelaysOf(f, u) : u \in s}]
                    : s \in IF f.hop < MaxHop THEN Authors(f) \ {{}} ELSE {}}
    IN asked \cup (IF asked = {} \/ f.hop > 0
                   THEN {[f EXCEPT !.stage = "end", !.frontier = {}]} ELSE {})

Walks ==
    NextHop([Idle EXCEPT !.frontier = {Root} \cup {Trustee(k) : k \in Seeds},
                         !.got = {<<k, SeedEdge>> : k \in Seeds}])

BeginFetch ==
    /\ fetch.stage = "idle"
    /\ hydrated' = TRUE
    /\ fetch' \in IF hydrated THEN Walks ELSE {[Idle EXCEPT !.stage = "hydrate"]}

\* start(): a refresh at once, one per interval, and the live subscription.
\* One refresh at a time is a bound of the model: an interval is longer than
\* the timeouts of a walk.
Start ==
    /\ ~running
    /\ running' = TRUE
    /\ BeginFetch
    /\ UNCHANGED <<world, held, live, restarts, job>>

Refresh ==
    /\ running
    /\ BeginFetch
    /\ UNCHANGED <<world, held, running, live, restarts, job>>

\* The snapshot goes over what the cache holds, also over what was heard live
\* while the store was asked.
Hydrate ==
    /\ fetch.stage = "hydrate"
    /\ cache' = [k \in AllKeys |-> IF saved[k] = NoRev THEN cache[k] ELSE saved[k]]
    /\ fetch' \in Walks
    /\ UNCHANGED <<world, saved, graph, session, job>>

\* What relay r returns of the authors it was asked for, as the walk takes it.
Answer(r) ==
    {<<k, relay[r][k]>> : k \in {l \in Keys :
        /\ relay[r][l] # NoRev
        /\ Truster(l) \in fetch.authors
        /\ r \in RelaysOf(fetch, Truster(l))
        /\ RequireHint => relay[r][l].hint # NoHint}}

RelayAnswers(r) ==
    /\ fetch.stage = "hop"
    /\ r \in fetch.waiting
    /\ fetch' = [fetch EXCEPT !.waiting = @ \ {r}, !.found = @ \cup Answer(r)]
    /\ UNCHANGED <<world, held, session, job>>

\* A query that throws, times out, or is not sent because of the deadline.
RelayFails(r) ==
    /\ fetch.stage = "hop"
    /\ r \in fetch.waiting
    /\ fetch' = [fetch EXCEPT !.waiting = @ \ {r}, !.failed = TRUE]
    /\ UNCHANGED <<world, held, session, job>>

\* The cap counts revisions, the strongest first, a revocation last.
KeptOf(u, kept) ==
    LET of == {f \in fetch.found : Truster(f[1]) = u}
    IN /\ Cardinality(kept \cap of) = Least(Cardinality(of), MaxOutDegree)
       /\ \A f \in kept \cap of, g \in of \ kept : f[2].weight >= g[2].weight

EndHop ==
    /\ fetch.stage = "hop"
    /\ fetch.waiting = {}
    /\ \E kept \in SUBSET fetch.found :
          /\ \A u \in fetch.authors : KeptOf(u, kept)
          /\ LET strong == {f \in kept : f[2].weight >= MinEdgeWeight}
             IN fetch' \in NextHop([fetch EXCEPT !.hop = @ + 1, !.authors = {}, !.found = {},
                                                 !.got = @ \cup strong,
                                                 !.frontier = {Trustee(f[1]) : f \in strong} \ fetch.queried])
    /\ UNCHANGED <<world, held, session, job>>

\* Written in the order they were collected, the weakest of a truster last; of
\* two as weak either may be.
WrittenLast(revs, oldest) ==
    LET weakest == {v \in revs : \A w \in revs : v.weight =< w.weight}
    IN CHOOSE v \in weakest : \A w \in weakest : IF oldest THEN v.at =< w.at ELSE v.at >= w.at

Collected(k) == {g[2] : g \in {f \in fetch.got : f[1] = k}}

\* A refresh that leaves what is already cached.
KeepsCached(k, oldest) ==
    IF cache[k] # NoRev \/ Collected(k) = {} THEN cache[k] ELSE WrittenLast(Collected(k), oldest)

Refreshed(k, oldest) ==
    IF Collected(k) = {} THEN cache[k] ELSE WrittenLast(Collected(k), oldest)

\* recompute left out.
SaveOnly(c) ==
    /\ cache' = c
    /\ saved' = c
    /\ UNCHANGED graph

\* saveAttestations and recompute.
SaveAndScore(c) ==
    /\ cache' = c
    /\ saved' = c
    /\ graph' = CappedAdjacency(c)

\* refresh() runs to its end also when stop() was called meanwhile.
EndRefresh ==
    /\ fetch.stage = "end"
    /\ \E oldest \in BOOLEAN : SaveAndScore([k \in AllKeys |-> Refreshed(k, oldest)])
    /\ fetch' = Idle
    /\ UNCHANGED <<world, session, job>>

-----------------------------------------------------------------------------
(* Live attestations.                                                       *)

\* Writes the cache whatever is in it.  A relay may deliver what it stores at
\* any time of the subscription.
OnLiveEvent(r, k) ==
    /\ running
    /\ r \in Bootstrap
    /\ relay[r][k] # NoRev
    /\ IF RequireHint /\ relay[r][k].hint = NoHint
       THEN UNCHANGED <<cache, live>>
       ELSE cache' = [cache EXCEPT ![k] = relay[r][k]] /\ live' = TRUE
    /\ UNCHANGED <<world, saved, graph, hydrated, running, restarts, fetch, job>>

\* The timer of scheduleLive.
Flush ==
    /\ live
    /\ live' = FALSE
    /\ SaveAndScore(cache)
    /\ UNCHANGED <<world, hydrated, running, restarts, fetch, job>>

\* stop() cancels what was scheduled; a refresh under way goes on.
Stop ==
    /\ running
    /\ running' = FALSE
    /\ live' = FALSE
    /\ UNCHANGED <<world, held, hydrated, restarts, fetch, job>>

\* A new TrustGraph on the same store.
Restart ==
    /\ restarts < MaxRestarts
    /\ restarts' = restarts + 1
    /\ cache' = [k \in AllKeys |-> NoRev]
    /\ graph' = {}
    /\ hydrated' = FALSE /\ running' = FALSE /\ live' = FALSE
    /\ fetch' = Idle
    /\ job' = NoJob
    /\ UNCHANGED <<world, saved>>

-----------------------------------------------------------------------------
(* Publishing.                                                              *)

CachedAt(c, k) == IF c[k] = NoRev THEN 0 ELSE c[k].at

\* buildAttestation: an edge needs a relay hint, a revocation is sent without.
\* floor is the created_at revokeAll has set, 0 for nextCreatedAt.
Build(c, k, weight, floor, hint) ==
    [at |-> IF floor = 0 THEN CachedAt(c, k) + 1 ELSE floor, weight |-> weight,
     hint |-> IF weight = 0 THEN NoHint ELSE hint, expires |-> FALSE]

\* The job after k is built and handed to every bootstrap relay, c the cache.
Sending(j, k, hint, c) ==
    [j EXCEPT !.key = k, !.todo = @ \ {k}, !.pending = Bootstrap, !.took = {},
              !.rev = Build(c, k, j.weight, j.floor[k], hint)]

Own == {k \in Keys : Truster(k) = Root}
OwnLive == {k \in Own : cache[k] # NoRev /\ cache[k].weight > 0}

\* publishAttestation and revokeAttestation of one key, publishAll of several
\* and revokeAll of all the live ones.  revokeAll takes the created_at to
\* exceed from the list it makes before the first of them is sent.
Publish(keys, weight, batch) ==
    /\ job = NoJob
    /\ IF batch /\ weight = 0 THEN keys = OwnLive ELSE batch = (Cardinality(keys) > 1)
    /\ \E k \in keys, hint \in Bootstrap :
          job' = Sending([NoJob EXCEPT !.todo = keys, !.weight = weight, !.batch = batch,
                                       !.floor = [l \in Keys |-> IF batch /\ weight = 0
                                                                 THEN CachedAt(cache, l) + 1 ELSE 0]],
                         k, hint, cache)
    /\ job'.rev.at =< MaxAt
    /\ UNCHANGED <<world, held, session, fetch>>

\* A relay that took it and is sent it again with those that did not.
RelayTakesAgain(r) ==
    /\ r \in job.pending
    /\ \E rev \in Stored(relay[r][job.key], job.rev) : relay' = [relay EXCEPT ![r][job.key] = rev]
    /\ job' = [job EXCEPT !.took = @ \cup {r}]
    /\ UNCHANGED <<late, held, session, fetch>>

\* Whether at the first attempt or at a retry: only those that failed are
\* tried again.
RelayTakes(r) ==
    /\ r \in job.pending
    /\ \E rev \in Stored(relay[r][job.key], job.rev) : relay' = [relay EXCEPT ![r][job.key] = rev]
    /\ job' = [job EXCEPT !.pending = @ \ {r}, !.took = @ \cup {r}]
    /\ UNCHANGED <<late, held, session, fetch>>

RelayRefuses(r) ==
    /\ r \in job.pending
    /\ job' = [job EXCEPT !.pending = @ \ {r}]
    /\ UNCHANGED <<world, held, session, fetch>>

\* Applied here when some relay took it; a single one that none took throws.
EndSend ==
    /\ job # NoJob
    /\ job.pending = {}
    /\ LET c == IF job.took = {} THEN cache ELSE [cache EXCEPT ![job.key] = job.rev]
       IN IF job.todo # {}
          THEN /\ cache' = c
               /\ \E k \in job.todo, hint \in Bootstrap : job' = Sending(job, k, hint, c)
               /\ job'.rev.at =< MaxAt
               /\ UNCHANGED <<saved, graph>>
          ELSE /\ job' = NoJob
               /\ IF job.batch \/ job.took # {} THEN SaveAndScore(c) ELSE UNCHANGED held
    /\ UNCHANGED <<world, session, fetch>>

-----------------------------------------------------------------------------

FetchStep ==
    \/ Hydrate
    \/ \E r \in Relays : RelayAnswers(r) \/ RelayFails(r)
    \/ EndHop
    \/ EndRefresh

JobStep ==
    \/ \E r \in Relays : RelayTakes(r) \/ RelayRefuses(r)
    \/ EndSend

Next ==
    \/ \E k \in Keys : \E rev \in Planned[k], takers \in SUBSET Relays : OtherPublishes(k, rev, takers)
    \/ Expire
    \/ Start
    \/ Refresh
    \/ FetchStep
    \/ \E r \in Relays, k \in Keys : OnLiveEvent(r, k)
    \/ Flush
    \/ Stop
    \/ Restart
    \/ \E keys \in SUBSET Own, weight \in OwnWeights, batch \in BOOLEAN : Publish(keys, weight, batch)
    \/ JobStep

Spec == Init /\ [][Next]_vars

\* Timers fire, and the queries of a refresh end.
FairSpec == Spec /\ WF_vars(Refresh) /\ WF_vars(FetchStep) /\ WF_vars(Flush)

-----------------------------------------------------------------------------
(* Properties.                                                              *)

\* In strict mode every edge that is scored has its reverse, and no truster
\* has more edges than the cap, however revisions, revocations and expirations
\* came in.  (cappedAdjacency caps first and tests reciprocity last.)
MutualWithinCap ==
    /\ \A u \in People : Cardinality({k \in graph : Truster(k) = u}) =< MaxOutDegree
    /\ HardReciprocal => DropNonMutual(graph) = graph

\* While the timer runs, the graph comes to be that of the cache, after what
\* was heard live, loaded from the store or expired alike.  (recompute at the
\* end of each refresh; the debounce of scheduleLive.)
GraphFollowsCache == running ~> (graph = CappedAdjacency(cache) \/ ~running)

HeldOf(k) == {relay[r][k] : r \in Relays}

\* A refresh that asked for the truster's keys and had every answer, none of
\* them cut by the cap.
Answered(k) ==
    /\ fetch.stage = "end"
    /\ Truster(k) \in fetch.queried
    /\ ~fetch.failed
    /\ Cardinality({l \in Keys : Truster(l) = Truster(k)}) * Cardinality(Relays) =< MaxOutDegree

Usable(rev) ==
    rev # NoRev /\ (RequireHint => rev.hint # NoHint) /\ rev.weight >= MinEdgeWeight

\* A revision that every relay has replaced by one the viewer accepts does not
\* stay in the cache of a viewer whose refreshes are answered, although every
\* source - the walk, the subscription, the snapshot, an own publication -
\* overwrites the cache without comparing.
CacheFollowsRelays ==
    \A k \in Keys :
        []<>Answered(k) => <>[]((\A v \in HeldOf(k) : Usable(v)) => cache[k] \in HeldOf(k))

Revoked(k) == \A r \in Relays : relay[r][k] # NoRev /\ relay[r][k].weight = 0

\* An edge whose every relay holds its revocation leaves the graph of a viewer
\* that keeps refreshing: "Republish the same 30500 `d` tag with w=0 [...] and
\* confirm the relay replaces the old revision and the PPR graph drops the
\* edge" (e2e-revoke.ts:1).
RevocationReachesGraph ==
    \A k \in Keys : []<>Answered(k) /\ <>[]Revoked(k) => <>[](k \notin graph)
=============================================================================
