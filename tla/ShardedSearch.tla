------------------------------ MODULE ShardedSearch ------------------------------
(***************************************************************************)
(* DistributedCoordinator and M10Coordinator: a query is sent to some      *)
(* shards, their results are merged, and answers are kept in a cache.      *)
(*                                                                         *)
(* A shard may fail any call, and comes back: its results are left out of  *)
(* that answer, and of the cached one.                                     *)
(***************************************************************************)
EXTENDS Integers, FiniteSets, Sequences, SequencesExt, FiniteSetsExt

CONSTANTS
    Callers,      \* threads that search
    Setups,       \* [kind, order, hits, mode, size, ttl]: the coordinator, and what it searches
    Queries,      \* embeddings
    TopKs, TopNs,
    MaxCalls      \* bound of the model

\* A query goes to some shard; a shard holds a frame once, and gives those of equal score in
\* some order.
ASSUME SetupAssumption ==
    /\ Setups # {} /\ TopKs \subseteq Nat \ {0} /\ TopNs \subseteq Nat \ {0}
    /\ \A s \in Setups :
        /\ s.kind \in {"distributed", "m10"} /\ s.size \in Nat
        /\ \A q \in Queries :
            /\ s.order[q] \in Seq(DOMAIN s.hits[q]) /\ s.order[q] # <<>>
            /\ \A n \in DOMAIN s.hits[q] :
                /\ IsFiniteSet(s.hits[q][n])
                /\ \A r \in s.hits[q][n] : r.score \in Int /\ r.place \in Int
                /\ \A r, t \in s.hits[q][n] : r.frame = t.frame \/ r.place = t.place => r = t

VARIABLES
    setup,
    cache,     \* entries [key, answer], the least recently used first
    caller,    \* [step, query, k, n, left, got, answer] of each thread
    calls

shardVars == <<setup, cache, caller, calls>>

NoCall == [step |-> "idle", query |-> 0, k |-> 1, n |-> 1, left |-> <<>>, got |-> <<>>, answer |-> <<>>]

ShardInit ==
    /\ setup \in Setups /\ cache = <<>> /\ calls = 0
    /\ caller = [c \in Callers |-> NoCall]

CallerAt(c, step) == caller[c].step = step

-----------------------------------------------------------------------------
(* Routing, shards and merging *)

\* ShardRouter (a rotation of the shards, from the digest), SemanticShardRouter (the
\* nearest centroids first): the first n shards of the query's order, one in single
\* mode, all in broadcast mode.
Route(query, n) ==
    LET order == setup.order[query]
        count == CASE setup.mode = "broadcast" -> Len(order) [] setup.mode = "single" -> 1 [] OTHER -> n
    IN  SubSeq(order, 1, IF count < Len(order) THEN count ELSE Len(order))

\* RoutingPolicy.choose_top_n, where n = 1 stands for a latency budget below 5 ms.
ChosenN(k, n) ==
    IF setup.kind # "m10" \/ n = 1 THEN n
    ELSE IF setup.mode = "broadcast" THEN Cardinality(ToSet(setup.order[CHOOSE q \in Queries : TRUE]))
    ELSE IF k <= 5 THEN 2 ELSE n

\* The best k of a set of [frame, score, place], equal scores in the order of their places.
Ahead(r, s) == r.score > s.score \/ (r.score = s.score /\ r.place <= s.place)
BestK(results, k) ==
    LET Rank(r) == Cardinality({s \in results : Ahead(s, r)})
        Least(a, b) == IF a < b THEN a ELSE b
    IN  [n \in 1..Least(k, Cardinality(results)) |-> CHOOSE r \in results : Rank(r) = n]

\* Every frame once, at its first place, with its best score.
Deduplicated(results) ==
    {[frame |-> f, score |-> Max({r.score : r \in {r \in results : r.frame = f}}),
                   place |-> Min({r.place : r \in {r \in results : r.frame = f}})]
        : f \in {r.frame : r \in results}}

\* A shard's own best k, the best first.
ShardAnswer(query, shard, k) ==
    LET best == BestK(setup.hits[query][shard], k)
    IN  {[frame |-> best[i].frame, score |-> best[i].score, place |-> i] : i \in DOMAIN best}

\* merge_normalized makes the best score of each shard Scale.
Scale == 12
Normalized(results) ==
    LET best == IF results = {} THEN 0 ELSE Max({r.score : r \in results})
    IN  {[frame |-> r.frame, score |-> IF best > 0 THEN (r.score * Scale) \div best ELSE 0, place |-> r.place]
            : r \in results}

\* merge_results, merge_normalized: the shards' best k in the order of the route.
Merged(answers, k) ==
    Deduplicated(UNION {
        {[frame |-> r.frame, score |-> r.score, place |-> r.place + k * n]
            : r \in IF setup.kind = "m10" THEN Normalized(answers[n]) ELSE answers[n]}
        : n \in DOMAIN answers})

-----------------------------------------------------------------------------
(* QueryCache, M10QueryCache *)

\* Mutant of CacheKey: whatever the number of results.
CacheKeyOfQuery(c) == <<caller[c].query, caller[c].n>>

\* Queries are embeddings of one length: the numbers hashed behind them stay apart.
CacheKey(c) == <<caller[c].query, caller[c].k, caller[c].n>>
HitsOf(c) == {i \in DOMAIN cache : cache[i].key = CacheKey(c)}
TheHit(c) == CHOOSE i \in HitsOf(c) : TRUE
Others(c) == IF HitsOf(c) = {} THEN cache ELSE RemoveAt(cache, TheHit(c))

Call(c) ==
    /\ caller[c].step \in {"idle", "answered"} /\ calls < MaxCalls
    /\ \E q \in Queries, k \in TopKs, n \in TopNs :
           caller' = [caller EXCEPT ![c] = [NoCall EXCEPT !.step = "cache", !.query = q, !.k = k, !.n = ChosenN(k, n)]]
    /\ calls' = calls + 1
    /\ UNCHANGED <<setup, cache>>

\* A hit becomes the most recently used entry; one that is older than ttl is removed.
HitCache(c) ==
    /\ CallerAt(c, "cache") /\ HitsOf(c) # {}
    /\ LET hit == cache[TheHit(c)]
       IN  /\ cache' = Append(Others(c), hit)
           /\ caller' = [caller EXCEPT ![c].answer = hit.answer, ![c].step = "answered"]
    /\ UNCHANGED <<setup, calls>>

MissCache(c) ==
    /\ CallerAt(c, "cache") /\ (HitsOf(c) = {} \/ setup.ttl)
    /\ cache' = Others(c)
    /\ caller' = [caller EXCEPT ![c].left = Route(caller[c].query, caller[c].n), ![c].step = "ask"]
    /\ UNCHANGED <<setup, calls>>

\* The results are taken in the order of the route, whenever they come; a shard that
\* fails is left out.
AskShard(c) ==
    /\ CallerAt(c, "ask")
    /\ \E results \in {ShardAnswer(caller[c].query, Head(caller[c].left), caller[c].k)}, up \in BOOLEAN :
           caller' = [caller EXCEPT
               ![c].left = Tail(@),
               ![c].got  = IF up THEN Append(@, results) ELSE @,
               ![c].step = IF Len(caller[c].left) = 1 THEN "merge" ELSE "ask"]
    /\ UNCHANGED <<setup, cache, calls>>

MergeAndKeep(c) ==
    /\ CallerAt(c, "merge")
    /\ \E merged \in {Merged(caller[c].got, caller[c].k)} : \E answer \in {BestK(merged, caller[c].k)} :
       LET entries == Append(Others(c), [key |-> CacheKey(c), answer |-> answer])
       IN  /\ caller' = [caller EXCEPT ![c].answer = answer, ![c].step = "answered"]
           /\ cache' = IF Len(entries) > setup.size THEN Tail(entries) ELSE entries
    /\ UNCHANGED <<setup, calls>>

CallerStep(c) == HitCache(c) \/ MissCache(c) \/ AskShard(c) \/ MergeAndKeep(c)
ShardNext == \E c \in Callers : Call(c) \/ CallerStep(c)

-----------------------------------------------------------------------------
(* Properties *)

\* An answer is what one index over some of the routed shards would give: their best k
\* frames, each once and with its best score, also when it comes from the cache, where
\* another thread may have put it; the cache keeps to its size (the coordinators ask each
\* shard for its own best k only).
IsTop(answer, results, k) ==
    LET frames == {r.frame : r \in results}
        Best(f) == Max({r.score : r \in {r \in results : r.frame = f}})
        given  == {answer[i].frame : i \in DOMAIN answer}
    IN  /\ given \subseteq frames /\ Cardinality(given) = Len(answer)
        /\ Len(answer) = Min({k, Cardinality(frames)})
        /\ \A i \in DOMAIN answer : answer[i].score = Best(answer[i].frame)
        /\ \A i, j \in DOMAIN answer : i < j => answer[i].score >= answer[j].score
        /\ \A f \in frames \ given, i \in DOMAIN answer : Best(f) <= answer[i].score

\* The frames only one shard has keep that shard's order when scores are normalised.
KeepsOrder(answer, shards, hits) ==
    \A i, j \in DOMAIN answer, s \in shards :
        i < j /\ (\A t \in shards \ {s} : \A r \in hits[t] : r.frame # answer[i].frame) =>
            \A a, b \in hits[s] : a.frame = answer[i].frame /\ b.frame = answer[j].frame => a.score >= b.score

ShardsAnswerAsOne ==
    /\ Len(cache) <= setup.size
    /\ \A c \in Callers : CallerAt(c, "answered") =>
           LET shards == ToSet(Route(caller[c].query, caller[c].n))
               hits   == setup.hits[caller[c].query]
           IN  IF setup.kind = "distributed"
               THEN \E up \in SUBSET shards : IsTop(caller[c].answer, UNION {hits[s] : s \in up}, caller[c].k)
               ELSE KeepsOrder(caller[c].answer, shards, hits)
=============================================================================
