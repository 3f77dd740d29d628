---------------------------- MODULE MCRetrieval ----------------------------
(***************************************************************************)
(* What a reader of a table gets, one part at a time: the admission of     *)
(* requests to the server, its cached answers, queries over a table that   *)
(* changes, the change feed, the HNSW graph and its visited set, the       *)
(* IVF-PQ index with the distance kernels, and the ranking of what was     *)
(* found.  The part is chosen at the start; the others stay where they     *)
(* are.                                                                    *)
(***************************************************************************)
EXTENDS SearchQuery, Hnsw, VisitedTracker, VectorIndex, Ranking, ChangeFeed, QueryCache, RequestGuard

CONSTANTS Parts, q1, q2
VARIABLE part

(* Answers that race with commits of this server and of others, and        *)
(* compactions that empty the cache.                                       *)
MCsize == [n \in File \cup {"query", "table"} |-> CASE n = "query" -> 1 [] n = "table" -> 4 [] OTHER -> 2]
Queries == [op |-> {"search", "write"}, redis |-> FALSE, changes |-> 1, cacheFaults |-> 0]
Shared == [op |-> {"search", "info"}, redis |-> TRUE, changes |-> 1, cacheFaults |-> 0]
Compacted == [op |-> {"info", "compact"}, redis |-> TRUE, changes |-> 1, cacheFaults |-> 1]
Mixed == [op |-> {"search", "read"}, redis |-> FALSE, changes |-> 0, cacheFaults |-> 0]
QuerySettings == {Queries, Shared, Compacted, Mixed}

(* One server with counters of its own; two that share a Redis, which may  *)
(* fail.                                                                   *)
MClimit == [c \in Class |-> [d \in Dimension |-> IF c = "search" /\ d = "ip" THEN 2 ELSE 1]]
Alone == [class |-> {"search"}, dims |-> Dimension, redis |-> FALSE, fail_closed |-> FALSE,
          calls |-> 3, errors |-> 0]
Open_ == [Alone EXCEPT !.redis = TRUE, !.calls = 2, !.errors = 1]
Closed_ == [Open_ EXCEPT !.fail_closed = TRUE]
Classes == [Alone EXCEPT !.redis = TRUE, !.class = Class, !.dims = {"token"}]
GuardSettings == {Alone, Open_, Closed_, Classes}

(* One or two queries of each kind, with the changes that matter to it.    *)
Of(kind, queries, strict, k, pruned, changing, faulty) ==
    [kind |-> kind, queries |-> queries, strict |-> strict, k |-> k, pruned |-> pruned,
     changes |-> changing, faulty |-> faulty, sizes |-> <<1, 5, 0>>, fts |-> {}, complete |-> TRUE]
Pruning == Of("vector", {q1, q2}, TRUE, 1, {1}, {"drop"}, TRUE)
Settings ==
    { Pruning,
      Of("vector", {q1, q2}, TRUE, 8, {}, {"index"}, FALSE),
      Of("vector", {q1}, TRUE, 8, {}, {"delete_rows", "delete_where"}, TRUE),
      Of("vector", {q1}, FALSE, 8, {}, {"delete_where", "delete_rows"}, TRUE),
      Of("data", {q1}, TRUE, 8, {}, {"compact", "delete_rows", "index"}, TRUE),
      Of("hybrid", {q1}, TRUE, 1, {}, {"compact", "delete_rows"}, TRUE),
      Of("text", {q1}, TRUE, 8, {}, {"delete_where", "index"}, TRUE),
      Of("text", {q1}, TRUE, 8, {}, {"compact", "drop"}, FALSE),
      [Of("text", {q1}, TRUE, 8, {}, {"delete_where"}, TRUE) EXCEPT !.fts = {1, 2}],
      [Of("text", {q1}, TRUE, 1, {}, {"delete_rows"}, FALSE) EXCEPT !.fts = {1}],
      [Of("vector", {q1}, TRUE, 8, {}, {"delete_where", "index"}, FALSE) EXCEPT !.complete = FALSE],
      Of("vector", {q1}, TRUE, 8, {}, {"delete_where", "compact"}, FALSE),
      Of("text", {q1}, TRUE, 8, {}, {"delete_where", "compact"}, FALSE),
      Of("session", {q1}, TRUE, 8, {}, {"delete_rows", "delete_where", "index"}, TRUE) }

(* The commits of each kind between the two snapshots that are asked for,  *)
(* and a column that is added before or after files that have it.          *)
SmallFeed ==
    [commits |-> <<>>, batches |-> {}, column |-> "none", faults |-> 0, start |-> 0, end |-> 0,
     coalesce |-> FALSE, strict |-> TRUE]
MCFeedSettings ==
    LET a == "append"  w == "delete_where"  d == "delete_rows"  c == "compact"  e == "evolve"
    IN  {SmallFeed}
        \cup [commits : {<<a, d, c>>, <<a, w, a, w>>, <<a, a, c>>, <<a, a, d, w>>, <<a, w, c>>},
              batches : {{<<"a">>, <<"a", "b">>}}, column : {"none"}, faults : {1},
              start : {0, 1}, end : {0, 2}, coalesce : BOOLEAN, strict : BOOLEAN]
        \cup [commits : {<<a, e, a, c>>, <<a, a, e, d>>, <<a, a, a, e>>},
              batches : {{<<"a", "b">>}}, column : {"null", "default", "binary"}, faults : {0},
              start : {0, 1}, end : {0}, coalesce : {FALSE}, strict : {TRUE}]

(* Serial builds and insertions of five nodes, m = 2, with levels that     *)
(* make promotions, equal tops and, on layer 1, pruning happen; parallel   *)
(* builds of four nodes by two workers.  All distances differ.             *)
OneNode == [parallel |-> FALSE, workers |-> 1, m |-> 2, ef |-> 1, built |-> 1,
            at |-> <<0>>, level |-> <<0>>]
MCHnswSettings ==
    {OneNode}
    \cup [parallel : {FALSE}, workers : {1}, m : {2}, ef : {1, 3}, built : {0, 3},
          at : {<<7, 0, 12, 1, 4>>},
          level : {<<0, 0, 0, 0, 0>>, <<0, 1, 1, 2, 1>>, <<1, 1, 1, 1, 1>>,
                   <<2, 0, 1, 0, 2>>, <<1, 0, 2, 1, 0>>}]
    \cup [parallel : {TRUE}, workers : {2}, m : {2}, ef : {1, 3}, built : {4},
          at : {<<4, 0, 6, 1>>},
          level : {<<0, 0, 0, 0>>, <<1, 1, 1, 1>>, <<0, 1, 1, 1>>, <<0, 1, 2, 0>>,
                   <<0, 2, 1, 1>>}]

(* Every length around the 4, 8, 16 and 32 component boundaries, and three *)
(* vectors of two components, duplicates among them; the same direction    *)
(* with two lengths, and searches that probe more lists than the index     *)
(* says or has.                                                            *)
Kernel == [kind |-> "kernel", cpu |-> "none", op |-> "dot", f16 |-> FALSE, n |-> 0]
MCVectorJobs ==
    [kind : {"kernel"}, cpu : {"avx512f", "avx2", "neon", "none"}, op : {"dot", "cosine"},
     f16 : BOOLEAN, n : 0 .. 35]
    \cup {j \in [kind : {"ivf"},
                 vectors : {<< <<0, 36>>, <<108, 36>>, <<36, 0>> >>,
                            << <<36, 36>>, <<36, 36>>, <<0, 108>> >>},
                 query : {<<0, 0>>, <<72, 36>>}, nlist : {1, 2, 5}, nprobe : {1, 2},
                 pq_m : {1, 3}, pq_k : {1, 2}, residual : BOOLEAN, top_k : {1, 3},
                 legacy : BOOLEAN, metric : {"Euclidean"}, override : {0}] : j.legacy => ~j.residual}
    \cup [kind : {"ivf"},
          vectors : {<< <<0, 108>>, <<72, 0>>, <<36, 0>> >>, << <<-36, 0>>, <<0, 0>>, <<0, 108>> >>},
          query : {<<0, 72>>, <<108, 0>>}, nlist : {2}, nprobe : {1}, pq_m : {1}, pq_k : {2},
          residual : BOOLEAN, top_k : {1, 3}, legacy : {FALSE}, metric : {"Cosine", "Euclidean"},
          override : {0, 1, 5}]

(* Questions to the ranking: rows in pieces, candidates with ties, result  *)
(* lists of two modalities, shards around a query, texts and documents.    *)
Perms(n) == {f \in [1 .. n -> 1 .. n] : \A i, j \in 1 .. n : i # j => f[i] # f[j]}
NoRows == [kind |-> "flat", dist |-> <<0, 1, 2, 3, 4>>, cuts |-> <<5>>, k |-> 0]
Flats ==
    [kind : {"flat"}, dist : {<<3, 1, 2, 1, 0>>, <<0, 1, 2, 3, 4>>, <<5, 4, 3, 2, 1>>},
     cuts : {<<5>>, <<2, 3>>, <<1, 3, 1>>, <<0, 2, 3>>}, k : 0 .. 3]
Hybrids ==
    {[kind |-> "hybrid", w |-> w, fusion |-> f, k |-> k,
      cands |-> [i \in 1 .. 3 |-> [row |-> p[i], dist |-> d[p[i]], bm25 |-> b[p[i]]]]]
       : w \in {0, 3, 10}, f \in {"Rrf", "Linear"}, k \in {2, 3}, p \in Perms(3),
         d \in {<<1, 2, 3>>, <<1, 1, 4>>, <<2, 2, 2>>},
         b \in {<<5, 0, 3>>, <<0, 0, 1>>, <<2, 2, 2>>, <<9, 4, 0>>}}
Lists ==
    {<<>>, <<"a">>, <<"a", "b">>, <<"b", "c", "a">>, <<"c", "a", "b">>, <<"a", "b", "c">>}
Multis ==
    {[kind |-> "multi", lists |-> l, weights |-> w, k |-> k]
       : l \in Lists \X Lists, w \in {<<10, 10>>, <<10, 1>>}, k \in {1, 3}}
Line(s) == [i \in DOMAIN s |-> <<s[i], 0>>]
Shards ==
    [vecs : {Line(<<0>>), Line(<<0, 12>>), Line(<<6, 18, 36>>), Line(<<60, 72>>)},
     centroid : {"own", "none"}]
Sessions ==
    {[kind |-> "session", metric |-> "Euclidean", shards |-> <<a, b>>, query |-> <<q, 0>>,
      threshold |-> t, k |-> k]
       : a \in Shards, b \in Shards, q \in {0, 14, 80}, t \in {0, 6, 30}, k \in {1, 3}}
Prunings ==
    [kind : {"prune"}, metric : {"Euclidean"}, query : {<<0, 0>>, <<14, 0>>, <<80, 0>>},
     threshold : {0, 6, 30}, k : {1},
     shards : {<<s>> : s \in Shards \cup {[vecs |-> Line(<<60, 72>>), centroid |-> "other"]}}]
    \cup [kind : {"prune"}, metric : {"Cosine", "NormalizedCosine", "DotProduct"},
          query : {<<0, 5>>, <<4, 3>>, <<5, 0>>}, threshold : {-10, 30, 50}, k : {1},
          shards : {<<[vecs |-> v, centroid |-> "own"]>> :
                      v \in {<< <<4, 3>>, <<4, -3>> >>, << <<3, 4>>, <<-3, 4>> >>, << <<-5, 0>> >>}}]
Texts ==
    {[kind |-> "text", terms |-> q, hash |-> h, stats |-> st,
      files |-> <<[terms |-> x, filter |-> fx], [terms |-> y, filter |-> "stored"]>>]
       : x \in {{}, {"s", "t"}}, y \in {{"t"}, {"u"}}, fx \in {"stored", "missing"},
         q \in {{}, {"t"}, {"s", "u"}}, st \in {"readable", "unreadable"},
         h \in [{"s", "t", "u"} -> {<<0, 1>>, <<3, 2>>, <<5, 3>>}]}
Docs == {<<>>, <<"s", "s">>, <<"s", "t">>, <<"u">>}
Stats ==
    {[kind |-> "stats", batches |-> << <<a, b>>, <<c>>, <<d>> >>]
       : a \in Docs, b \in Docs, c \in Docs, d \in Docs}
MCQuestions == Flats \cup Hybrids \cup Multis \cup Sessions \cup Prunings \cup Texts \cup Stats

requestSide == <<cacheVars, guardVars>>
vectorSide == <<hnswVars, vectorVars, rankVars, trackerVars>>

MCInit ==
    /\ part \in Parts
    /\ (IF part = "query" THEN TRUE ELSE asked = Pruning) /\ SearchInit
    /\ (IF part = "feed" THEN TRUE ELSE feedSet = SmallFeed) /\ FeedInit
    /\ (IF part = "hnsw" THEN TRUE ELSE hset = OneNode) /\ HnswInit
    /\ (IF part = "index" THEN TRUE ELSE job = Kernel) /\ VectorInit
    /\ (IF part = "ranking" THEN TRUE ELSE ask = NoRows) /\ RankInit
    /\ CacheInit /\ (part # "cache" => cacheSetting = Queries)
    /\ GuardInit /\ (part # "guard" => guardSetting = Alone)
    /\ TrackerInit

MCNext ==
    \/ part = "query" /\ SearchNext /\ UNCHANGED <<part, vectorSide, feedVars, requestSide>>
    \/ part = "feed" /\ FeedNext /\ UNCHANGED <<part, vectorSide, searchVars, requestSide>>
    \/ /\ part = "hnsw" /\ HnswNext
       /\ UNCHANGED <<part, vectorVars, rankVars, trackerVars, searchVars, feedVars, requestSide>>
    \/ /\ part = "index" /\ VectorNext
       /\ UNCHANGED <<part, hnswVars, rankVars, trackerVars, searchVars, feedVars, requestSide>>
    \/ /\ part = "ranking" /\ RankNext
       /\ UNCHANGED <<part, hnswVars, vectorVars, trackerVars, searchVars, feedVars, requestSide>>
    \/ /\ part = "tracker" /\ TrackerNext
       /\ UNCHANGED <<part, hnswVars, vectorVars, rankVars, searchVars, feedVars, requestSide>>
    \/ /\ part = "cache" /\ CacheNext
       /\ UNCHANGED <<part, vectorSide, searchVars, feedVars, guardVars>>
    \/ /\ part = "guard" /\ GuardNext
       /\ UNCHANGED <<part, vectorSide, searchVars, feedVars, cacheVars>>

(* HnswFairness and SearchFair, for the part that moves.                   *)
MCSpec ==
    /\ MCInit
    /\ [][MCNext]_<<part, vectorSide, searchVars, feedVars, requestSide>>
    /\ WF_hnswVars(part = "hnsw" /\ hset.parallel /\ HnswNext)
    /\ \A q \in Query : WF_searchVars(part = "query" /\ SearchStep(q))
    /\ WF_searchVars(part = "query" /\ acquire_file_search_budget)

-----------------------------------------------------------------------------
(* Every part is in one of its states.                                     *)
RetrievalTypeOK ==
    /\ CacheTypeOK /\ GuardTypeOK /\ SearchTypeOK /\ FeedTypeOK
    /\ HnswTypeOK /\ VectorTypeOK /\ RankTypeOK

(* What the server has only so much of is counted right and given back, on *)
(* every path: quotas and inflight permits of requests, units of the       *)
(* file-search budget, bytes of the LRU.                                   *)
ResourcesAccounted == Quota /\ GuardsReleased /\ BudgetAccounted /\ CacheAccounted

(* The graph can be searched, and by a thread whose visited set is exact.  *)
GraphSearchable == GraphSound /\ VisitedExactly

(* Queries and parallel builds end.                                        *)
RetrievalReturns == SearchReturns /\ BuildReturns
=============================================================================
