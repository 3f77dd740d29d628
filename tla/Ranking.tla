------------------------------- MODULE Ranking -------------------------------
(***************************************************************************)
(* How a search ranks what it found (ailake-query/src/scanner.rs, bm25.rs, *)
(* pruner.rs, bloom.rs): the parallel top-k of a flat scan, the fusion of  *)
(* vector and BM25 ranks, the fusion of several vector columns, the        *)
(* centroid and Bloom-filter pruning of files, the preloaded session, and  *)
(* the corpus statistics behind BM25.                                      *)
(*                                                                         *)
(* A question is chosen at the start and answered in one step, except for  *)
(* the flat scan, whose rayon pieces fold and merge in any order, and the  *)
(* statistics, which grow batch by batch.  Distances and scores are        *)
(* integers; a weight w of 0..10 stands for w/10, and a score is scaled by *)
(* the common denominator of its terms, so that it is exact.  Vectors are  *)
(* of the plane and of whole length, for the same reason.                  *)
(***************************************************************************)
EXTENDS Integers, Sequences, FiniteSets, SequencesExt, TLC

CONSTANTS
    Questions,     \* the records the kinds below describe
    MaxVocab,      \* MAX_VOCAB
    BloomBits      \* num_bits of a filter

VARIABLES ask, pool, reply

rankVars == <<ask, pool, reply>>

NoReply == [none |-> TRUE]

AtMost(s, k) == SubSeq(s, 1, IF k < Len(s) THEN k ELSE Len(s))
SumOf(s) == FoldLeft(LAMBDA a, b : a + b, 0, s)
LowOf(S) == CHOOSE x \in S : \A y \in S : x <= y
HighOf(S) == CHOOSE x \in S : \A y \in S : x >= y

-----------------------------------------------------------------------------
(* flat_search: [kind |-> "flat", dist, cuts, k], rows 1..Len(dist) in     *)
(* pieces of the given lengths, one per rayon split.                       *)

ByDist(s) ==
    SortSeq(s, LAMBDA a, b : a.dist < b.dist \/ (a.dist = b.dist /\ a.row < b.row))

select_distance_top_k(s, k) == AtMost(ByDist(s), k)

trim_search_top_k_buffer_Wrong(s, k) ==
    IF Len(s) >= 2 * k THEN AtMost(s, k) ELSE s

(* A buffer is cut back to k only when it reaches max(2k, k + 1).          *)
trim_search_top_k_buffer(s, k) ==
    IF Len(s) >= HighOf({2 * k, k + 1}) THEN select_distance_top_k(s, k) ELSE s

Pieces(q) ==
    [p \in DOMAIN q.cuts |->
        LET from == SumOf(SubSeq(q.cuts, 1, p - 1))
        IN  [left |-> [i \in 1 .. q.cuts[p] |-> from + i], best |-> <<>>]]

(* One row of a piece's fold.                                              *)
FoldRow(p) ==
    /\ ask.kind = "flat" /\ reply = NoReply /\ p \in DOMAIN pool /\ pool[p].left # <<>>
    /\ LET row == Head(pool[p].left)
           grown == Append(pool[p].best, [row |-> row, dist |-> ask.dist[row]])
       IN  pool' = [pool EXCEPT ![p] = [left |-> Tail(@.left),
                                        best |-> trim_search_top_k_buffer(grown, ask.k)]]
    /\ UNCHANGED <<ask, reply>>

(* Two neighbouring pieces that are done are reduced to one.               *)
MergePieces(p) ==
    /\ ask.kind = "flat" /\ reply = NoReply /\ p + 1 \in DOMAIN pool
    /\ pool[p].left = <<>> /\ pool[p + 1].left = <<>>
    /\ LET both == [left |-> <<>>,
                    best |-> select_distance_top_k(pool[p].best \o pool[p + 1].best, ask.k)]
       IN  pool' = SubSeq(pool, 1, p - 1) \o <<both>> \o SubSeq(pool, p + 2, Len(pool))
    /\ UNCHANGED <<ask, reply>>

(* flat_search returns; a request for nothing never folds.                 *)
flat_search ==
    /\ ask.kind = "flat" /\ reply = NoReply
    /\ ask.k = 0 \/ (Len(pool) = 1 /\ pool[1].left = <<>>)
    /\ reply' = [rows |-> IF ask.k = 0 THEN <<>> ELSE select_distance_top_k(pool[1].best, ask.k)]
    /\ UNCHANGED <<ask, pool>>

(* The distances of vectors, a cosine in hundredths.  A unit vector is one *)
(* of length 5.                                                            *)
Times(a, b) == a[1] * b[1] + a[2] * b[2]
LengthOf(a) == CHOOSE n \in 0 .. 100 : n * n = Times(a, a)
cosine_distance(a, b) ==
    IF LengthOf(a) = 0 \/ LengthOf(b) = 0 THEN 100
    ELSE 100 - (100 * Times(a, b)) \div (LengthOf(a) * LengthOf(b))
exact_distance(metric, a, b) ==
    CASE metric = "Cosine"           -> cosine_distance(a, b)
      [] metric = "NormalizedCosine" -> 100 - 4 * Times(a, b)
      [] metric = "Euclidean"        -> LengthOf(<<a[1] - b[1], a[2] - b[2]>>)
      [] metric = "DotProduct"       -> -Times(a, b)

(* The rows of a shard by exact distance.                                  *)
NearestRows(vecs, metric, q, k) ==
    select_distance_top_k([i \in DOMAIN vecs |->
                             [row |-> i, dist |-> exact_distance(metric, q, vecs[i])]], k)

-----------------------------------------------------------------------------
(* Hybrid fusion: [kind |-> "hybrid", cands, w, fusion, k], the candidates *)
(* [row, dist, bm25] in the order in which the files delivered them.       *)

(* A stable ascending sort of positions by a key.                          *)
StableBy(n, key(_)) ==
    SortSeq([i \in 1 .. n |-> i], LAMBDA a, b : key(a) < key(b) \/ (key(a) = key(b) /\ a < b))

RankOf(order) == [i \in DOMAIN order |-> CHOOSE r \in DOMAIN order : order[r] = i]

(* 1/(60 + rank), ranks from 0 to 3, over one denominator.                 *)
RrfUnit == 60 * 61 * 62 * 63
rrf_score(vr, br, w) == -((10 - w) * (RrfUnit \div (60 + vr)) + w * (RrfUnit \div (60 + br)))

(* Both parts of linear_score scaled by twice the two ranges.              *)
linear_score(d, dists, b, bms, w) ==
    LET range(S) == HighOf(S) - LowOf(S)
        rd == IF range(dists) = 0 THEN 1 ELSE range(dists)
        rb == IF range(bms) = 0 THEN 1 ELSE range(bms)
        norm_vec == IF range(dists) = 0 THEN 0 ELSE d - LowOf(dists)
        lost_bm25 == IF range(bms) = 0 THEN 1 ELSE 2 * (rb - (b - LowOf(bms)))
    IN  (10 - w) * norm_vec * 2 * rb + w * lost_bm25 * rd

(* The BM25 rank of every position of the distance order: the scores are   *)
(* zipped to the candidates before they are sorted, so that both ranks of  *)
(* a position are of the same row.                                         *)
bm25_ranks(cands, order) ==
    RankOf(StableBy(Len(cands), LAMBDA i : -cands[order[i]].bm25))

hybrid_fusion(cands, w, fusion) ==
    LET order == StableBy(Len(cands), LAMBDA i : cands[i].dist)
        rank == bm25_ranks(cands, order)
        dists == {cands[i].dist : i \in DOMAIN cands}
        bms == {cands[i].bm25 : i \in DOMAIN cands}
        fused(i, c) == IF fusion = "Rrf" THEN rrf_score(i - 1, rank[i] - 1, w)
                       ELSE linear_score(c.dist, dists, c.bm25, bms, w)
    IN  [i \in DOMAIN cands |->
          [row |-> cands[order[i]].row, dist |-> fused(i, cands[order[i]])]]

Hybrid ==
    /\ ask.kind = "hybrid" /\ reply = NoReply
    /\ reply' = [rows |-> select_distance_top_k(hybrid_fusion(ask.cands, ask.w, ask.fusion), ask.k)]
    /\ UNCHANGED <<ask, pool>>

-----------------------------------------------------------------------------
(* search_multimodal: [kind |-> "multi", lists, weights, k], one ranked    *)
(* list of (file, row) keys per vector column.                             *)

MultiUnit == 61 * 62 * 63
KeysOf(lists) == UNION {ToSet(lists[c]) : c \in DOMAIN lists}

(* The weighted reciprocal ranks of a key, over the columns that found it. *)
multi_scores(lists, weights) ==
    [key \in KeysOf(lists) |->
        SumOf([c \in DOMAIN lists |->
                 IF key \notin ToSet(lists[c]) THEN 0
                 ELSE LET rank == CHOOSE r \in DOMAIN lists[c] : lists[c][r] = key
                      IN  weights[c] * (MultiUnit \div (60 + rank))])]

(* The fused keys leave a hash map, so equal scores come in any order.     *)
search_multimodal ==
    /\ ask.kind = "multi" /\ reply = NoReply
    /\ LET score == multi_scores(ask.lists, ask.weights)
           keys == KeysOf(ask.lists)
       IN  \E order \in SetToSeqs(keys) :
             /\ \A i, j \in DOMAIN order : i < j => score[order[i]] >= score[order[j]]
             /\ reply' = [rows |-> AtMost(order, ask.k)]
    /\ UNCHANGED <<ask, pool>>

-----------------------------------------------------------------------------
(* Centroid pruning, of the files of a search and of the shards of a       *)
(* preloaded session: [kind |-> "prune" or "session", metric, shards,      *)
(* query, threshold, k].  A shard has its vectors, their centroid or none  *)
(* ("own", "none"), or the centroid of a column of another dimension       *)
(* ("other"); an index is taken to be exact here.                          *)

(* compute_centroid_and_radius.                                            *)
CentroidOf(vecs) ==
    LET mean(i) == SumOf([n \in DOMAIN vecs |-> vecs[n][i]]) \div Len(vecs)
    IN  <<mean(1), mean(2)>>
RadiusOf(metric, vecs) ==
    HighOf({0} \cup {exact_distance(metric, CentroidOf(vecs), vecs[i]) : i \in DOMAIN vecs})

(* compute_distance: both cosines are taken for one.                       *)
compute_distance(metric, a, b) ==
    exact_distance(IF metric = "NormalizedCosine" THEN "Cosine" ELSE metric, a, b)

(* VectorPruner::prune, and the same test in search_query.                 *)
Prune(shard, metric, q, threshold) ==
    /\ shard.centroid = "own"
    /\ compute_distance(metric, q, CentroidOf(shard.vecs)) - RadiusOf(metric, shard.vecs) > threshold

PruneFiles ==
    /\ ask.kind = "prune" /\ reply = NoReply
    /\ reply' = [pruned |-> {i \in DOMAIN ask.shards :
                               Prune(ask.shards[i], ask.metric, ask.query, ask.threshold)}]
    /\ UNCHANGED <<ask, pool>>

Tagged(s, shard) == [i \in DOMAIN s |-> [row |-> <<shard, s[i].row>>, dist |-> s[i].dist]]
ByDistOnly(s) == SortSeq(s, LAMBDA a, b : a.dist < b.dist)

search_query(q) ==
    AtMost(ByDistOnly(FlattenSeq([i \in DOMAIN q.shards |->
        IF Prune(q.shards[i], q.metric, q.query, q.threshold) THEN <<>>
        ELSE Tagged(NearestRows(q.shards[i].vecs, q.metric, q.query, q.k), i)])), q.k)

(* search_batch prunes nothing.                                            *)
search_batch(q) ==
    AtMost(ByDistOnly(FlattenSeq([i \in DOMAIN q.shards |->
        Tagged(NearestRows(q.shards[i].vecs, q.metric, q.query, q.k), i)])), q.k)

Session ==
    /\ ask.kind = "session" /\ reply = NoReply
    /\ reply' = [one |-> search_query(ask), batch |-> search_batch(ask)]
    /\ UNCHANGED <<ask, pool>>

-----------------------------------------------------------------------------
(* Bloom pruning: [kind |-> "text", files, terms, hash, stats], a file     *)
(* with its terms and the state of its filter, the query's terms, the two  *)
(* FNV hashes of every term, and whether the statistics file can be read.  *)

probes(hash, term) == {(hash[term][1] + i * hash[term][2]) % BloomBits : i \in 0 .. 3}

bloom_insert(hash, term) == probes(hash, term)
may_contain(bits, hash, term) == probes(hash, term) \subseteq bits

(* load_bloom_map: no statistics, an unreadable file or a parse error is   *)
(* the empty map; a filter that does not decode has no entry.              *)
load_bloom_map(q) ==
    IF q.stats # "readable" THEN <<>>
    ELSE [f \in {f \in DOMAIN q.files : q.files[f].filter = "stored"} |->
            UNION {bloom_insert(q.hash, t) : t \in q.files[f].terms}]

(* BloomPruner::prune.                                                     *)
BloomKept(q) ==
    LET map == load_bloom_map(q)
    IN  IF q.terms = {} \/ DOMAIN map = {} THEN DOMAIN q.files
        ELSE {f \in DOMAIN q.files :
                f \in DOMAIN map => \E t \in q.terms : may_contain(map[f], q.hash, t)}

TextPrune ==
    /\ ask.kind = "text" /\ reply = NoReply
    /\ reply' = [kept |-> BloomKept(ask)]
    /\ UNCHANGED <<ask, pool>>

-----------------------------------------------------------------------------
(* Corpus statistics: [kind |-> "stats", batches], batches of documents,   *)
(* a document the sequence of its terms.                                   *)

NoStats == [doc_count |-> 0, total_tokens |-> 0, df |-> <<>>, seen |-> <<>>, pruned |-> FALSE]

(* A term counts once per document.                                        *)
merge_doc(stats, doc) ==
    LET terms == DOMAIN stats.df \cup ToSet(doc)
    IN  [stats EXCEPT !.doc_count = @ + 1, !.total_tokens = @ + Len(doc),
                      !.seen = Append(@, doc),
                      !.df = [t \in terms |->
                                (IF t \in DOMAIN @ THEN @[t] ELSE 0)
                                + (IF t \in ToSet(doc) THEN 1 ELSE 0)]]

(* merge_batch; past MAX_VOCAB some MAX_VOCAB terms of highest frequency   *)
(* stay.                                                                   *)
merge_batch ==
    /\ ask.kind = "stats" /\ reply = NoReply /\ pool.left # <<>>
    /\ LET merged == FoldLeft(merge_doc, pool.stats, Head(pool.left))
           terms == DOMAIN merged.df
       IN  IF Cardinality(terms) <= MaxVocab
           THEN pool' = [left |-> Tail(pool.left), stats |-> merged]
           ELSE \E kept \in SUBSET terms :
                  /\ Cardinality(kept) = MaxVocab
                  /\ \A t \in kept : \A u \in terms \ kept : merged.df[t] >= merged.df[u]
                  /\ pool' = [left |-> Tail(pool.left),
                              stats |-> [merged EXCEPT !.pruned = TRUE,
                                           !.df = [t \in kept |-> @[t]]]]
    /\ UNCHANGED <<ask, reply>>

RankInit ==
    /\ ask \in Questions
    /\ pool = CASE ask.kind = "flat"  -> Pieces(ask)
                [] ask.kind = "stats" -> [left |-> ask.batches, stats |-> NoStats]
                [] OTHER              -> <<>>
    /\ reply = NoReply

RankNext ==
    \/ \E p \in 1 .. 4 : FoldRow(p) \/ MergePieces(p)
    \/ flat_search \/ Hybrid \/ search_multimodal \/ Session \/ PruneFiles \/ TextPrune \/ merge_batch

-----------------------------------------------------------------------------
(* Properties.                                                             *)

(* A reply is one of the forms its question asks for.                      *)
RankTypeOK ==
    /\ ask \in Questions
    /\ ask.kind = "flat" => \A p \in DOMAIN pool : Len(pool[p].best) <= 2 * ask.k \/ ask.k = 0
    /\ ask.kind = "multi" /\ reply # NoReply =>
         Len(reply.rows) <= ask.k /\ ToSet(reply.rows) \subseteq KeysOf(ask.lists)

(* However rayon cuts the rows and whichever pieces merge first, the flat  *)
(* scan returns the k smallest distances in order: trimming a buffer       *)
(* early never loses a row that belongs in the answer.                     *)
FlatIsTopK ==
    ask.kind = "flat" /\ reply # NoReply =>
        [i \in DOMAIN reply.rows |-> reply.rows[i].dist]
          = AtMost(SortSeq(ask.dist, LAMBDA a, b : a < b), ask.k)

(* A candidate that is nearer and has the higher BM25 score is not ranked  *)
(* behind, whatever the order the files delivered them in, the weight and  *)
(* the fusion: the two ranks fused for a row are both its own.             *)
FusionKeepsDominance ==
    ask.kind = "hybrid" /\ reply # NoReply =>
        \A a, b \in ToSet(ask.cands) :
            /\ a.dist < b.dist /\ a.bm25 > b.bm25
            /\ \E j \in DOMAIN reply.rows : reply.rows[j].row = b.row
            => \E i, j \in DOMAIN reply.rows :
                 i < j /\ reply.rows[i].row = a.row /\ reply.rows[j].row = b.row

RanksBefore(a, b, list) ==
    \E i \in DOMAIN list : list[i] = a /\ \A j \in 1 .. i : list[j] # b

(* A row that every column finds before another is not fused behind it,    *)
(* and no row is returned twice.                                           *)
ModalDominance ==
    ask.kind = "multi" /\ reply # NoReply =>
        /\ \A i, j \in DOMAIN reply.rows : i # j => reply.rows[i] # reply.rows[j]
        /\ \A a, b \in KeysOf(ask.lists) :
             (\A c \in DOMAIN ask.lists : RanksBefore(a, b, ask.lists[c]))
               /\ b \in ToSet(reply.rows) => RanksBefore(a, b, reply.rows)

(* No pruned file has a vector within the threshold of the query: the      *)
(* comment on VectorPruner::prune says so of every metric.  It is so where *)
(* the triangle inequality makes distance minus radius a lower bound,      *)
(* which is for Euclidean distance; not for cosine, nor for dot product.   *)
PruningGuaranteed ==
    ask.kind = "prune" /\ reply # NoReply =>
        \A i \in reply.pruned : \A n \in DOMAIN ask.shards[i].vecs :
            exact_distance(ask.metric, ask.query, ask.shards[i].vecs[n]) > ask.threshold

(* For Euclidean distance, pruning files and shards by centroid and radius *)
(* never changes what lies within the threshold: no such row is in a       *)
(* pruned file, and a single query of a session sees, up to the threshold, *)
(* the distances the unpruned batch search sees.                           *)
PruningKeepsNear ==
    /\ ask.kind = "prune" /\ ask.metric = "Euclidean" => PruningGuaranteed
    /\ ask.kind = "session" /\ ask.metric = "Euclidean" /\ reply # NoReply =>
         LET near(s) == SelectSeq([i \in DOMAIN s |-> s[i].dist], LAMBDA d : d <= ask.threshold)
         IN  near(reply.one) = near(reply.batch)

(* Bloom pruning keeps every file that holds a query term, whatever the    *)
(* hashes are and whether filters are missing, damaged or unreadable.      *)
NoFalseNegative ==
    ask.kind = "text" /\ reply # NoReply =>
        \A f \in DOMAIN ask.files : ask.files[f].terms \cap ask.terms # {} => f \in reply.kept

(* Through every batch and every cut of the vocabulary a term's document   *)
(* frequency stays within the number of documents that hold it, so that    *)
(* the argument of the IDF logarithm stays positive; without a cut it is   *)
(* exact.                                                                  *)
FrequencyWithinDocs ==
    ask.kind = "stats" =>
        LET stats == pool.stats
            holding(t) == Len(SelectSeq(stats.seen, LAMBDA d : t \in ToSet(d)))
        IN  /\ stats.doc_count = Len(stats.seen)
            /\ \A t \in DOMAIN stats.df :
                 /\ stats.df[t] <= holding(t)
                 /\ ~stats.pruned => stats.df[t] = holding(t)

(* Ranking drops, swaps and repeats nothing: the buffers keep the top k,   *)
(* fusion respects dominance, Bloom filters and, for Euclidean distance,   *)
(* centroids skip only what cannot match, and the statistics it all rests  *)
(* on stay consistent.                                                     *)
RankingExact ==
    /\ FlatIsTopK /\ FusionKeepsDominance /\ ModalDominance
    /\ PruningKeepsNear /\ NoFalseNegative /\ FrequencyWithinDocs
=============================================================================
