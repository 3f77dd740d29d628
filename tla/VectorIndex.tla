----------------------------- MODULE VectorIndex -----------------------------
(***************************************************************************)
(* The arithmetic under a vector search: the SIMD distance kernels         *)
(* (ailake-vec/src/distance.rs), k-means and product quantisation          *)
(* (ailake-vec/src/pq.rs), and the IVF-PQ index trained, filled, stored,   *)
(* read back and searched (ailake-index/src/ivf_pq.rs).                    *)
(*                                                                         *)
(* Components are integers chosen as multiples of a power of 6, so that    *)
(* every mean of at most three of them is exact; rounding is left out.     *)
(* Under cosine they are of whole length, and 36 stands for 1.  A kernel   *)
(* is modelled by the components it accumulates, in order.                 *)
(***************************************************************************)
EXTENDS Integers, Sequences, FiniteSets, SequencesExt

CONSTANTS
    VectorJobs,      \* settings: IVF-PQ jobs [kind |-> "ivf", ...] and
                     \* kernel calls [kind |-> "kernel", cpu, op, n]
    MaxIter          \* k-means iterations

VARIABLES job, stage, km, codebook, index, answer

vectorVars == <<job, stage, km, codebook, index, answer>>

Plus(a, b) == a + b
Total(s) == FoldLeft(Plus, 0, s)
Least(a, b) == IF a < b THEN a ELSE b
l2_sq(a, b) == Total([i \in DOMAIN a |-> (a[i] - b[i]) * (a[i] - b[i])])
Minus(a, b) == [i \in DOMAIN a |-> a[i] - b[i]]

-----------------------------------------------------------------------------
(* Distance kernels: the component indices accumulated, first to last.     *)

Run(base, width) == [k \in 1 .. width |-> base + k - 1]
Chunks(count, width) == FlattenSeq([i \in 1 .. count |-> Run((i - 1) * width, width)])

(* avx2::dot and avx2::euclidean: 16 a step, then one chunk of 8, a tail.  *)
avx2_unrolled(n) ==
    LET chunks16 == n \div 16
        chunks8 == n \div 8
    IN  Chunks(chunks16, 16)
        \o (IF chunks8 > chunks16 * 2 THEN Run(chunks16 * 16, 8) ELSE <<>>)
        \o Run(chunks8 * 8, n - chunks8 * 8)

(* The same two over an F16 vector, converted 8 at a time.                 *)
avx2_f16c_unrolled(n) == avx2_unrolled(n)

(* One pass of chunks and a tail: avx2::cosine by 8, avx512 by 16, neon    *)
(* by 4.                                                                   *)
Strided(n, width) ==
    Chunks(n \div width, width) \o Run((n \div width) * width, n - (n \div width) * width)
avx2_cosine(n) == Strided(n, 8)
avx2_f16c_cosine(n) == Strided(n, 8)

avx512_f32_Wrong(n) == Chunks(n \div 16, 16)

avx512_f32(n) == Strided(n, 16)
avx512_f16(n) == Strided(n, 16)
neon_impl(n) == Strided(n, 4)

(* The scalar fallbacks.                                                   *)
scalar(n) == Run(0, n)

(* The dispatch on the detected features: f32 operands ...                 *)
f32_kernel(cpu, op, n) ==
    CASE cpu = "avx512f" -> avx512_f32(n)
      [] cpu = "avx2"    -> IF op = "cosine" THEN avx2_cosine(n) ELSE avx2_unrolled(n)
      [] cpu = "neon"    -> neon_impl(n)
      [] OTHER           -> scalar(n)
(* ... and an f32 query over F16 vectors, which neon has no kernel for.    *)
f16_kernel(cpu, op, n) ==
    CASE cpu = "avx512f" -> avx512_f16(n)
      [] cpu = "avx2"    -> IF op = "cosine" THEN avx2_f16c_cosine(n)
                                             ELSE avx2_f16c_unrolled(n)
      [] OTHER           -> scalar(n)

-----------------------------------------------------------------------------
(* k-means.                                                                *)

(* The first index of a smallest distance, as min_by returns it.           *)
nearest_centroid(p, centroids) ==
    CHOOSE i \in DOMAIN centroids :
        \A j \in DOMAIN centroids :
            /\ l2_sq(p, centroids[i]) <= l2_sq(p, centroids[j])
            /\ j < i => l2_sq(p, centroids[i]) < l2_sq(p, centroids[j])

(* kmeans_pp_init draws the first point, then points by their distance to  *)
(* the centroids so far.  A zero draw, or points that all coincide with a  *)
(* centroid, take the first point again.                                   *)
kmeans_pp_init(points, c) ==
    /\ c[1] = 1
    /\ \A i \in DOMAIN c \ {1} :
         c[i] = 1 \/ \A j \in 1 .. i - 1 : points[c[i]] # points[c[j]]

(* A k-means about to iterate from some start.                             *)
Clusterings(points, k) ==
    {[points |-> points, iter |-> 0, done |-> FALSE, centroids |-> [i \in 1 .. k |-> points[c[i]]]]
       : c \in {c \in [1 .. k -> DOMAIN points] : kmeans_pp_init(points, c)}}

(* One iteration: assign, average, and keep the centroid of an empty       *)
(* cluster.                                                                *)
kmeans_step(points, centroids) ==
    [i \in DOMAIN centroids |->
        LET mine == SelectSeq(points, LAMBDA p : nearest_centroid(p, centroids) = i)
        IN  IF mine = <<>> THEN centroids[i]
            ELSE [d \in DOMAIN points[1] |->
                    Total([p \in DOMAIN mine |-> mine[p][d]]) \div Len(mine)]]

-----------------------------------------------------------------------------
(* Product quantisation.                                                   *)

(* The largest m no greater than the request that divides dim, else 1.     *)
find_valid_pq_m(requested, dim) ==
    LET fits == {m \in 1 .. requested : dim % m = 0}
    IN  IF fits = {} THEN 1 ELSE CHOOSE m \in fits : \A k \in fits : k <= m

Sub(v, m, sub_dim) == SubSeq(v, (m - 1) * sub_dim + 1, m * sub_dim)

encode(pq, v) ==
    [m \in 1 .. pq.num_subvectors |-> nearest_centroid(Sub(v, m, pq.sub_dim), pq.centroids[m])]

decode(pq, codes) == FlattenSeq([m \in DOMAIN codes |-> pq.centroids[m][codes[m]]])

compute_adc_table(pq, q) ==
    [m \in 1 .. pq.num_subvectors |->
        [k \in DOMAIN pq.centroids[m] |-> l2_sq(Sub(q, m, pq.sub_dim), pq.centroids[m][k])]]

adc_distance(codes, table) == Total([m \in DOMAIN codes |-> table[m][codes[m]]])

-----------------------------------------------------------------------------
(* The IVF-PQ index.                                                       *)

None == [none |-> TRUE]

(* Vectors are normalised under cosine, but for zero vectors.              *)
l2_normalize(v) ==
    LET norm == CHOOSE n \in 0 .. 200 : n * n = Total([i \in DOMAIN v |-> v[i] * v[i]])
    IN  IF norm = 0 THEN v ELSE [i \in DOMAIN v |-> (36 * v[i]) \div norm]
ForMetric(metric, v) == IF metric = "Cosine" THEN l2_normalize(v) ELSE v
Trained == [i \in DOMAIN job.vectors |-> ForMetric(job.metric, job.vectors[i])]

VectorInit ==
    /\ job \in VectorJobs
    /\ stage = "new"
    /\ km = None /\ codebook = None /\ index = None /\ answer = None

(* train_codebook clamps nlist and nprobe, and starts the coarse k-means.  *)
train_codebook ==
    /\ job.kind = "ivf" /\ stage = "new"
    /\ LET n == Len(job.vectors)
           m == find_valid_pq_m(job.pq_m, Len(job.vectors[1]))
           nlist == Least(job.nlist, n)
       IN  /\ codebook' = [coarse |-> <<>>, nlist |-> nlist, nprobe |-> Least(job.nprobe, nlist),
                           residual |-> job.residual, metric |-> job.metric,
                           pq |-> [num_subvectors |-> m, sub_dim |-> Len(job.vectors[1]) \div m,
                                   centroids |-> <<>>]]
           /\ km' \in Clusterings(Trained, nlist)
    /\ stage' = "coarse"
    /\ UNCHANGED <<job, index, answer>>

(* An iteration of the k-means that is running, until nothing moves or     *)
(* max_iter is reached.                                                    *)
kmeans ==
    /\ stage \in {"coarse", "pq"} /\ ~km.done
    /\ LET moved == kmeans_step(km.points, km.centroids)
       IN  km' = [km EXCEPT !.centroids = moved, !.iter = @ + 1,
                            !.done = moved = km.centroids \/ km.iter + 1 = MaxIter]
    /\ UNCHANGED <<job, stage, codebook, index, answer>>

(* The training input of sub-space s: the vectors, or what is left of them *)
(* after the nearest coarse centroid is subtracted.                        *)
SubVectors(coarse, s) ==
    LET d == codebook.pq.sub_dim
    IN  [i \in DOMAIN job.vectors |->
           LET v == Trained[i]
           IN  Sub(IF job.residual THEN Minus(v, coarse[nearest_centroid(v, coarse)]) ELSE v, s, d)]

(* train_with_kmeans: the sub-spaces in turn, then the codebook is ready.  *)
train_with_kmeans ==
    /\ stage \in {"coarse", "pq"} /\ km.done
    /\ LET cb == IF stage = "coarse" THEN [codebook EXCEPT !.coarse = km.centroids]
                 ELSE [codebook EXCEPT !.pq.centroids = Append(@, km.centroids)]
           next == Len(cb.pq.centroids) + 1
       IN  /\ codebook' = cb
           /\ IF next > cb.pq.num_subvectors
              THEN stage' = "trained" /\ km' = None
              ELSE /\ stage' = "pq"
                   /\ km' \in Clusterings(SubVectors(cb.coarse, next),
                                          Least(job.pq_k, Len(job.vectors)))
    /\ UNCHANGED <<job, index, answer>>

(* What is encoded of a vector assigned to a list.                         *)
Encoded(cb, v, list) ==
    encode(cb.pq, IF cb.residual THEN Minus(v, cb.coarse[list]) ELSE v)

(* build_with_codebook: every row goes to the list of its nearest          *)
(* centroid; row ids and codes are kept in two parallel sequences.         *)
build_with_codebook ==
    /\ stage = "trained"
    /\ LET cb == codebook
           list(i) == nearest_centroid(Trained[i], cb.coarse)
           rows(l) == SelectSeq([i \in DOMAIN job.vectors |-> i], LAMBDA i : list(i) = l)
       IN  index' = [nlist |-> cb.nlist, nprobe |-> cb.nprobe, residual |-> cb.residual,
                     metric |-> cb.metric, coarse |-> cb.coarse, pq |-> cb.pq,
                     inv_row_ids |-> [l \in 1 .. cb.nlist |-> rows(l)],
                     inv_codes |-> [l \in 1 .. cb.nlist |->
                        FlattenSeq([k \in 1 .. Len(rows(l)) |->
                                      Encoded(cb, Trained[rows(l)[k]], l)])]]
    /\ stage' = "built"
    /\ UNCHANGED <<km, job, codebook, answer>>

(* IvfPqSerializer::to_bytes: the positional core, the centroids end to    *)
(* end, and the residual flag as a trailing byte, which files of older     *)
(* releases lack.                                                          *)
to_bytes(ix) ==
    [core |-> [nlist |-> ix.nlist, nprobe |-> ix.nprobe, pq |-> ix.pq, metric |-> ix.metric,
               dim |-> Len(ix.coarse[1]), coarse_flat |-> FlattenSeq(ix.coarse),
               inv_row_ids |-> ix.inv_row_ids, inv_codes |-> ix.inv_codes],
     trailer |-> IF job.legacy THEN <<>> ELSE <<IF ix.residual THEN 1 ELSE 0>>]

(* from_bytes: chunks_exact(dim) of the centroids; no byte left over after *)
(* the core means a file without residuals.                                *)
from_bytes(bytes) ==
    LET core == bytes.core
    IN  [nlist |-> core.nlist, nprobe |-> core.nprobe, pq |-> core.pq, metric |-> core.metric,
         residual |-> bytes.trailer # <<>> /\ bytes.trailer[1] # 0,
         coarse |-> [l \in 1 .. Len(core.coarse_flat) \div core.dim |->
                       Sub(core.coarse_flat, l, core.dim)],
         inv_row_ids |-> core.inv_row_ids, inv_codes |-> core.inv_codes]

StoreAndLoad ==
    /\ stage = "built"
    /\ index' = from_bytes(to_bytes(index))
    /\ stage' = "loaded"
    /\ UNCHANGED <<km, job, codebook, answer>>

(* The rows of the probed lists with their ADC distances: one table for    *)
(* the query, or one per list for its residual.                            *)
Scored(ix, q, probes) ==
    UNION {LET table == compute_adc_table(ix.pq, IF ix.residual THEN Minus(q, ix.coarse[l]) ELSE q)
               m == ix.pq.num_subvectors
           IN  {[row |-> ix.inv_row_ids[l][j],
                 dist |-> adc_distance(SubSeq(ix.inv_codes[l], (j - 1) * m + 1, j * m), table)]
                  : j \in DOMAIN ix.inv_row_ids[l]}
             : l \in probes}

(* search: the nprobe nearest lists, the index's number or the caller's (0 *)
(* for none given), then the top_k of their rows; an unstable sort may     *)
(* break ties either way.                                                  *)
Probed(ix) == Least(IF job.override = 0 THEN ix.nprobe ELSE job.override, ix.nlist)
BestOf(S, k, d(_)) ==
    {T \in SUBSET S : /\ Cardinality(T) = Least(k, Cardinality(S))
                      /\ \A t \in T : \A s \in S \ T : d(t) <= d(s)}

search_index ==
    /\ stage = "loaded"
    /\ LET q == ForMetric(index.metric, job.query)
           centroid_dist(l) == l2_sq(q, index.coarse[l])
           dist(r) == r.dist
       IN  \E probes \in BestOf(1 .. index.nlist, Probed(index), centroid_dist) :
             \E top \in BestOf(Scored(index, q, probes), job.top_k, dist) :
                answer' = [rows |-> top]
    /\ stage' = "answered"
    /\ UNCHANGED <<km, job, codebook, index>>

(* One distance call.                                                      *)
Measure ==
    /\ job.kind = "kernel" /\ stage = "new"
    /\ answer' = [read |-> IF job.f16 THEN f16_kernel(job.cpu, job.op, job.n)
                                      ELSE f32_kernel(job.cpu, job.op, job.n)]
    /\ stage' = "answered"
    /\ UNCHANGED <<km, job, codebook, index>>

VectorNext ==
    train_codebook \/ kmeans \/ train_with_kmeans \/ build_with_codebook \/ StoreAndLoad \/ search_index \/ Measure

-----------------------------------------------------------------------------
(* Properties.                                                             *)

(* Every stage of a job has the parts it needs.                            *)
VectorTypeOK ==
    /\ job \in VectorJobs
    /\ stage \in {"new", "coarse", "pq", "trained", "built", "loaded", "answered"}
    /\ index # None =>
         /\ Len(index.coarse) = index.nlist
         /\ \A l \in 1 .. index.nlist :
              Len(index.inv_codes[l]) = Len(index.inv_row_ids[l]) * index.pq.num_subvectors

(* Whatever the processor and the vector's length, the kernel the dispatch *)
(* picks accumulates every component exactly once: the unrolled chunks,    *)
(* the odd chunk of 8 and the scalar tail neither overlap nor leave a gap. *)
EachComponentOnce ==
    job.kind = "kernel" /\ stage = "answered" =>
        /\ Len(answer.read) = job.n
        /\ ToSet(answer.read) = 0 .. job.n - 1

Cost(points, centroids) ==
    Total([i \in DOMAIN points |-> l2_sq(points[i], centroids[nearest_centroid(points[i], centroids)])])

(* No k-means iteration raises the total distance of the points to their   *)
(* nearest centroid, empty clusters and duplicate starts included, so that *)
(* stopping at max_iter never leaves centroids worse than the start.       *)
TrainingImproves ==
    [][km # None /\ km' # None /\ km'.points = km.points /\ km'.iter > km.iter
         => Cost(km.points, km'.centroids) <= Cost(km.points, km.centroids)]_vectorVars

(* What a row of a list decodes to.                                        *)
Reconstructed(row) ==
    LET l == nearest_centroid(Trained[row], codebook.coarse)
        v == decode(codebook.pq, Encoded(codebook, Trained[row], l))
    IN  IF codebook.residual THEN [d \in DOMAIN v |-> v[d] + codebook.coarse[l][d]] ELSE v

(* The table look-ups of a search through the stored and reloaded index    *)
(* give, for every row they return, the distance from the query to what    *)
(* that row was encoded as, residual or not, of a current or a legacy      *)
(* file: codes, row ids and centroids stay aligned.                        *)
AdcExact ==
    job.kind = "ivf" /\ stage = "answered" =>
        \A r \in answer.rows :
            r.dist = l2_sq(ForMetric(job.metric, job.query), Reconstructed(r.row))

(* With every list probed, by the index's own number or the caller's, no   *)
(* row can be missing or appear twice: the answer is a best top_k of all   *)
(* rows by the distance to their encoding.                                 *)
AllProbedIsBest ==
    job.kind = "ivf" /\ stage = "answered" /\ Probed(index) = index.nlist =>
        /\ Cardinality({r.row : r \in answer.rows}) = Cardinality(answer.rows)
        /\ Cardinality(answer.rows) = Least(job.top_k, Len(job.vectors))
        /\ \A row \in DOMAIN job.vectors \ {r.row : r \in answer.rows} :
             \A r \in answer.rows :
                r.dist <= l2_sq(ForMetric(job.metric, job.query), Reconstructed(row))

(* From the kernels through training and encoding to the reloaded index,   *)
(* the distances of an answer are those of what was encoded.               *)
VectorExact == [](EachComponentOnce /\ AdcExact /\ AllProbedIsBest) /\ TrainingImproves
=============================================================================
