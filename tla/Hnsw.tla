-------------------------------- MODULE Hnsw --------------------------------
(***************************************************************************)
(* The HNSW graph of a vector file (ailake-index/src/hnsw.rs): the build,  *)
(* serial or by rayon workers that insert nodes concurrently under one     *)
(* lock per (node, layer), the later insert_node of an incremental         *)
(* compaction, the layer search all of them run, and the checks            *)
(* HnswSerializer makes when the graph is read back (serialize.rs).        *)
(*                                                                         *)
(* A vector is a point of a line and the distance is the Euclidean one.    *)
(* Positions are chosen so that no two distances tie, so a heap is the     *)
(* set of its entries.  Layer l of a node is entry l + 1 of its list.      *)
(* The random levels of the nodes are part of the setting.                 *)
(***************************************************************************)
EXTENDS Integers, Sequences, FiniteSets, SequencesExt, TLC

CONSTANT HnswSettings
(* Records [parallel, workers, m, ef, built, at, level]: nodes 1..built    *)
(* are built, the later ones are inserted into the finished graph.         *)

VARIABLES
    hset,        \* the setting: configuration, vectors and drawn levels
    neighbors,   \* node -> sequence over layers of neighbour lists
    entry,       \* entry_point, 0 when None
    maxLayer,    \* max_layer
    epLock,      \* the inserting node that holds entry_pt's write lock, or 0
    insertion,   \* node -> the insertion of that node
    panicked     \* an index went out of bounds

hnswVars == <<hset, neighbors, entry, maxLayer, epLock, insertion, panicked>>

Nodes == 1 .. Len(hset.at)
Level(n) == hset.level[n]
Dist(a, b) == IF hset.at[a] < hset.at[b] THEN hset.at[b] - hset.at[a]
                                         ELSE hset.at[a] - hset.at[b]
Nearest(q, S) == CHOOSE a \in S : \A b \in S : Dist(q, a) <= Dist(q, b)
Farthest(q, S) == CHOOSE a \in S : \A b \in S : Dist(q, a) >= Dist(q, b)

(* The nodes of S in the order result.sort_by leaves them.                 *)
ByDistance(q, S) == SetToSortSeq(S, LAMBDA a, b : Dist(q, a) < Dist(q, b))

(* m_max of a layer: twice the configured m at layer 0.                    *)
MaxLinks(lc) == IF lc = 0 THEN 2 * hset.m ELSE hset.m

-----------------------------------------------------------------------------
(* Neighbour selection.                                                    *)

(* SELECT-NEIGHBORS-HEURISTIC: a candidate closer to one already selected  *)
(* than to q is set aside, and fills a place left over at the end.         *)
select_neighbors_heuristic(q, candidates, m) ==
    LET Step(acc, e) ==
          IF Len(acc.result) >= m THEN acc
          ELSE IF \E i \in DOMAIN acc.result : Dist(e, acc.result[i]) < Dist(q, e)
               THEN [acc EXCEPT !.discarded = Append(@, e)]
               ELSE [acc EXCEPT !.result = Append(@, e)]
        From[acc \in [result : Seq(Nodes), discarded : Seq(Nodes)], k \in Nat] ==
          IF k > Len(candidates) THEN acc ELSE From[Step(acc, candidates[k]), k + 1]
        end == From[[result |-> <<>>, discarded |-> <<>>], 1]
        room == m - Len(end.result)
    IN  end.result \o SubSeq(end.discarded, 1,
                             IF room < Len(end.discarded) THEN room ELSE Len(end.discarded))

(* A list that grew past its limit is selected anew, nearest first.        *)
prune_connections(nb, conn, limit) ==
    IF Len(conn) <= limit THEN conn
    ELSE LET candidates == SortSeq(conn, LAMBDA a, b : Dist(nb, a) < Dist(nb, b))
         IN  select_neighbors_heuristic(nb, candidates, limit)

(* nb's list of layer lc after i was pushed on it.                         *)
Linked(nb, lc, i) ==
    prune_connections(nb, Append(neighbors[nb][lc + 1], i), MaxLinks(lc))

-----------------------------------------------------------------------------
(* SEARCH-LAYER, one pop of the candidate heap at a time: search_layer_par *)
(* holds a list's lock only while it clones the list, so the lists of two  *)
(* pops may be of different moments.                                       *)

NewSearch(eps, lc, ef) ==
    [eps |-> eps, lc |-> lc, ef |-> ef,
     cands |-> ToSet(eps), w |-> ToSet(eps), visited |-> ToSet(eps)]

LayerSearches ==
    [eps : Seq(Nodes), lc : Nat, ef : Nat,
     cands : SUBSET Nodes, w : SUBSET Nodes, visited : SUBSET Nodes]

(* The neighbours of a popped node, in list order, against the heap w.     *)
ScanNeighbors(q, s, nbs) ==
    LET Look(acc, nb) ==
          IF nb \in acc.visited THEN acc
          ELSE LET seen == [acc EXCEPT !.visited = @ \cup {nb}]
                   wide == acc.w \cup {nb}
               IN  IF Dist(q, nb) >= Dist(q, Farthest(q, acc.w)) /\ Cardinality(acc.w) >= acc.ef
                   THEN seen
                   ELSE [seen EXCEPT !.cands = @ \cup {nb},
                                     !.w = IF Cardinality(wide) > acc.ef
                                           THEN wide \ {Farthest(q, wide)} ELSE wide]
        From[acc \in LayerSearches, k \in Nat] ==
          IF k > Len(nbs) THEN acc ELSE From[Look(acc, nbs[k]), k + 1]
    IN  From[s, 1]

(* No candidate is left, or the nearest is farther than the worst kept.    *)
LayerDone(q, s) ==
    s.cands # {} => Dist(q, Nearest(q, s.cands)) > Dist(q, Farthest(q, s.w))

(* One pop: a node below the layer has no list there and is skipped.       *)
search_layer(q, s, nbr) ==
    LET c == Nearest(q, s.cands)
        popped == [s EXCEPT !.cands = @ \ {c}]
    IN  IF s.lc > Level(c) THEN popped ELSE ScanNeighbors(q, popped, nbr[c][s.lc + 1])

-----------------------------------------------------------------------------
(* The insertion of one node.                                              *)

Idle == [pc |-> "idle"]
Done == [pc |-> "done"]

(* Above the node's own level the descent keeps one node.                  *)
SearchAt(i, eps, lc) == NewSearch(eps, lc, IF lc > Level(i) THEN 1 ELSE hset.ef)

HnswInit ==
    /\ hset \in HnswSettings
    /\ neighbors = [n \in Nodes |-> [l \in 1 .. Level(n) + 1 |-> <<>>]]
    /\ entry = IF hset.built = 0 THEN 0 ELSE 1
    /\ maxLayer = IF hset.built = 0 THEN 0 ELSE Level(1)
    /\ epLock = 0
    /\ insertion = [n \in Nodes |-> IF n = 1 /\ hset.built > 0 THEN Done ELSE Idle]
    /\ panicked = FALSE

BuildDone == \A n \in 1 .. hset.built : insertion[n] = Done
Active == {n \in Nodes : insertion[n] \notin {Idle, Done}}

(* A worker is free for node i of the parallel build; a serial build and   *)
(* the later insertions take the nodes in turn.                            *)
MayStart(i) ==
    IF hset.parallel /\ i <= hset.built
    THEN Cardinality(Active) < hset.workers
    ELSE \A n \in 1 .. i - 1 : insertion[n] = Done

(* entry_pt.read(): a first node becomes the entry point itself.           *)
ReadEntry(i) ==
    /\ ~panicked /\ insertion[i] = Idle /\ MayStart(i) /\ epLock = 0
    /\ IF entry = 0
       THEN entry' = i /\ maxLayer' = Level(i) /\ insertion' = [insertion EXCEPT ![i] = Done]
       ELSE /\ insertion' = [insertion EXCEPT ![i] = [pc |-> "load", ep |-> entry]]
            /\ UNCHANGED <<entry, maxLayer>>
    /\ UNCHANGED <<hset, neighbors, epLock, panicked>>

(* max_layer_atom.load, after the read lock is gone.                       *)
LoadMax(i) ==
    /\ ~panicked /\ insertion[i].pc = "load"
    /\ insertion' = [insertion EXCEPT ![i] =
                  [pc |-> "search", s |-> SearchAt(i, <<insertion[i].ep>>, maxLayer)]]
    /\ UNCHANGED <<hset, neighbors, entry, maxLayer, epLock, panicked>>

(* One pop of the candidate heap.                                          *)
Pop(i) ==
    /\ ~panicked /\ insertion[i].pc = "search" /\ ~LayerDone(i, insertion[i].s)
    /\ insertion' = [insertion EXCEPT ![i].s = search_layer(i, @, neighbors)]
    /\ UNCHANGED <<hset, neighbors, entry, maxLayer, epLock, panicked>>

(* Above the node's level: one layer down from the nearest node found.     *)
Descend(i) ==
    /\ ~panicked /\ insertion[i].pc = "search" /\ LayerDone(i, insertion[i].s)
    /\ insertion[i].s.lc > Level(i)
    /\ insertion' = [insertion EXCEPT ![i].s = SearchAt(i, <<Nearest(i, @.w)>>, @.lc - 1)]
    /\ UNCHANGED <<hset, neighbors, entry, maxLayer, epLock, panicked>>

(* The node's own list of the layer is replaced by the selection.          *)
WriteOwn(i) ==
    /\ ~panicked /\ insertion[i].pc = "search" /\ LayerDone(i, insertion[i].s)
    /\ insertion[i].s.lc <= Level(i)
    /\ LET s == insertion[i].s
           w == ByDistance(i, s.w)
           selected == select_neighbors_heuristic(i, w, MaxLinks(s.lc))
       IN  /\ neighbors' = [neighbors EXCEPT ![i][s.lc + 1] = selected]
           /\ insertion' = [insertion EXCEPT ![i] =
                         [pc |-> "link", lc |-> s.lc, w |-> w, rest |-> selected]]
    /\ UNCHANGED <<hset, entry, maxLayer, epLock, panicked>>

(* The back-edge to the next selected neighbour.  The parallel build skips *)
(* a neighbour that has no list on the layer; the serial one and           *)
(* insert_node index neighbors[nb][lc] without looking.                    *)
Link(i) ==
    /\ ~panicked /\ insertion[i].pc = "link" /\ insertion[i].rest # <<>>
    /\ LET nb == Head(insertion[i].rest)
           lc == insertion[i].lc
           guarded == hset.parallel /\ i <= hset.built
       IN  /\ neighbors' = IF lc <= Level(nb)
                           THEN [neighbors EXCEPT ![nb][lc + 1] = Linked(nb, lc, i)]
                           ELSE neighbors
           /\ panicked' = (lc > Level(nb) /\ ~guarded)
    /\ insertion' = [insertion EXCEPT ![i].rest = Tail(@)]
    /\ UNCHANGED <<hset, entry, maxLayer, epLock>>

(* All back-edges of a layer are there: down to the next, or to the        *)
(* comparison of the node's level with the top layer.                      *)
LayerLinked(i) ==
    /\ ~panicked /\ insertion[i].pc = "link" /\ insertion[i].rest = <<>>
    /\ insertion' = [insertion EXCEPT ![i] =
                  IF @.lc > 0
                  THEN [pc |-> "search", s |-> SearchAt(i, @.w, @.lc - 1)]
                  ELSE IF Level(i) > maxLayer THEN [pc |-> "promote"] ELSE Done]
    /\ UNCHANGED <<hset, neighbors, entry, maxLayer, epLock, panicked>>

Promote_Wrong(i) ==
    /\ ~panicked /\ insertion[i].pc = "promote" /\ epLock = 0
    /\ epLock' = i /\ maxLayer' = Level(i)
    /\ insertion' = [insertion EXCEPT ![i] = [pc |-> "promoting"]]
    /\ UNCHANGED <<hset, neighbors, entry, panicked>>

(* entry_pt.write(): the top layer is read again under the lock, and       *)
(* stored before the entry point is.                                       *)
Promote(i) ==
    /\ ~panicked /\ insertion[i].pc = "promote" /\ epLock = 0
    /\ IF Level(i) > maxLayer
       THEN /\ epLock' = i /\ maxLayer' = Level(i)
            /\ insertion' = [insertion EXCEPT ![i] = [pc |-> "promoting"]]
       ELSE /\ insertion' = [insertion EXCEPT ![i] = Done]
            /\ UNCHANGED <<epLock, maxLayer>>
    /\ UNCHANGED <<hset, neighbors, entry, panicked>>

(* The entry point follows, and the write lock is released.                *)
StoreEntry(i) ==
    /\ ~panicked /\ insertion[i].pc = "promoting"
    /\ entry' = i /\ epLock' = 0
    /\ insertion' = [insertion EXCEPT ![i] = Done]
    /\ UNCHANGED <<hset, neighbors, maxLayer, panicked>>

InsertStep(i) ==
    \/ ReadEntry(i) \/ LoadMax(i) \/ Pop(i) \/ Descend(i) \/ WriteOwn(i)
    \/ Link(i) \/ LayerLinked(i) \/ Promote(i) \/ StoreEntry(i)

HnswNext == \E i \in Nodes : InsertStep(i)

(* rayon goes on while a task of a parallel build can: there is no         *)
(* cancellation.                                                           *)
HnswFairness == WF_hnswVars(hset.parallel /\ HnswNext)

-----------------------------------------------------------------------------
(* Use of the finished graph.                                              *)

AllDone == \A n \in Nodes : insertion[n] = Done

(* The whole search of a layer over a graph nobody changes.                *)
SearchedLayer(q, eps, lc, ef) ==
    LET Run[s \in LayerSearches] ==
          IF LayerDone(q, s) THEN s.w ELSE Run[search_layer(q, s, neighbors)]
    IN  ByDistance(q, Run[NewSearch(eps, lc, ef)])

(* hnsw_search_typed: down the layers with one node, then layer 0.         *)
search(q, top_k, ef) ==
    LET Down(ep, k) == SearchedLayer(q, <<ep>>, maxLayer + 1 - k, 1)[1]
        ep == FoldLeft(Down, entry, [k \in 1 .. maxLayer |-> k])
        w == SearchedLayer(q, <<ep>>, 0, IF ef > top_k THEN ef ELSE top_k)
    IN  SubSeq(w, 1, IF top_k < Len(w) THEN top_k ELSE Len(w))

(* brute_force_typed, which scores every row.                              *)
brute_force(q, top_k) ==
    LET all == ByDistance(q, Nodes)
    IN  SubSeq(all, 1, IF top_k < Len(all) THEN top_k ELSE Len(all))

(* What HnswSerializer::from_bytes demands of a graph it reads.            *)
validate_snapshot ==
    /\ entry \in Nodes
    /\ \A n \in Nodes : /\ Len(neighbors[n]) = Level(n) + 1
                        /\ \A l \in DOMAIN neighbors[n] : ToSet(neighbors[n][l]) \subseteq Nodes
    /\ \A n \in Nodes : Level(n) <= maxLayer
    /\ \E n \in Nodes : Level(n) = maxLayer

-----------------------------------------------------------------------------
(* Properties.                                                             *)

(* Every part of the graph and of the insertions has its type.             *)
HnswTypeOK ==
    /\ hset \in HnswSettings
    /\ entry \in 0 .. Len(hset.at) /\ epLock \in 0 .. Len(hset.at)
    /\ maxLayer \in Nat /\ panicked \in BOOLEAN
    /\ \A n \in Nodes :
          /\ insertion[n].pc \in {"idle", "load", "search", "link", "promote", "promoting", "done"}
          /\ Len(neighbors[n]) = Level(n) + 1

(* No neighbour list outgrows m (2m at layer 0), whatever the order in     *)
(* which workers push on it and replace it: prune_connections runs under   *)
(* the same lock as the push.                                              *)
LinksBounded ==
    \A n \in Nodes : \A l \in DOMAIN neighbors[n] :
        Len(neighbors[n][l]) <= MaxLinks(l - 1)

(* The graph the workers leave is one from_bytes accepts when the file is  *)
(* read back, and its entry point is on the top layer: two workers that    *)
(* both saw a lower top layer do not lower it again.                       *)
SnapshotAccepted ==
    AllDone /\ entry # 0 => validate_snapshot /\ Level(entry) = maxLayer

(* In a graph built serially every neighbour named on a layer has that     *)
(* layer, so that insert_node, which indexes neighbors[nb][lc] without a   *)
(* check, stays in bounds.                                                 *)
LayersClosed ==
    ~hset.parallel =>
        /\ ~panicked
        /\ \A n \in Nodes : \A l \in DOMAIN neighbors[n] :
              \A nb \in ToSet(neighbors[n][l]) : l - 1 <= Level(nb) /\ nb # n

(* Searched with ef no smaller than the graph, a serially built graph      *)
(* whose layer 0 was never pruned answers as the brute-force scan does:    *)
(* no row got lost while nodes and layers were linked.                     *)
RowsFound ==
    AllDone /\ ~hset.parallel /\ Len(hset.at) <= 2 * hset.m + 1 =>
        \A q \in Nodes : \A k \in {1, Len(hset.at)} :
            search(q, k, Len(hset.at)) = brute_force(q, k)

(* What building leaves behind can be stored, read back and searched, and, *)
(* when it was built serially, inserted into and searched again.  Nothing  *)
(* is claimed of an insertion into a graph that rayon workers built: there *)
(* a worker's entry point can be of a lower layer than the maximum it read *)
(* after it (hnsw.rs:419-420), the layers need not be closed, and the      *)
(* index neighbors[nb][lc] of insert_node can be out of bounds.            *)
GraphSound == LinksBounded /\ SnapshotAccepted /\ LayersClosed /\ RowsFound

(* A parallel build returns: no worker waits for ever on the entry point's *)
(* lock, which another holds while it stores the top layer and the entry.  *)
BuildReturns == hset.parallel ~> AllDone
=============================================================================
