--------------------------- MODULE VisitedTracker ---------------------------
(***************************************************************************)
(* The visited set of an HNSW search (ailake-index/src/hnsw.rs): one       *)
(* generation number per node, kept by a thread across searches over       *)
(* graphs of different sizes.  A node is visited when its number is the    *)
(* current generation; the generation wraps around.                        *)
(***************************************************************************)
EXTENDS Integers, FiniteSets

CONSTANTS
    GenerationBits,  \* width of the generation number, 32 in the code
    TrackedSizes     \* the sizes of the graphs searched

VARIABLES
    gen,             \* index -> generation of its last visit
    generation,      \* the generation of the running search
    visitedNow       \* history: the nodes this search has visited

trackerVars == <<gen, generation, visitedNow>>

Generations == 0 .. 2 ^ GenerationBits - 1

TrackerInit ==
    /\ gen = [i \in {} |-> 0] /\ generation = 0 /\ visitedNow = {}

(* A new search over n nodes: the table grows but never shrinks, and is    *)
(* cleared when the generation comes round to 0.                           *)
prepare(n) ==
    /\ LET resized == [i \in DOMAIN gen \cup 0 .. n - 1 |->
                         IF i \in DOMAIN gen THEN gen[i] ELSE 0]
           next == (generation + 1) % 2 ^ GenerationBits
       IN  IF next = 0
           THEN gen' = [i \in DOMAIN resized |-> 0] /\ generation' = 1
           ELSE gen' = resized /\ generation' = next
    /\ visitedNow' = {}

(* visit marks the node and says whether that was news.                    *)
visit(idx) ==
    /\ generation # 0 /\ idx \in DOMAIN gen
    /\ gen' = [gen EXCEPT ![idx] = generation]
    /\ visitedNow' = visitedNow \cup {idx}
    /\ UNCHANGED generation

TrackerNext ==
    \/ \E n \in TrackedSizes : prepare(n)
    \/ \E idx \in DOMAIN gen : visit(idx)

-----------------------------------------------------------------------------
(* During a search a node counts as visited exactly when this search has   *)
(* visited it, however many searches the thread ran before and across the  *)
(* wrap of the generation: none is skipped for a visit long ago.           *)
VisitedExactly ==
    generation # 0 =>
        \A i \in DOMAIN gen : gen[i] = generation <=> i \in visitedNow
=============================================================================
