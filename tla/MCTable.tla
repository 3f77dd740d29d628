-------------------------------- MODULE MCTable --------------------------------
(***************************************************************************)
(* What a table rests on, on small instances, one part at a time: commits  *)
(* with optimistic concurrency control (OccCatalog, with two calls in      *)
(* flight), the lock object of an object store (FencedLease, with two      *)
(* tasks, each of its own process), and what the operations on top of them *)
(* do to the rows (TableMaintenance).  A behaviour is one of the part that *)
(* `part` names; the others stay as they begin.  Ids and rows, which meet  *)
(* in no part, are the same model values.                                  *)
(***************************************************************************)
EXTENDS OccCatalog, FencedLease, TableMaintenance, TLC

CONSTANTS Parts, w1, w2
VARIABLE part

OneProcessEach == [c \in Holder |-> c]

(* One client that compacts both ways, deletes, patches and searches.      *)
Compaction ==
  [clients |-> {w1}, maintainers |-> {w1}, retries |-> TRUE, calls |-> 7, faults |-> 0,
   ops |-> {"write", "compact", "serve_compact", "delete_rows", "patch", "search"}]

(* One client that runs the rewrites of whole tables.                      *)
Rewrites ==
  [clients |-> {w1}, maintainers |-> {w1}, retries |-> FALSE, calls |-> 6, faults |-> 1,
   ops |-> {"write", "decay", "backfill", "migrate", "delete_rows"}]

(* A writer beside a client that compacts, decays and deletes.             *)
Concurrent ==
  [clients |-> {w1, w2}, maintainers |-> {w1}, retries |-> FALSE, calls |-> 5, faults |-> 0,
   ops |-> {"write", "compact", "delete_rows", "decay"}]

(* A writer beside a client that patches, backfills and migrates.          *)
ConcurrentRewrites ==
  [clients |-> {w1, w2}, maintainers |-> {w1}, retries |-> FALSE, calls |-> 5, faults |-> 0,
   ops |-> {"write", "patch", "backfill", "migrate", "delete_rows", "search"}]

(* Two clients that write and delete by key.                               *)
Deletes ==
  [clients |-> {w1, w2}, maintainers |-> {}, retries |-> FALSE, calls |-> 5, faults |-> 0,
   ops |-> {"write", "delete_where"}]

(* Deletes by key before a compaction.                                     *)
EqualityDeletes ==
  [clients |-> {w1}, maintainers |-> {w1}, retries |-> FALSE, calls |-> 6, faults |-> 0,
   ops |-> {"write", "delete_where", "compact"}]

(* Two clients that compact, delete and patch beside each other.           *)
Maintainers ==
  [clients |-> {w1, w2}, maintainers |-> {w1, w2}, retries |-> FALSE, calls |-> 5, faults |-> 0,
   ops |-> {"write", "compact", "delete_rows", "patch"}]

Workloads ==
  {Compaction, Rewrites, Concurrent, ConcurrentRewrites, Deletes, EqualityDeletes, Maintainers}
EqualityDeleteWorkload == {EqualityDeletes}

Symmetric == Permutations(Client) \cup Permutations(Id)

PartInit ==
  /\ part \in Parts /\ Init /\ LockInit /\ TableInit
  /\ part # "rows" => workload = Compaction

PartNext ==
  \/ part = "commit" /\ Next /\ UNCHANGED <<part, lockVars, tableVars>>
  \/ part = "lock" /\ LockNext /\ UNCHANGED <<part, vars, tableVars>>
  \/ part = "rows" /\ TableNext /\ UNCHANGED <<part, vars, lockVars>>

PartSpec == PartInit /\ [][PartNext]_<<part, vars, lockVars, tableVars>>
================================================================================
