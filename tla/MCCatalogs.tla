------------------------------ MODULE MCCatalogs ------------------------------
(***************************************************************************)
(* The catalogs that guard a commit with a lock, on small instances: the   *)
(* Hadoop catalog with three tasks and at most four calls, and the         *)
(* DuckLake catalog with two.  A behaviour is one of the catalog that      *)
(* `catalog` names; the other stays as it begins.                          *)
(***************************************************************************)
EXTENDS HadoopCatalog, DuckLake, TLC

CONSTANTS Catalogs, p1, p2, c1, c2, c3
VARIABLE catalog

(* Two tasks of one process and one of another commit under the file lock. *)
Commits ==
  [processOf |-> c1 :> p1 @@ c2 :> p1 @@ c3 :> p2, ops |-> {"append", "replace"},
   expiring |-> FALSE, atomicPut |-> TRUE, exists |-> TRUE,
   calls |-> 3, faults |-> 1, crashes |-> 1]

(* Two tasks of one process commit under a lease that may expire.          *)
Leased ==
  [processOf |-> c1 :> p1 @@ c2 :> p1, ops |-> {"append", "delete"},
   expiring |-> TRUE, atomicPut |-> TRUE, exists |-> TRUE,
   calls |-> 3, faults |-> 1, crashes |-> 1]

(* The put of LocalStore, as long as the hint says 1: a hint that is       *)
(* empty, in passing or after a crash, is then read for what it was.       *)
Truncating ==
  [processOf |-> c1 :> p1 @@ c2 :> p1, ops |-> {"append", "delete"},
   expiring |-> FALSE, atomicPut |-> FALSE, exists |-> TRUE,
   calls |-> 1, faults |-> 1, crashes |-> 1]

(* All operations, one call at a time.                                     *)
Sequential ==
  [processOf |-> c1 :> p1, ops |-> {"create", "append", "overwrite", "evolve", "drop"},
   expiring |-> FALSE, atomicPut |-> TRUE, exists |-> FALSE,
   calls |-> 4, faults |-> 0, crashes |-> 2]

(* A commit and an evolution of the schema by two tasks.                   *)
Evolving ==
  [processOf |-> c1 :> p1 @@ c2 :> p1, ops |-> {"append", "evolve"},
   expiring |-> FALSE, atomicPut |-> TRUE, exists |-> TRUE,
   calls |-> 2, faults |-> 0, crashes |-> 0]

Settings == {Commits, Leased, Truncating, Sequential}
EvolvingSetting == {Evolving}

(* Scripts of two tasks that race appends, compactions, patches, rewrites, *)
(* schema evolution, and creating and dropping the table; in each one      *)
(* crash, one failing statement or one file of another DuckDB client.      *)
Calls(a, b) == [c \in DuckClient |-> IF c = "t1" THEN a ELSE b]
Quiet == [calls |-> Calls(<<>>, <<>>), crashes |-> 0, faults |-> 0, foreign |-> 0]
Raced ==
  { Calls(<<"append", "compact">>, <<"append", "patch">>),
    Calls(<<"append", "evolve", "delete">>, <<"append", "compact">>),
    Calls(<<"append", "rewrite">>, <<"compact", "compact">>),
    Calls(<<"append", "drop", "create">>, <<"create", "append">>) }
MCDuckScripts ==
  {Quiet} \cup UNION {[calls : Raced, crashes : {x[1]}, faults : {x[2]}, foreign : {x[3]}]
                        : x \in {<<1, 0, 0>>, <<0, 1, 0>>, <<0, 0, 1>>}}

CatalogsInit ==
  /\ catalog \in Catalogs
  /\ Init /\ (catalog # "hadoop" => setting = Sequential)
  /\ DuckInit /\ (catalog # "ducklake" => todo = Quiet.calls)

CatalogsNext ==
  \/ catalog = "hadoop" /\ Next /\ UNCHANGED <<catalog, duckVars>>
  \/ catalog = "ducklake" /\ DuckNext /\ UNCHANGED <<catalog, vars>>

CatalogsSpec ==
  /\ CatalogsInit /\ [][CatalogsNext]_<<catalog, vars, duckVars>>
  /\ \A c \in Client : WF_vars(c \in Task /\ Step(c))
  /\ DuckFairness

--------------------------------------------------------------------------------
(* Both catalogs are in one of their states: the lock and the connection   *)
(* are with a call that has them.                                          *)
CatalogsTypeOK == TypeOK /\ DuckTypeOK

(* Every call on either catalog comes back: no error path, crash of        *)
(* another process or dropped future keeps a lock from it.                 *)
CatalogCallsReturn == CallsReturn /\ DuckReturns
================================================================================
