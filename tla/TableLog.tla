-------------------------------- MODULE TableLog --------------------------------
(***************************************************************************)
(* What a catalog promises to the code above it (CatalogProvider in        *)
(* ailake-catalog/src/provider.rs): a table is a log of snapshots, and     *)
(* commit_snapshot appends one, atomically, to the log as it is at that    *)
(* moment.  Append and Delete add to what the last snapshot lists; Replace *)
(* and Overwrite list exactly what the caller gives.  Snapshots already in *)
(* the log never change, so a reader pinned to one keeps its file list.    *)
(*                                                                         *)
(* A file or an equality-delete file is named by the commit that brings    *)
(* it, and is stamped with the sequence number of the snapshot whose       *)
(* manifest lists it.                                                      *)
(***************************************************************************)
EXTENDS Integers, Sequences

CONSTANTS Id

VARIABLES exists,      \* the catalog has an entry for the table
          log,         \* its snapshots, oldest first
          evolutions   \* the schema evolutions applied, oldest first

logVars == <<exists, log, evolutions>>

Inherits(op) == op \in {"append", "delete"}

Stamped(paths, seq) == {[path |-> p, seq |-> seq] : p \in paths}

Listed(field) == IF log = <<>> THEN {} ELSE log[Len(log)][field]

SnapshotOf(id, op, files, deletes) ==
  LET kept(field) == IF Inherits(op) THEN Listed(field) ELSE {}
  IN  [id |-> id,
       files |-> kept("files") \cup Stamped(files, Len(log) + 1),
       deletes |-> kept("deletes") \cup Stamped(deletes, Len(log) + 1)]

LogInit == exists \in BOOLEAN /\ log = <<>> /\ evolutions = <<>>

CreateTable ==
  /\ ~exists
  /\ exists' = TRUE /\ log' = <<>> /\ evolutions' = <<>>

DropTable == exists' = FALSE /\ log' = <<>> /\ evolutions' = <<>>

CommitSnapshot(id, op, files, deletes) ==
  /\ exists
  /\ log' = Append(log, SnapshotOf(id, op, files, deletes))
  /\ UNCHANGED <<exists, evolutions>>

EvolveSchema(id) ==
  /\ exists
  /\ evolutions' = Append(evolutions, id)
  /\ UNCHANGED <<exists, log>>

LogNext ==
  \/ CreateTable
  \/ DropTable
  \/ /\ log' # log
     /\ \E id \in Id, op \in {"append", "delete", "replace", "overwrite"},
           files \in SUBSET Id, deletes \in SUBSET Id :
          CommitSnapshot(id, op, files, deletes)
  \/ \E id \in Id : EvolveSchema(id)

LogSpec == LogInit /\ [][LogNext]_logVars
================================================================================
