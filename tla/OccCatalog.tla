------------------------------- MODULE OccCatalog -------------------------------
(***************************************************************************)
(* commit_snapshot and evolve_schema of the catalogs that guard their      *)
(* pointer with optimistic concurrency control: JdbcCatalog, GlueCatalog   *)
(* and RestCatalog, with the build_commit that they share                  *)
(* (ailake-catalog/src/{jdbc,glue,rest,manifest_commit}.rs).               *)
(*                                                                         *)
(*   pointer        the table's metadata_location, 0 = no such table       *)
(*   metadata       the metadata.json at each location.  A location is a   *)
(*                  fresh uuid, here the next number; the object behind a  *)
(*                  swap that fails is never read and is left out          *)
(*   manifest       {id}-m0.avro and {id}-eq-del.avro, by snapshot id      *)
(*   manifest_list  snap-{id}-1.avro: the snapshots whose manifests it has *)
(*   pc, req        per client (one call of a catalog method): where it is *)
(*                  and what it was asked to do                            *)
(*   base, attempt  the location it has read, and its number of retries    *)
(*   outcome        what the call answered, by request                     *)
(*   used           the request ids taken so far                           *)
(*   readFaults     reads of a manifest list that failed                   *)
(*                                                                         *)
(* Every commit pushes one snapshot and adds one to last_sequence_number,  *)
(* so the sequence number is the length of snapshots.  A request brings    *)
(* one new file, or one equality-delete file, named by its id.             *)
(*                                                                         *)
(* Guard = "location" is Jdbc's UPDATE ... WHERE metadata_location = old   *)
(* and Glue's version_id.  Guard = "refs" is the Rest catalog's            *)
(* assert-ref-snapshot-id and assert-current-schema-id: the server applies *)
(* the change to its own metadata, and a schema change is not retried.     *)
(* Its new schema extends the one that was read, which the assertion makes *)
(* the current one; that a table dropped and created again may by then     *)
(* have another schema of the same id is left out, and so is the schema    *)
(* that a commit may bring with it (NewSnapshot::iceberg_schema).          *)
(*                                                                         *)
(* Definitions called X_Wrong are seeded faults: X with a plausible bug,   *)
(* to show that the properties notice it.  No specification uses them.     *)
(***************************************************************************)
EXTENDS Integers, Sequences

CONSTANTS Client, Id, NoId, Guard, Op,
          MAX_RETRIES,     \* 5 in the code
          MaxReadFaults,   \* bound on failed reads of a manifest list
          MaxVersions      \* no table is created once there are so many versions

ASSUME OccAssumption ==
  /\ NoId \notin Id
  /\ Guard \in {"location", "refs"}
  /\ Op \subseteq {"append", "delete", "replace", "overwrite", "evolve"}
  /\ MAX_RETRIES \in Nat \ {0}
  /\ MaxReadFaults \in Nat /\ MaxVersions \in Nat

VARIABLES pointer, metadata, manifest, manifest_list, pc, req, base, attempt,
          outcome, used, readFaults

store == <<manifest, manifest_list>>
vars == <<pointer, metadata, manifest, manifest_list, pc, req, base, attempt,
          outcome, used, readFaults>>

Entry == [path : Id, seq : Nat]
Manifest == [files : SUBSET Entry, deletes : SUBSET Entry]
Request == [op : Op \cup {"none"}, id : Id \cup {NoId},
            files : SUBSET Id, deletes : SUBSET Id]
Meta == [snapshots : Seq(Id), evolutions : Seq(Id)]

TypeOK ==
  /\ pointer \in Nat /\ pointer <= Len(metadata)
  /\ metadata \in Seq(Meta)
  /\ manifest \in [Id -> Manifest]
  /\ manifest_list \in [Id -> SUBSET Id]
  /\ pc \in [Client -> {"idle", "load", "manifest", "list", "swap"}]
  /\ req \in [Client -> Request]
  /\ base \in [Client -> Nat]
  /\ attempt \in [Client -> Nat]
  /\ outcome \in [Id -> {"none", "ok", "unknown", "conflict", "not_found"}]
  /\ used \subseteq Id
  /\ readFaults \in Nat

NoEntries == [files |-> {}, deletes |-> {}]
NoRequest == [op |-> "none", id |-> NoId, files |-> {}, deletes |-> {}]

Init ==
  /\ pointer = 0
  /\ metadata = <<>>
  /\ manifest = [i \in Id |-> NoEntries]
  /\ manifest_list = [i \in Id |-> {}]
  /\ pc = [c \in Client |-> "idle"]
  /\ req = [c \in Client |-> NoRequest]
  /\ base = [c \in Client |-> 0]
  /\ attempt = [c \in Client |-> 0]
  /\ outcome = [i \in Id |-> "none"]
  /\ used = {}
  /\ readFaults = 0

--------------------------------------------------------------------------------
(* What list_files_from_metadata and list_equality_deletes_from_metadata   *)
(* read for a snapshot, through its manifest list.                         *)
list_files(id) == UNION {manifest[m].files : m \in manifest_list[id]}
list_equality_deletes(id) == UNION {manifest[m].deletes : m \in manifest_list[id]}

Snapshots == IF pointer = 0 THEN <<>> ELSE metadata[pointer].snapshots

ListedPaths ==
  IF Snapshots = <<>> THEN {}
  ELSE {e.path : e \in list_files(Snapshots[Len(Snapshots)])}

Inherits(op) == op \in {"append", "delete"}
Commits(op) == op \in {"append", "delete", "replace", "overwrite"}
Stamped(paths, seq) == {[path |-> p, seq |-> seq] : p \in paths}

Goto(c, label) == pc' = [pc EXCEPT ![c] = label]
Return(c, answer) ==
  /\ Goto(c, "idle")
  /\ outcome' = [outcome EXCEPT ![req[c].id] = answer]
  /\ req' = [req EXCEPT ![c] = NoRequest]
  /\ base' = [base EXCEPT ![c] = 0]
  /\ attempt' = [attempt EXCEPT ![c] = 0]

--------------------------------------------------------------------------------
(* CREATE and DROP are one statement each.  The new table's metadata.json  *)
(* is put first, at a location of its own; INSERT fails on a duplicate.    *)
create_table ==
  /\ pointer = 0
  /\ Len(metadata) < MaxVersions
  /\ metadata' = Append(metadata, [snapshots |-> <<>>, evolutions |-> <<>>])
  /\ pointer' = Len(metadata) + 1
  /\ UNCHANGED <<store, pc, req, base, attempt, outcome, used, readFaults>>

drop_table ==
  /\ pointer # 0
  /\ pointer' = 0
  /\ UNCHANGED <<metadata, store, pc, req, base, attempt, outcome, used, readFaults>>

(* A caller starts commit_snapshot or evolve_schema.  A Replace or an      *)
(* Overwrite lists some of the files that list_files just returned, and a  *)
(* new one; an Append a new file; a Delete an equality-delete file.        *)
Begin(c) ==
  /\ pc[c] = "idle"
  /\ \E op \in Op, id \in Id \ used, kept \in SUBSET ListedPaths :
       /\ op \notin {"replace", "overwrite"} => kept = {}
       /\ used' = used \cup {id}
       /\ req' = [req EXCEPT ![c] =
                    [op |-> op, id |-> id,
                     files |-> IF op \in {"delete", "evolve"} THEN {} ELSE kept \cup {id},
                     deletes |-> IF op = "delete" THEN {id} ELSE {}]]
  /\ Goto(c, "load")
  /\ UNCHANGED <<pointer, metadata, store, base, attempt, outcome, readFaults>>

(* get_metadata_location and load_iceberg_metadata: the row, then the      *)
(* object it points to, which is never rewritten.                          *)
Load(c) ==
  /\ pc[c] = "load"
  /\ IF pointer = 0
     THEN Return(c, "not_found")
     ELSE /\ base' = [base EXCEPT ![c] = pointer]
          /\ Goto(c, IF req[c].op = "evolve" THEN "swap" ELSE "manifest")
          /\ UNCHANGED <<req, attempt, outcome>>
  /\ UNCHANGED <<pointer, metadata, store, used, readFaults>>

(* build_commit, first part: put the manifest of the new files and, if     *)
(* any, of the equality deletes, all stamped with this commit's number.    *)
seq(c) == Len(metadata[base[c]].snapshots) + 1

PutManifest(c) ==
  /\ pc[c] = "manifest"
  /\ manifest' = [manifest EXCEPT ![req[c].id] =
                    [files |-> Stamped(req[c].files, seq(c)),
                     deletes |-> Stamped(req[c].deletes, seq(c))]]
  /\ Goto(c, "list")
  /\ UNCHANGED <<pointer, metadata, manifest_list, req, base, attempt, outcome, used,
                 readFaults>>

(* build_commit, second part: read the manifest list of the last snapshot  *)
(* of the metadata read, and put the list of the new one.  An error of     *)
(* that read is not reported: the new list then has the new manifests only.*)
previous_manifests_Wrong(c) == {}
previous_manifests(c) ==
  LET snapshots == metadata[base[c]].snapshots
  IN  IF Inherits(req[c].op) /\ snapshots # <<>>
      THEN manifest_list[snapshots[Len(snapshots)]] ELSE {}

PutManifestList(c) ==
  /\ pc[c] = "list"
  /\ \/ /\ manifest_list' = [manifest_list EXCEPT ![req[c].id] =
                               previous_manifests(c) \cup {req[c].id}]
        /\ UNCHANGED readFaults
     \/ /\ readFaults < MaxReadFaults
        /\ readFaults' = readFaults + 1
        /\ manifest_list' = [manifest_list EXCEPT ![req[c].id] = {req[c].id}]
  /\ Goto(c, "swap")
  /\ UNCHANGED <<pointer, metadata, manifest, req, base, attempt, outcome, used>>

--------------------------------------------------------------------------------
(* The guard of the update that publishes the new metadata.                *)
LastSnapshot(m) == IF m.snapshots = <<>> THEN NoId ELSE m.snapshots[Len(m.snapshots)]

(* A new schema gets the next id.                                          *)
current_schema_id(m) == Len(m.evolutions)

Unchanged_Wrong(c) == pointer # 0
Unchanged(c) ==
  /\ pointer # 0
  /\ IF Guard = "location" THEN pointer = base[c]
     ELSE IF req[c].op = "evolve"
     THEN current_schema_id(metadata[pointer]) = current_schema_id(metadata[base[c]])
     ELSE LastSnapshot(metadata[pointer]) = LastSnapshot(metadata[base[c]])

Applied(c, m) ==
  IF req[c].op = "evolve"
  THEN [m EXCEPT !.evolutions = Append(@, req[c].id)]
  ELSE [m EXCEPT !.snapshots = Append(@, req[c].id)]

put_metadata(meta) == Append(metadata, meta)

Publish(c) ==
  /\ pc[c] = "swap"
  /\ Unchanged(c)
  /\ metadata' = put_metadata(
       Applied(c, metadata[IF Guard = "location" THEN base[c] ELSE pointer]))
  /\ pointer' = Len(metadata) + 1
  /\ UNCHANGED <<store, used, readFaults>>

Swap(c) == Publish(c) /\ Return(c, "ok")

(* rows_affected = 0, ConcurrentModificationException or 409: another      *)
(* writer was first.  The call reads the table again, a bounded number of  *)
(* times.                                                                  *)
Retries(c) == IF Guard = "refs" /\ req[c].op = "evolve" THEN 1 ELSE MAX_RETRIES

Retry_Wrong(c) == Goto(c, "swap") /\ UNCHANGED <<req, base, attempt, outcome>>
Retry(c) ==
  /\ Goto(c, "load")
  /\ attempt' = [attempt EXCEPT ![c] = @ + 1]
  /\ UNCHANGED <<req, base, outcome>>

AfterConflict_Wrong(c) ==
  IF attempt[c] + 1 < Retries(c) THEN Retry(c) ELSE Return(c, "ok")
AfterConflict(c) ==
  IF attempt[c] + 1 < Retries(c) THEN Retry(c) ELSE Return(c, "conflict")

Conflict(c) ==
  /\ pc[c] = "swap"
  /\ ~Unchanged(c)
  /\ AfterConflict(c)
  /\ UNCHANGED <<pointer, metadata, store, used, readFaults>>

(* The update takes effect and its answer is lost.                         *)
SwapUnacknowledged(c) == Publish(c) /\ Return(c, "unknown")

(* A read, a put or the update fails, or the caller goes away, before      *)
(* anything is published.                                                  *)
Fail(c) ==
  /\ pc[c] # "idle"
  /\ Return(c, "unknown")
  /\ UNCHANGED <<pointer, metadata, store, used, readFaults>>

Step(c) ==
  \/ Load(c) \/ PutManifest(c) \/ PutManifestList(c)
  \/ Swap(c) \/ SwapUnacknowledged(c) \/ Conflict(c)

Next ==
  \/ create_table
  \/ drop_table
  \/ \E c \in Client : Begin(c) \/ Step(c) \/ Fail(c)

Spec == Init /\ [][Next]_vars

(* A call, once made, is run to its end by its task.                       *)
FairSpec == Spec /\ \A c \in Client : WF_vars(Step(c))

--------------------------------------------------------------------------------
(* The log of snapshots that the store holds.                              *)
Log == [i \in 1 .. Len(Snapshots) |->
          [id |-> Snapshots[i], files |-> list_files(Snapshots[i]),
           deletes |-> list_equality_deletes(Snapshots[i])]]

Evolutions == IF pointer = 0 THEN <<>> ELSE metadata[pointer].evolutions

Abstract == INSTANCE TableLog WITH
  exists <- pointer # 0, log <- Log, evolutions <- Evolutions

(* commit_snapshot and evolve_schema are atomic: whatever reads, puts,     *)
(* retries and lost answers they are made of, each one extends the log as  *)
(* it is at one moment, with the right sequence numbers, and no snapshot   *)
(* of the log ever lists something else than when it was committed.        *)
ImplementsTableLog == Abstract!LogSpec

(* What a caller is told is true.  After Ok the request is in the metadata *)
(* of the table; after "retries exhausted" or "not found" it never is, so  *)
(* the caller may try again; and the retries of one call never put it into *)
(* the table twice.                                                        *)
InTable(id, m) ==
  \/ \E i \in DOMAIN m.snapshots : m.snapshots[i] = id
  \/ \E i \in DOMAIN m.evolutions : m.evolutions[i] = id

OutcomesTruthful ==
  /\ \A id \in Id :
       /\ outcome[id] = "ok" => \E k \in DOMAIN metadata : InTable(id, metadata[k])
       /\ outcome[id] \in {"conflict", "not_found"} =>
            \A k \in DOMAIN metadata : ~InTable(id, metadata[k])
  /\ \A k \in DOMAIN metadata : \A i, j \in DOMAIN metadata[k].snapshots :
       metadata[k].snapshots[i] = metadata[k].snapshots[j] => i = j

(* "Append/Delete: inherit previous manifests so old files remain visible":*)
(* publishing an Append or a Delete takes no file out of the table.        *)
AppendsKeepFiles ==
  [][\A c \in Client : Publish(c) /\ Inherits(req[c].op) => ListedPaths \subseteq ListedPaths']_vars

(* Every call is answered: the retry loop is bounded.                      *)
CallsReturn == \A c \in Client : pc[c] # "idle" ~> pc[c] = "idle"
================================================================================
