--------------------------- MODULE TableMaintenance ---------------------------
(***************************************************************************)
(* What the operations of ailake-query do to the rows of a table: writes,  *)
(* deletion vectors, equality deletes, the two compactions, memory decay,  *)
(* backfill, migration, the index patch, and searches.  Every operation    *)
(* reads the list of files, works on it, and commits a snapshot.           *)
(*                                                                         *)
(*   files     the current snapshot: a set of entries                      *)
(*             [path, dv, batches, first, seq]                             *)
(*   eqdel     its equality deletes, [row, seq]                            *)
(*   last_seq, next_row_id   last sequence number, next row id             *)
(*   content, stored, paths   the rows in each data file; the files that   *)
(*             exist; how many were ever put, each under a new name        *)
(*   step, op, listedAt, list, chosen, retire, row   per client: where it  *)
(*             is, what it does, the sequence number of the snapshot it    *)
(*             has listed, the entries it will commit, the ones it has yet *)
(*             to replace, the files it takes out of the table, its row    *)
(*   inserted, deleted   history: rows whose insertion, or deletion, was   *)
(*             committed                                                   *)
(*   overtaken history: a Replace was committed over a snapshot that its   *)
(*             client had not listed, or in place of entries that had been *)
(*             changed or replaced meanwhile                               *)
(*   undone    history: a Replace dropped equality deletes                 *)
(*   workload  who does what, chosen at the start                          *)
(*                                                                         *)
(* A row stands for its key: a batch holds one row, and its batch_id is    *)
(* the row.  A deletion vector is the set of rows at its positions.        *)
(* commit_snapshot is one step here; module OccCatalog shows how it comes  *)
(* about, and that a retried Replace still carries the list its caller     *)
(* made.  Table format version 3; catalogs that retire files physically.   *)
(*                                                                         *)
(* Definitions called X_Wrong are seeded faults: X with a plausible bug,   *)
(* to show that the properties notice it.  No specification uses them.     *)
(***************************************************************************)
EXTENDS Integers, FiniteSets, FiniteSetsExt

CONSTANTS Worker, Row, NoRow, Workload,
          MaxPaths, MaxCrashes   \* bounds on data files and on crashes

Operation == {"write", "compact", "serve_compact", "delete_rows", "delete_where",
              "decay", "backfill", "migrate", "patch", "search"}

(* A workload: its clients, those that run more than writes, equality      *)
(* deletes and searches, their operations, whether a write is retried with *)
(* its batch_id, and how many calls and failed reads there are.            *)
ASSUME MaintenanceAssumption ==
  /\ NoRow \notin Row
  /\ \A w \in Workload :
       /\ w.maintainers \subseteq w.clients /\ w.clients \subseteq Worker
       /\ w.ops \subseteq Operation /\ w.retries \in BOOLEAN
       /\ w.calls \in Nat /\ w.faults \in Nat
  /\ MaxPaths \in Nat /\ MaxCrashes \in Nat

VARIABLES workload, files, eqdel, last_seq, next_row_id, content, stored, paths,
          step, op, listedAt, list, chosen, retire, row, inserted, deleted, overtaken,
          undone, ops, dvFaults, crashes

table == <<files, eqdel, last_seq, next_row_id>>
storage == <<content, stored, paths>>
local == <<op, listedAt, list, chosen, retire, row>>
history == <<inserted, deleted, overtaken, undone>>
bounds == <<workload, ops, dvFaults, crashes>>
tableVars == <<table, storage, step, local, history, bounds>>

Path == 1 .. MaxPaths
NoFirst == -1
NewEntry(p, dv, batches, first) ==
  [path |-> p, dv |-> dv, batches |-> batches, first |-> first, seq |-> 0]
PathsOf(entries) == {e.path : e \in entries}

TableInit ==
  /\ files = {} /\ eqdel = {} /\ last_seq = 0 /\ next_row_id = 0
  /\ content = [p \in Path |-> {}] /\ stored = {} /\ paths = 0
  /\ workload \in Workload
  /\ step = [c \in Worker |-> "idle"] /\ op = [c \in Worker |-> "search"]
  /\ listedAt = [c \in Worker |-> 0]
  /\ list = [c \in Worker |-> {}] /\ chosen = [c \in Worker |-> {}]
  /\ retire = [c \in Worker |-> {}] /\ row = [c \in Worker |-> NoRow]
  /\ inserted = {} /\ deleted = {} /\ overtaken = FALSE /\ undone = FALSE
  /\ ops = 0 /\ dvFaults = 0 /\ crashes = 0

--------------------------------------------------------------------------------
(* What a scan of entry e returns: not the rows of its deletion vector,    *)
(* nor those of an equality delete with a larger sequence number.          *)
Survivors(e) == content[e.path] \ e.dv
Masked_Wrong(e) == {d.row : d \in eqdel}
Masked(e) == {d.row : d \in {x \in eqdel : x.seq > e.seq}}
Scan(e) == Survivors(e) \ Masked(e)
Visible == UNION {Scan(e) : e \in files}

record_count(e) == Cardinality(content[e.path])
RowsIn(entries) == UNION {{e.path} \X content[e.path] : e \in entries}

(* build_commit numbers the rows of every entry without a first_row_id.    *)
NewRows(entries) == Cardinality(RowsIn({e \in entries : e.first = NoFirst}))
first_row_id(e, entries) ==
  IF e.first # NoFirst THEN e.first
  ELSE next_row_id + NewRows({f \in entries : f.path < e.path})
Numbered(entries) ==
  {[e EXCEPT !.first = first_row_id(e, entries), !.seq = last_seq + 1] : e \in entries}

(* Append inherits the manifests of the last snapshot, delete manifests    *)
(* included; Replace and Overwrite inherit nothing.                        *)
CommitAppend(entries) ==
  /\ files' = files \cup Numbered(entries)
  /\ next_row_id' = next_row_id + NewRows(entries)
  /\ last_seq' = last_seq + 1
  /\ UNCHANGED eqdel
Current(e) == \E f \in files : f.path = e.path /\ f.dv = e.dv
CommitReplace(c) ==
  /\ files' = Numbered(list[c])
  /\ next_row_id' = next_row_id + NewRows(list[c])
  /\ last_seq' = last_seq + 1
  /\ eqdel' = {}
  /\ overtaken' = \/ overtaken \/ listedAt[c] # last_seq
                  \/ op[c] = "compact" /\ \E e \in chosen[c] : ~Current(e)
  /\ undone' = (undone \/ eqdel # {})

--------------------------------------------------------------------------------
MoveTo(c, label) == step' = [step EXCEPT ![c] = label]
Set(var, c, value) == [var EXCEPT ![c] = value]

(* A call starts: its list of files, the entries it is about, its row.     *)
Start(c, o, entries, targets, r, label) ==
  /\ c \in workload.clients /\ o \in workload.ops
  /\ c \in workload.maintainers \/ o \in {"write", "delete_where", "search"}
  /\ step[c] = "idle" /\ ops < workload.calls
  /\ ops' = ops + 1
  /\ op' = Set(op, c, o) /\ listedAt' = Set(listedAt, c, last_seq) /\ list' = Set(list, c, entries)
  /\ chosen' = Set(chosen, c, targets) /\ retire' = Set(retire, c, PathsOf(targets))
  /\ row' = Set(row, c, r)
  /\ MoveTo(c, label)
  /\ UNCHANGED <<table, storage, history, workload, dvFaults, crashes>>

End(c) ==
  /\ MoveTo(c, "idle")
  /\ op' = Set(op, c, "search") /\ listedAt' = Set(listedAt, c, 0) /\ list' = Set(list, c, {})
  /\ chosen' = Set(chosen, c, {}) /\ retire' = Set(retire, c, {})
  /\ row' = Set(row, c, NoRow)

(* write_batch_idempotent looks for its batch_id first.                    *)
BatchKnown(r) == \E e \in files : r \in e.batches

write_batch_idempotent(c, r) ==
  /\ workload.retries \/ (r \notin inserted /\ \A d \in Worker : row[d] # r)
  /\ ~BatchKnown(r)
  /\ Start(c, "write", {}, {}, r, "put")

(* The planner chooses among the listed files; the compaction of the       *)
(* server carries on with that list.                                       *)
compact(c, S) == Start(c, "compact", {}, S, NoRow, "put")
serve_compact(c, S) == Start(c, "serve_compact", files \ S, S, NoRow, "put")

(* delete_rows takes the target's entry out of the list, to put it back    *)
(* with a larger deletion vector.                                          *)
delete_rows_Wrong(c, e, r) == Start(c, "delete_rows", files, {e}, r, "put_dv")
delete_rows(c, e, r) == Start(c, "delete_rows", files \ {e}, {e}, r, "put_dv")

(* decay and migrate (DualWriteThenCutover) rewrite every file and commit  *)
(* once; backfill (and migrate's AtomicReplace) commits after every file.  *)
rewrite(c, o) == files # {} /\ Start(c, o, {}, files, NoRow, "rewrite")
backfill(c) == files # {} /\ Start(c, "backfill", files, files, NoRow, "rewrite")

(* delete_where commits an equality delete and no data file.               *)
delete_where(c, r) == Start(c, "delete_where", {}, {}, r, "commit")

(* The index patch commits the files it listed.                            *)
patch(c) == files # {} /\ Start(c, "patch", files, {}, NoRow, "commit")
search(c) == files # {} /\ Start(c, "search", files, {}, NoRow, "read")

--------------------------------------------------------------------------------
(* A new data file.                                                        *)
PutNew(rows) ==
  /\ paths < MaxPaths
  /\ paths' = paths + 1
  /\ content' = [content EXCEPT ![paths + 1] = rows]
  /\ stored' = stored \cup {paths + 1}

PutBatch(c) ==
  /\ step[c] = "put" /\ op[c] = "write"
  /\ PutNew({row[c]})
  /\ list' = Set(list, c, {NewEntry(paths + 1, {}, {row[c]}, NoFirst)})
  /\ MoveTo(c, "commit")
  /\ UNCHANGED <<table, op, listedAt, chosen, retire, row, history, bounds>>

(* The merged file of a compaction: the surviving rows and the batch ids   *)
(* of its sources.  It is numbered from the smallest row id of them or,    *)
(* when compact_incremental extends the index of a dominant file, from     *)
(* that file's.                                                            *)
merge_batch_ids_Wrong(entries) == {}
merge_batch_ids(entries) == UNION {e.batches : e \in entries}

Dominant(e, S) ==
  /\ e.dv = {} /\ \A f \in S : record_count(f) <= record_count(e)
  /\ 5 * record_count(e) >= 2 * Cardinality(RowsIn(S))

source_first_row_id(c) ==
  {Min({e.first : e \in chosen[c]})} \cup
  {e.first : e \in {f \in chosen[c] : op[c] = "compact" /\ Dominant(f, chosen[c])}}

PutMerged(c) ==
  /\ step[c] = "put" /\ op[c] \in {"compact", "serve_compact"}
  /\ IF PathsOf(chosen[c]) \subseteq stored
     THEN /\ PutNew(UNION {Survivors(e) : e \in chosen[c]})
          /\ \E first \in source_first_row_id(c) :
               list' = Set(list, c, list[c] \cup
                         {NewEntry(paths + 1, {}, merge_batch_ids(chosen[c]), first)})
          /\ MoveTo(c, IF op[c] = "compact" THEN "relist" ELSE "commit")
          /\ UNCHANGED <<op, listedAt, chosen, retire, row>>
     ELSE End(c) /\ UNCHANGED storage
  /\ UNCHANGED <<table, history, bounds>>

build_replace_file_list(c) == {e \in files : e.path \notin retire[c]} \cup list[c]

Relist(c) ==
  /\ step[c] = "relist"
  /\ list' = Set(list, c, build_replace_file_list(c)) /\ listedAt' = Set(listedAt, c, last_seq)
  /\ MoveTo(c, "commit")
  /\ UNCHANGED <<table, storage, op, chosen, retire, row, history, bounds>>

(* The vector that is there is read and extended; an error of the read     *)
(* counts as an empty vector.                                              *)
bitmap(e, r) == e.dv \cup {r}

PutVector(c) ==
  /\ step[c] = "put_dv"
  /\ \E e \in chosen[c] :
       \/ /\ list' = Set(list, c, list[c] \cup {[e EXCEPT !.dv = bitmap(e, row[c])]})
          /\ UNCHANGED dvFaults
       \/ /\ e.dv # {} /\ dvFaults < workload.faults
          /\ dvFaults' = dvFaults + 1
          /\ list' = Set(list, c, list[c] \cup {[e EXCEPT !.dv = {row[c]}]})
  /\ MoveTo(c, "commit")
  /\ UNCHANGED <<table, storage, op, listedAt, chosen, retire, row, history, workload, ops, crashes>>

(* One file rewritten.  Decay keeps the rows and the deletion vector, the  *)
(* others drop the deleted rows; none keeps the batch ids or the row ids.  *)
(* A backfill skips a file that has the new column, and decay one it       *)
(* cannot parse or without last_accessed_at: its entry is carried over.    *)
(* A decay that rewrote nothing does not commit.                           *)
KeepsRows(c) == op[c] = "decay"
Rewritten(c, e) == NewEntry(paths + 1, IF KeepsRows(c) THEN e.dv ELSE {}, {}, NoFirst)

Skip(c, e, left) ==
  /\ op[c] \in {"backfill", "decay"}
  /\ IF left # {} \/ (op[c] = "decay" /\ retire[c] # {e.path})
     THEN /\ list' = Set(list, c, list[c] \cup {e}) /\ chosen' = Set(chosen, c, left)
          /\ retire' = Set(retire, c, retire[c] \ {e.path})
          /\ MoveTo(c, IF left = {} THEN "commit" ELSE "rewrite")
          /\ UNCHANGED <<op, listedAt, row>>
     ELSE End(c)
  /\ UNCHANGED storage

Rewrite(c) ==
  /\ step[c] = "rewrite"
  /\ LET e == CHOOSE x \in chosen[c] : \A y \in chosen[c] : x.path <= y.path
         left == chosen[c] \ {e}
     IN  \/ /\ e.path \in stored
            /\ PutNew(IF KeepsRows(c) THEN content[e.path] ELSE Survivors(e))
            /\ list' = Set(list, c, (list[c] \ {e}) \cup {Rewritten(c, e)})
            /\ chosen' = Set(chosen, c, left)
            /\ MoveTo(c, IF op[c] = "backfill" \/ left = {} THEN "commit" ELSE "rewrite")
            /\ UNCHANGED <<op, listedAt, retire, row>>
         \/ e.path \in stored /\ Skip(c, e, left)
         \/ e.path \notin stored /\ End(c) /\ UNCHANGED storage
  /\ UNCHANGED <<table, history, bounds>>

--------------------------------------------------------------------------------
(* commit_snapshot, and what follows it.                                   *)
CommitWrite(c) ==
  /\ step[c] = "commit" /\ op[c] = "write"
  /\ CommitAppend(list[c])
  /\ inserted' = inserted \cup {row[c]}
  /\ End(c)
  /\ UNCHANGED <<storage, deleted, overtaken, undone, bounds>>

CommitDelete(c) ==
  /\ step[c] = "commit" /\ op[c] = "delete_where"
  /\ eqdel' = eqdel \cup {[row |-> row[c], seq |-> last_seq + 1]}
  /\ last_seq' = last_seq + 1
  /\ deleted' = deleted \cup ({row[c]} \cap inserted)
  /\ End(c)
  /\ UNCHANGED <<files, next_row_id, storage, inserted, overtaken, undone, bounds>>

CommitVector(c) ==
  /\ step[c] = "commit" /\ op[c] = "delete_rows"
  /\ CommitReplace(c)
  /\ deleted' = deleted \cup {row[c]}
  /\ End(c)
  /\ UNCHANGED <<storage, inserted, bounds>>

(* compact and decay go on to delete the files they replaced; a backfill   *)
(* goes on with its next file.                                             *)
CommitRewrite(c) ==
  /\ step[c] = "commit"
  /\ op[c] \in {"compact", "serve_compact", "decay", "backfill", "migrate", "patch"}
  /\ CommitReplace(c)
  /\ \/ op[c] \in {"compact", "decay"} /\ MoveTo(c, "retire") /\ UNCHANGED local
     \/ /\ op[c] = "backfill" /\ chosen[c] # {} /\ MoveTo(c, "rewrite")
        /\ listedAt' = Set(listedAt, c, last_seq + 1) /\ UNCHANGED <<op, list, chosen, retire, row>>
     \/ op[c] = "backfill" /\ chosen[c] = {} /\ End(c)
     \/ op[c] \in {"serve_compact", "migrate", "patch"} /\ End(c)
  /\ UNCHANGED <<storage, inserted, deleted, bounds>>

delete_old_files_Wrong(c) ==
  /\ step[c] = "retire"
  /\ stored' = stored \ PathsOf(list[c])
  /\ End(c)
  /\ UNCHANGED <<table, content, paths, history, bounds>>
delete_old_files(c) ==
  /\ step[c] = "retire"
  /\ \/ \E p \in retire[c] :
          /\ stored' = stored \ {p}
          /\ retire' = Set(retire, c, retire[c] \ {p})
          /\ UNCHANGED <<step, op, listedAt, list, chosen, row>>
     \/ retire[c] = {} /\ End(c) /\ UNCHANGED stored
  /\ UNCHANGED <<table, content, paths, history, bounds>>

(* A search reads the files of the snapshot it planned from.               *)
ReadFile(c) ==
  /\ step[c] = "read"
  /\ PathsOf(list[c]) \subseteq stored
  /\ LET e == CHOOSE x \in list[c] : \A y \in list[c] : x.path <= y.path
     IN  IF list[c] = {e} THEN End(c)
         ELSE list' = Set(list, c, list[c] \ {e}) /\ UNCHANGED <<step, op, listedAt, chosen, retire, row>>
  /\ UNCHANGED <<table, storage, history, bounds>>

(* The client's process stops.                                             *)
WorkerCrash(c) ==
  /\ step[c] # "idle" /\ crashes < MaxCrashes
  /\ crashes' = crashes + 1
  /\ End(c)
  /\ UNCHANGED <<table, storage, history, workload, ops, dvFaults>>

TableNext ==
  \E c \in Worker :
    \/ \E r \in Row : write_batch_idempotent(c, r) \/ delete_where(c, r)
    \/ \E S \in SUBSET files : Cardinality(S) > 1 /\ (compact(c, S) \/ serve_compact(c, S))
    \/ \E e \in files : \E r \in content[e.path] : delete_rows(c, e, r)
    \/ rewrite(c, "decay") \/ rewrite(c, "migrate") \/ backfill(c) \/ patch(c) \/ search(c)
    \/ PutBatch(c) \/ PutMerged(c) \/ Relist(c) \/ PutVector(c) \/ Rewrite(c)
    \/ CommitWrite(c) \/ CommitDelete(c) \/ CommitVector(c) \/ CommitRewrite(c)
    \/ delete_old_files(c) \/ ReadFile(c) \/ WorkerCrash(c)

TableSpec == TableInit /\ [][TableNext]_tableVars

--------------------------------------------------------------------------------
Entries == [path : Path, dv : SUBSET Row, batches : SUBSET Row, first : Nat \cup {NoFirst}, seq : Nat]

(* The shape of the state; every entry of a snapshot has been numbered by  *)
(* build_commit, and no two name the same file.                            *)
TableTypeOK ==
  /\ files \subseteq Entries
  /\ \A e \in files : e.first # NoFirst /\ e.seq \in 1 .. last_seq
  /\ Cardinality(PathsOf(files)) = Cardinality(files)
  /\ eqdel \subseteq [row : Row, seq : 1 .. last_seq]
  /\ last_seq \in Nat /\ next_row_id \in Nat
  /\ content \in [Path -> SUBSET Row] /\ stored \subseteq 1 .. paths /\ paths \in 0 .. MaxPaths
  /\ step \in [Worker -> {"idle", "put", "put_dv", "rewrite", "relist", "commit", "retire", "read"}]
  /\ workload \in Workload
  /\ op \in [Worker -> Operation] /\ listedAt \in [Worker -> 0 .. last_seq]
  /\ \A c \in Worker : list[c] \subseteq Entries /\ chosen[c] \subseteq Entries
  /\ retire \in [Worker -> SUBSET Path] /\ row \in [Worker -> Row \cup {NoRow}]
  /\ inserted \subseteq Row /\ deleted \subseteq Row /\ overtaken \in BOOLEAN
  /\ undone \in BOOLEAN

(* The rows of deletions that were committed stay out of the table.        *)
DeletedStayDeleted == Visible \cap deleted = {}

(* Nobody else's rewrite came in between: one client at most runs more     *)
(* than writes, equality deletes and searches, or no Replace has been      *)
(* committed over what its client had not seen.                            *)
Guarded == Cardinality(workload.maintainers) <= 1 \/ ~overtaken

(* The table holds the rows whose insertion was committed and whose        *)
(* deletion was not: no rewrite (compaction, decay, backfill, migration,   *)
(* index patch) loses a row or brings one back, until one of them commits  *)
(* a Replace over a snapshot it has not listed, or in place of files that  *)
(* another client has changed since the compaction read them.  One client  *)
(* that deletes and rewrites keeps its deleted rows out even when others'  *)
(* writes are overtaken.  Two that do not wait for each other give no such *)
(* promise: rows deleted by delete_rows while another client compacts      *)
(* their file come back (CompactionExecutor::run reads the vectors first   *)
(* and checks nothing when it commits), as do, with any Replace, the rows  *)
(* of equality deletes.                                                    *)
RowsVisible ==
  /\ Guarded /\ ~undone => DeletedStayDeleted
  /\ ~overtaken /\ ~undone => Visible = inserted \ deleted

(* Every file the current snapshot names is in the store, whenever the     *)
(* operation that wrote or retires files stops (compaction and decay       *)
(* delete the old files only after their commit), and whatever two         *)
(* maintainers do until a Replace of one overtakes the other's.            *)
NoDangling == Guarded => PathsOf(files) \subseteq stored

(* The row ids of two files of a snapshot do not overlap (first_row_id ..  *)
(* first_row_id + record_count - 1, from build_commit), as long as no      *)
(* compaction reuses the first_row_id of one of its sources.               *)
RowIdsDisjoint ==
  workload.ops \cap {"compact", "serve_compact"} = {} =>
    \A e, f \in files :
      e.path # f.path => \/ e.first + record_count(e) <= f.first
                         \/ f.first + record_count(f) <= e.first

(* No row is returned by two files: a write_batch_idempotent retried after *)
(* the first call has ended is not inserted again, and a rewritten file    *)
(* and its source are not both in the table, until one maintainer's        *)
(* Replace overtakes another's; and no two rows have the same id.          *)
RowsOnce ==
  Guarded => /\ \A e, f \in files : e.path # f.path => Scan(e) \cap Scan(f) = {}
             /\ RowIdsDisjoint
================================================================================
