----------------------------- MODULE ChangeFeed -----------------------------
(***************************************************************************)
(* The change feed of a table (ailake-query/src/cdc.rs): what read_changes *)
(* answers about two snapshots, while commits go on and a compaction       *)
(* removes the files it has merged.                                        *)
(*                                                                         *)
(*   history   the snapshots: files, path -> [seq, dv], and the equality   *)
(*             deletes, [path, key, seq]; a snapshot's sequence number is  *)
(*             its place                                                   *)
(*   objects   path -> the rows of the data file and whether it has the    *)
(*             column that evolve adds                                     *)
(*   evolved   the column is in the table's schema                         *)
(*   garbage, removed   merged files a compaction has yet to remove, has   *)
(*             removed                                                     *)
(*   feed      the call of read_changes                                    *)
(*   feedSet   what will be committed and asked, chosen at the start       *)
(*                                                                         *)
(* A row is a key and the file that brought it.  Vectors, which are read   *)
(* with their rows, are left out.                                          *)
(***************************************************************************)
EXTENDS Integers, Sequences, FiniteSets, SequencesExt

CONSTANTS FeedKey, FeedSettings

VARIABLES history, objects, evolved, garbage, removed, feed, feedSet, commits

feedVars == <<history, objects, evolved, garbage, removed, feed, feedSet, commits>>

NoVector == {}
FeedIdle == [pc |-> "idle", from |-> 0, to |-> 0, filled |-> FALSE, plan |-> <<>>,
             raw |-> <<>>, out |-> <<>>, lost |-> 0]

FeedInit ==
    /\ feedSet \in FeedSettings
    /\ history = <<>> /\ objects = <<>> /\ garbage = {} /\ removed = {}
    /\ evolved = FALSE /\ commits = feedSet.commits
    /\ feed = FeedIdle

-----------------------------------------------------------------------------
(* Commits.                                                                *)

CurrentSnap == IF history = <<>> THEN [files |-> <<>>, dels |-> {}] ELSE Last(history)
NewSeq == Len(history) + 1
NewPath == NewSeq   \* at most one data file a commit

Masked(snap, p, row) ==
    \E d \in snap.dels : d.seq > snap.files[p].seq /\ d.key = row.key
SurvivingAt(snap, p) ==
    {i \in DOMAIN objects[p].rows :
        i \notin snap.files[p].dv /\ ~Masked(snap, p, objects[p].rows[i])}

WithPath(f, p, v) == [x \in DOMAIN f \cup {p} |-> IF x = p THEN v ELSE f[x]]
Taken(rows, at) == [i \in 1 .. Cardinality(at) |-> rows[SetToSortSeq(at, <)[i]]]

CommitChange(snap) == history' = Append(history, snap)
NextCommit(op) == commits # <<>> /\ Head(commits) = op /\ commits' = Tail(commits)

(* Append: the last snapshot's manifests are inherited.                    *)
FeedAppend ==
    /\ NextCommit("append")
    /\ \E keys \in feedSet.batches, has \in (IF feedSet.column = "none" THEN {FALSE} ELSE BOOLEAN) :
         objects' = WithPath(objects, NewPath,
                        [rows |-> [i \in DOMAIN keys |-> [key |-> keys[i], from |-> NewPath]],
                         has |-> has])
    /\ CommitChange([CurrentSnap EXCEPT !.files = WithPath(@, NewPath, [seq |-> NewSeq, dv |-> NoVector])])
    /\ UNCHANGED <<evolved, garbage>>

(* delete_where: an equality delete, nothing else.                         *)
FeedDeleteWhere ==
    /\ NextCommit("delete_where")
    /\ \E k \in FeedKey :
         CommitChange([CurrentSnap EXCEPT !.dels = @ \cup {[path |-> NewSeq, key |-> k, seq |-> NewSeq]}])
    /\ UNCHANGED <<objects, evolved, garbage>>

(* A Replace inherits nothing: files are numbered anew, the equality       *)
(* deletes are gone.                                                       *)
Replaced(files) ==
    [files |-> [p \in DOMAIN files |-> [files[p] EXCEPT !.seq = NewSeq]], dels |-> {}]

FeedDeleteRows ==
    /\ NextCommit("delete_rows")
    /\ \E p \in DOMAIN CurrentSnap.files : \E i \in DOMAIN objects[p].rows :
         CommitChange(Replaced([CurrentSnap.files EXCEPT ![p].dv = @ \cup {i}]))
    /\ UNCHANGED <<objects, evolved, garbage>>

(* A compaction merges what survives of some files, of the same columns,   *)
(* into a new one, and removes them afterwards.                            *)
FeedCompact ==
    /\ NextCommit("compact")
    /\ LET snap == CurrentSnap
       IN  \E merged \in SUBSET DOMAIN snap.files \ {{}} :
             LET rowsOf(p) == Taken(objects[p].rows, SurvivingAt(snap, p))
                 rows == FlattenSeq([i \in 1 .. Cardinality(merged) |->
                                       rowsOf(SetToSortSeq(merged, <)[i])])
                 kept == [p \in DOMAIN snap.files \ merged |-> snap.files[p]]
             IN  /\ \A p, q \in merged : objects[p].has = objects[q].has
                 /\ objects' = WithPath(objects, NewPath,
                                   [rows |-> rows, has |-> \E p \in merged : objects[p].has])
                 /\ CommitChange(Replaced(WithPath(kept, NewPath, [seq |-> NewSeq, dv |-> NoVector])))
                 /\ garbage' = garbage \cup merged
    /\ UNCHANGED evolved

FeedEvolve ==
    /\ NextCommit("evolve") /\ evolved' = TRUE
    /\ UNCHANGED <<history, objects, garbage>>

FeedCommit ==
    /\ FeedAppend \/ FeedDeleteWhere \/ FeedDeleteRows \/ FeedCompact \/ FeedEvolve
    /\ UNCHANGED <<removed, feed, feedSet>>

FeedCleanup ==
    /\ \E p \in garbage :
         garbage' = garbage \ {p} /\ removed' = removed \cup {p}
    /\ UNCHANGED <<history, objects, evolved, feed, feedSet, commits>>
-----------------------------------------------------------------------------
(* read_changes.                                                           *)

(* resolve_snapshots: the current snapshot and its parent, unless given.   *)
EndAsked == IF feedSet.end = 0 THEN Len(history) ELSE feedSet.end
StartAsked == IF feedSet.start = 0 THEN EndAsked - 1 ELSE feedSet.start

FilesOf(n) == DOMAIN history[n].files

(* Paths ascend: the order of the manifests.                               *)
Loop(kind, paths) == LET s == SetToSortSeq(paths, <) IN [i \in DOMAIN s |-> <<kind, s[i]>>]

collect_equality_predicates(from, to) ==
    {d \in history[to].dels : \A e \in history[from].dels : e.path # d.path}

(* The loops of read_changes: files only in the end snapshot, files only   *)
(* in the start snapshot, and those in both, for their deletion vectors    *)
(* and, if there are new equality deletes, which are read from their own   *)
(* files first, again for those.                                           *)
PlanOf(from, to) ==
    LET both == FilesOf(from) \cap FilesOf(to)
        dels == collect_equality_predicates(from, to)
    IN  Loop("insert", FilesOf(to) \ both) \o Loop("delete", FilesOf(from) \ both)
        \o Loop("vector", both)
        \o (IF dels = {} THEN <<>>
            ELSE Loop("predicates", {d.path : d \in dels}) \o Loop("equality", both))

(* The metadata is loaded, and pinned; both snapshots must be in it.       *)
FeedBegin ==
    /\ feed.pc = "idle"
    /\ feed' = IF StartAsked \in DOMAIN history /\ EndAsked \in DOMAIN history
               THEN [feed EXCEPT !.pc = "read", !.from = StartAsked, !.to = EndAsked,
                                 !.filled = evolved, !.plan = PlanOf(StartAsked, EndAsked)]
               ELSE [feed EXCEPT !.pc = "failed"]
    /\ UNCHANGED <<history, objects, evolved, garbage, removed, feedSet, commits>>

(* SchemaFiller: a column of the schema that the file lacks gets its       *)
(* default or nulls.  Nulls of a type it has no array for are of another   *)
(* type, which fails.                                                      *)
Fillable(p) == objects[p].has \/ ~feed.filled \/ feedSet.column # "binary"
fill(p) == IF objects[p].has THEN "value"
           ELSE IF feed.filled THEN feedSet.column ELSE "absent"

VectorsOf(kind, p) ==
    {n \in CASE kind = "insert" -> {feed.to} [] kind = "delete" -> {} [] OTHER -> {feed.from, feed.to} :
        history[n].files[p].dv # NoVector}

(* load_dv: a vector that cannot be loaded counts as empty unless strict.  *)
load_dv(n, p, lost) == IF n \in lost THEN {} ELSE history[n].files[p].dv

diff_dv(p, lost) == load_dv(feed.to, p, lost) \ load_dv(feed.from, p, lost)

find_equality_deleted_rows_Wrong(p) ==
    {i \in DOMAIN objects[p].rows :
        \E d \in collect_equality_predicates(feed.from, feed.to) :
            d.seq > history[feed.from].files[p].seq + 1 /\ d.key = objects[p].rows[i].key}

find_equality_deleted_rows(p) ==
    {i \in DOMAIN objects[p].rows :
        \E d \in collect_equality_predicates(feed.from, feed.to) :
            d.seq > history[feed.to].files[p].seq /\ d.key = objects[p].rows[i].key}

(* The rows a file contributes.  The last loop repeats what the vectors    *)
(* deleted.                                                                *)
RowsAt(kind, p, lost) ==
    CASE kind = "insert"   -> DOMAIN objects[p].rows \ load_dv(feed.to, p, lost)
      [] kind = "delete"   -> DOMAIN objects[p].rows
      [] kind = "vector"   -> diff_dv(p, lost)
      [] kind = "equality" -> diff_dv(p, lost) \cup find_equality_deleted_rows(p)

ChangesOf(kind, p, at) ==
    LET rows == Taken(objects[p].rows, at)
    IN  [i \in DOMAIN rows |-> [type |-> IF kind = "insert" THEN "INSERT" ELSE "DELETE",
                                row |-> rows[i], column |-> fill(p)]]

(* A delete file is read; one that cannot be read ends the call, strict or *)
(* not.                                                                    *)
read_equality_delete_values ==
    /\ feed.pc = "read" /\ feed.plan # <<>> /\ Head(feed.plan)[1] = "predicates"
    /\ \/ feed' = [feed EXCEPT !.plan = Tail(@)]
       \/ feedSet.faults > 0 /\ feed' = [feed EXCEPT !.pc = "failed", !.raw = <<>>]
    /\ UNCHANGED <<history, objects, evolved, garbage, removed, feedSet, commits>>

(* A data file is read.  Vectors that are equal spare the reading of it.   *)
FeedRead ==
    /\ feed.pc = "read" /\ feed.plan # <<>> /\ Head(feed.plan)[1] # "predicates"
    /\ LET kind == Head(feed.plan)[1]
           p == Head(feed.plan)[2]
       IN  \E lost \in {{}} \cup {{n} : n \in IF feed.lost < feedSet.faults THEN VectorsOf(kind, p) ELSE {}} :
             LET spared == kind = "vector" /\ load_dv(feed.from, p, lost) = load_dv(feed.to, p, lost)
             IN  feed' =
                   IF (lost # {} /\ feedSet.strict) \/ (~spared /\ (p \in removed \/ ~Fillable(p)))
                   THEN [feed EXCEPT !.pc = "failed", !.raw = <<>>]
                   ELSE [feed EXCEPT !.plan = Tail(@), !.lost = @ + Cardinality(lost),
                           !.raw = @ \o IF spared THEN <<>> ELSE ChangesOf(kind, p, RowsAt(kind, p, lost))]
    /\ UNCHANGED <<history, objects, evolved, garbage, removed, feedSet, commits>>

-----------------------------------------------------------------------------
(* The answer.                                                             *)

IndexesOf(raw, type, k) ==
    SetToSortSeq({i \in DOMAIN raw : raw[i].type = type /\ raw[i].row.key = k}, <)

(* coalesce_updates, first pass: the n-th delete of a key goes with its    *)
(* n-th insert, key by key in the order of a hash map.                     *)
PairsOf(raw, keys) ==
    FlattenSeq([j \in DOMAIN keys |->
        LET dels == IndexesOf(raw, "DELETE", keys[j])
            inss == IndexesOf(raw, "INSERT", keys[j])
            n == IF Len(dels) < Len(inss) THEN Len(dels) ELSE Len(inss)
        IN  [i \in 1 .. n |-> <<dels[i], inss[i]>>]])

(* Second pass: unpaired records stay; a delete whose pair is the next one *)
(* becomes an update; other paired records are skipped.                    *)
coalesce_updates(raw, pairs) ==
    LET used == UNION {{pairs[j][1], pairs[j][2]} : j \in DOMAIN pairs}
        Emit[i \in Nat, next \in Nat] ==
          IF i > Len(raw) THEN <<>>
          ELSE IF i \notin used THEN <<raw[i]>> \o Emit[i + 1, next]
          ELSE IF next <= Len(pairs) /\ pairs[next][1] = i
               THEN <<[raw[i] EXCEPT !.type = "UPDATE_BEFORE"],
                      [raw[pairs[next][2]] EXCEPT !.type = "UPDATE_AFTER"]>> \o Emit[i + 1, next + 1]
          ELSE Emit[i + 1, next]
    IN  Emit[1, 1]

normalize_to_schema_Wrong(records) == records

(* Records without a column that others have get nulls.  There is no array *)
(* of nulls for every type: the batch is refused then.                     *)
Refused(records) ==
    /\ feedSet.column = "binary"
    /\ \E i, j \in DOMAIN records : records[i].column = "absent" /\ records[j].column # "absent"
normalize_to_schema(records) ==
    IF \A i \in DOMAIN records : records[i].column = "absent" THEN records
    ELSE [i \in DOMAIN records |->
            IF records[i].column = "absent" THEN [records[i] EXCEPT !.column = "null"] ELSE records[i]]

FeedFinish ==
    /\ feed.pc = "read" /\ feed.plan = <<>>
    /\ \E keys \in SetToSeqs({feed.raw[i].row.key : i \in DOMAIN feed.raw}) :
         LET records == IF feedSet.coalesce THEN coalesce_updates(feed.raw, PairsOf(feed.raw, keys))
                        ELSE feed.raw
         IN  feed' = IF Refused(records) THEN [feed EXCEPT !.pc = "failed", !.raw = <<>>]
                     ELSE [feed EXCEPT !.pc = "done", !.out = normalize_to_schema(records)]
    /\ UNCHANGED <<history, objects, evolved, garbage, removed, feedSet, commits>>

FeedNext == FeedCommit \/ FeedCleanup \/ FeedBegin \/ FeedRead \/ FeedFinish
            \/ read_equality_delete_values

-----------------------------------------------------------------------------
(* Properties.                                                             *)

RowsIn(n) ==
    UNION {{objects[p].rows[i] : i \in SurvivingAt(history[n], p)} : p \in FilesOf(n)}

Replay(rows, records) ==
    LET rowsOf(types) == {records[i].row : i \in {j \in DOMAIN records : records[j].type \in types}}
    IN  (rows \ rowsOf({"DELETE", "UPDATE_BEFORE"})) \cup rowsOf({"INSERT", "UPDATE_AFTER"})

(* The call's parts have their types, and all records of an answer have    *)
(* the same columns: union_schema and the filler leave no hole, whatever   *)
(* mixture of files the changes come from.                                 *)
FeedTypeOK ==
    /\ feed.pc \in {"idle", "read", "done", "failed"}
    /\ feed.from \in 0 .. Len(history) /\ feed.to \in 0 .. Len(history)
    /\ \A n \in DOMAIN history : FilesOf(n) \subseteq DOMAIN objects
    /\ \A i, j \in DOMAIN feed.out :
         feed.out[i].column = "absent" => feed.out[j].column = "absent"

(* A Replace that dropped an equality delete lets rows of a kept file come *)
(* back.                                                                   *)
Revived ==
    \E p \in FilesOf(feed.from) \cap FilesOf(feed.to) :
        ~(SurvivingAt(history[feed.to], p) \subseteq SurvivingAt(history[feed.from], p))

(* The rows of files added after the start that an equality delete of the  *)
(* end snapshot masks.                                                     *)
MaskedSince ==
    UNION {{objects[p].rows[i] :
              i \in {n \in DOMAIN objects[p].rows \ history[feed.to].files[p].dv :
                       Masked(history[feed.to], p, objects[p].rows[n])}} :
            p \in FilesOf(feed.to) \ FilesOf(feed.from)}

(* Applied to the rows of the start snapshot, the changes give the rows of *)
(* the end snapshot, through deletion vectors, equality deletes and        *)
(* compactions, and whatever is committed and removed in the meantime:     *)
(* read_changes fails or leads there.  Three things stand against it.  A   *)
(* file added after the start is inserted but for its deletion vector, so  *)
(* that the consumer also gets the rows of it that an equality delete has  *)
(* removed since, and only these.  Rows of a kept file that come back with *)
(* a dropped equality delete are in no record: such a pair of snapshots is *)
(* left out here.  And a vector that could not be loaded is forgiven if    *)
(* strict_deletes is off.                                                  *)
FeedReplays ==
    feed.pc = "done" /\ feed.lost = 0 /\ ~Revived =>
        Replay(RowsIn(feed.from), feed.raw) = RowsIn(feed.to) \cup MaskedSince

StreamOf(records, keys) == SelectSeq(records, LAMBDA r : r.row.key \in keys)
Updated == {k \in FeedKey : IndexesOf(feed.raw, "DELETE", k) # <<>>
                         /\ IndexesOf(feed.raw, "INSERT", k) # <<>>}

(* coalesce_updates: an UPDATE_BEFORE is followed at once by the           *)
(* UPDATE_AFTER of its key, records of keys that were not both deleted and *)
(* inserted are passed on as they came, and nothing is lost where only one *)
(* key was updated.  With more keys the code does lose pairs: see          *)
(* PairsEmitted.                                                           *)
UpdatesPaired ==
    feed.pc = "done" /\ feedSet.coalesce =>
        /\ \A i \in DOMAIN feed.out :
             /\ feed.out[i].type = "UPDATE_BEFORE" =>
                  /\ i < Len(feed.out) /\ feed.out[i + 1].type = "UPDATE_AFTER"
                  /\ feed.out[i + 1].row.key = feed.out[i].row.key
             /\ feed.out[i].type = "UPDATE_AFTER" => i > 1 /\ feed.out[i - 1].type = "UPDATE_BEFORE"
        /\ StreamOf(feed.out, FeedKey \ Updated)
             = StreamOf(normalize_to_schema(feed.raw), FeedKey \ Updated)
        /\ Cardinality(Updated) = 1 => Len(feed.out) = Len(feed.raw)

(* Every pair of a delete and an insert of one key is emitted as an update *)
(* (docs/specs/CDC.md, Update coalescing).  It is not: the pairs are in    *)
(* the order of a hash map, the records are gone through in their own, and *)
(* a pair whose delete comes before that of the pair awaited is skipped.   *)
PairsEmitted ==
    feed.pc = "done" /\ feedSet.coalesce => Len(feed.out) = Len(feed.raw)

(* The records lead from one snapshot to the other, up to what FeedReplays *)
(* names, and pairing takes none of them away where one key was updated.   *)
FeedExact == FeedReplays /\ UpdatesPaired
=============================================================================
