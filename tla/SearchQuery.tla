------------------------------ MODULE SearchQuery ------------------------------
(***************************************************************************)
(* Queries over a table that changes while they run: vector search (plain, *)
(* hybrid, or followed by fetch_rows), text search and a SearchSession.    *)
(* A query reads the file list, the metadata and the equality deletes one  *)
(* after the other (a session the metadata last), then searches the files, *)
(* several at a time and within a budget all queries of the process share. *)
(*                                                                         *)
(*   log       the snapshots: file entries and equality deletes of each    *)
(*   rowsOf    the rows in a data file; indexed, stored: the files with an *)
(*             index section, the files that are in the store              *)
(*   query     per query: stage, files to search in order, the snapshots   *)
(*             of the file list and of the deletes, the file whose outcome *)
(*             is folded next, the results                                 *)
(*   task      per query and file: "none", "wait", "run", "done", "error", *)
(*             and the rows found                                          *)
(*   free, waiting   the semaphore: units left, and who waits, in order    *)
(*   asked     the setting: what is queried and by whom, the files the     *)
(*             pruners drop and those with a full-text section, what       *)
(*             changes, whether reads may fail, and whether an index finds *)
(*             every row when as many are asked for                        *)
(*                                                                         *)
(* A row is <<file it was written in, key>>; its distance from the query   *)
(* is Distance(row).  How the pruners choose is in module Ranking; which   *)
(* candidates an approximate index returns is left open.                   *)
(*                                                                         *)
(* Definitions called X_Wrong are seeded faults: X with a plausible bug,   *)
(* to show that the properties notice it.  No specification uses them.     *)
(***************************************************************************)
EXTENDS Integers, Sequences, FiniteSets, FiniteSetsExt, Functions

CONSTANTS Query, Asked,
          FileSearchQuantum, FileSearchBudget,  \* bytes per unit, units
          MaxConcurrentFileSearches,
          MaxFileId, MaxChanges, MaxReadFaults  \* bounds

ASSUME SearchAssumption ==
  /\ FileSearchQuantum \in Nat \ {0} /\ FileSearchBudget \in Nat \ {0}
  /\ MaxConcurrentFileSearches \in Nat \ {0} /\ MaxFileId \in Nat /\ MaxFileId >= 3
  /\ MaxChanges \in Nat /\ MaxReadFaults \in Nat
  /\ \A a \in Asked : /\ a.kind \in {"vector", "hybrid", "data", "text", "session"}
                      /\ a.strict \in BOOLEAN /\ a.k \in Nat \ {0} /\ a.faulty \in BOOLEAN
                      /\ a.queries \subseteq Query /\ a.pruned \subseteq 1 .. MaxFileId
                      /\ a.fts \subseteq 1 .. MaxFileId /\ a.complete \in BOOLEAN
                      /\ \A i \in 1 .. 3 : a.sizes[i] \in Nat

VARIABLES log, rowsOf, indexed, stored, query, task, free, waiting, asked, changes, readFaults

tableState == <<log, rowsOf, indexed, stored, changes>>
budget == <<free, waiting>>
searchVars == <<tableState, query, task, budget, asked, readFaults>>

FileId == 1 .. MaxFileId
Row == FileId \X {1, 2}
Distance(r) == 10 * r[2] + r[1]

Entry(id, size, status, foreign, seq) ==
  [id |-> id, size |-> size, status |-> status, foreign |-> foreign, dv |-> {}, seq |-> seq]
NoQuery == [stage |-> "idle", files |-> <<>>, at |-> 0, eqs |-> {}, deletesAt |-> 0,
            next |-> 1, results |-> {}]
NoTask == [state |-> "none", found |-> {}]

current == log[Len(log)]

(* The deletes that hold for a row of a file: the bits of its deletion     *)
(* vector, and the equality deletes written after it.                      *)
should_delete_row(eqs, r, seq) == \E d \in eqs : d.key = r[2] /\ d.seq > seq
LiveIn(snapshot) ==
  UNION {{r \in rowsOf[f.id] : r \notin f.dv /\ ~should_delete_row(snapshot.eqs, r, f.seq)} :
           f \in snapshot.files}

SearchInit ==
  /\ asked \in Asked
  /\ log = <<[files |-> {Entry(1, asked.sizes[1], "Ready", FALSE, 1),
                         Entry(2, asked.sizes[2], "Indexing", FALSE, 1),
                         Entry(3, asked.sizes[3], "Ready", TRUE, 1)}, eqs |-> {}]>>
  /\ rowsOf = [id \in FileId |-> IF id <= 3 THEN {id} \X {1, 2} ELSE {}]
  /\ indexed = {1} /\ stored = 1 .. 3
  /\ query = [q \in Query |-> NoQuery] /\ task = [q \in Query |-> <<>>]
  /\ free = FileSearchBudget /\ waiting = <<>> /\ changes = 0 /\ readFaults = 0

--------------------------------------------------------------------------------
(* What others do to the table meanwhile.                                  *)
Change(name) ==
  /\ name \in asked.changes /\ changes < MaxChanges /\ changes' = changes + 1
  /\ UNCHANGED <<query, task, budget, asked, readFaults>>
Put(files, eqs) == log' = Append(log, [files |-> files, eqs |-> eqs])
Patched(f, g) == (current.files \ {f}) \cup {g}

DeleteRows ==
  /\ Change("delete_rows")
  /\ \E f \in current.files : \E r \in rowsOf[f.id] \ f.dv :
       Put(Patched(f, [f EXCEPT !.dv = @ \cup {r}]), current.eqs)
  /\ UNCHANGED <<rowsOf, indexed, stored>>

DeleteWhere ==
  /\ Change("delete_where")
  /\ \E k \in {1, 2} : Put(current.files, current.eqs \cup {[key |-> k, seq |-> Len(log) + 1]})
  /\ UNCHANGED <<rowsOf, indexed, stored>>

(* A background build: the file with its index, then the entry; or the     *)
(* entry of a build that has failed for good.                              *)
IndexBuilt ==
  /\ Change("index")
  /\ \E f \in current.files :
       /\ f.status = "Indexing"
       /\ \/ /\ f.id \notin indexed /\ indexed' = indexed \cup {f.id} /\ UNCHANGED log
          \/ /\ f.id \in indexed /\ Put(Patched(f, [f EXCEPT !.status = "Ready"]), current.eqs)
             /\ UNCHANGED indexed
          \/ /\ Put(Patched(f, [f EXCEPT !.status = "Failed"]), current.eqs)
             /\ UNCHANGED indexed
  /\ UNCHANGED <<rowsOf, stored>>

(* A compaction: one new file, and then the old ones are removed.          *)
Compact ==
  /\ Change("compact")
  /\ \/ LET id == Cardinality({i \in FileId : rowsOf[i] # {}}) + 1
        IN  /\ id \in FileId
            /\ rowsOf' = [rowsOf EXCEPT ![id] = UNION {rowsOf[f.id] \ f.dv : f \in current.files}]
            /\ stored' = stored \cup {id} /\ indexed' = indexed \cup {id}
            /\ Put({Entry(id, 1, "Ready", FALSE, Len(log) + 1)}, {})
     \/ /\ \E id \in stored \ {f.id : f \in current.files} : stored' = stored \ {id}
        /\ UNCHANGED <<log, rowsOf, indexed>>

--------------------------------------------------------------------------------
Held(q) == {i \in DOMAIN task[q] : task[q][i].state = "run"}

file_search_budget_units_Wrong(size) ==
  Max({(size + FileSearchQuantum - 1) \div FileSearchQuantum, 1})
file_search_budget_units(size) ==
  Min({Max({(size + FileSearchQuantum - 1) \div FileSearchQuantum, 1}), FileSearchBudget})
Units(q, i) == file_search_budget_units(query[q].files[i].size)

(* The end of a query, and its drop by the caller, drops its tasks: their  *)
(* permits go back and their places in the queue are given up.             *)
Ended_Wrong(q, stage, results) ==
  /\ query' = [query EXCEPT ![q] = [@ EXCEPT !.stage = stage, !.results = results]]
  /\ task' = [task EXCEPT ![q] = <<>>]
  /\ free' = free
  /\ waiting' = SelectSeq(waiting, LAMBDA w : w[1] # q)
Ended(q, stage, results) ==
  /\ query' = [query EXCEPT ![q] = [@ EXCEPT !.stage = stage, !.results = results]]
  /\ task' = [task EXCEPT ![q] = <<>>]
  /\ free' = free + MapThenSumSet(LAMBDA i : Units(q, i), Held(q))
  /\ waiting' = SelectSeq(waiting, LAMBDA w : w[1] # q)

To(q, stage) == query' = [query EXCEPT ![q].stage = stage] /\ UNCHANGED <<task, budget>>

(* A read that may go wrong.                                               *)
Fault == asked.faulty /\ readFaults < MaxReadFaults /\ readFaults' = readFaults + 1
NoFault == UNCHANGED readFaults
FaultOr(missing) == Fault \/ (NoFault /\ missing)

StartSearch(q) ==
  /\ query[q].stage = "idle" /\ q \in asked.queries /\ To(q, "list")
  /\ NoFault /\ UNCHANGED <<tableState, asked>>

(* list_files, then load_table, the pruning by partition, distance and     *)
(* Bloom filter, the equality deletes and the BM25 statistics.  Bloom      *)
(* filters and statistics need not be there.  A session reads the deletes  *)
(* before the metadata, and refuses a table that has any.                  *)
Kept == {f \in current.files : f.id \notin asked.pruned}
InOrder(S) == CHOOSE s \in [1 .. Cardinality(S) -> S] : IsInjective(s)

list_files(q) ==
  /\ query[q].stage = "list"
  /\ \/ Fault /\ Ended(q, "failed", {})
     \/ /\ NoFault
        /\ query' = [query EXCEPT ![q] =
                       [@ EXCEPT !.stage = IF asked.kind = "session" THEN "deletes" ELSE "load",
                                 !.at = Len(log), !.files = InOrder(Kept)]]
        /\ UNCHANGED <<task, budget>>
  /\ UNCHANGED <<tableState, asked>>

Searching == IF asked.kind \in {"text", "session"} THEN "scan" ELSE "files"
Untouched(q) == [task EXCEPT ![q] = [i \in DOMAIN query[q].files |-> NoTask]]

ensure_search_session_snapshot_is_delete_free(q, eqs) ==
  eqs = {} /\ \A i \in DOMAIN query[q].files : query[q].files[i].dv = {}

load_table(q) ==
  /\ query[q].stage = "load"
  /\ \/ Fault /\ Ended(q, "failed", {})
     \/ /\ NoFault
        /\ query' = [query EXCEPT ![q].stage = IF asked.kind = "session" THEN "scan" ELSE "deletes"]
        /\ UNCHANGED <<task, budget>>
  /\ UNCHANGED <<tableState, asked>>

(* An unreadable delete file or manifest fails a strict query.             *)
WithDeletes(q, eqs) ==
  [query[q] EXCEPT !.stage = IF asked.kind = "session" THEN "load" ELSE Searching,
                   !.eqs = eqs, !.deletesAt = Len(log)]

list_equality_deletes(q) ==
  /\ query[q].stage = "deletes"
  /\ LET refused == /\ asked.kind = "session"
                    /\ ~ensure_search_session_snapshot_is_delete_free(q, current.eqs)
     IN  \/ /\ (Fault /\ (asked.strict \/ asked.kind = "session")) \/ (NoFault /\ refused)
            /\ Ended(q, "failed", {})
         \/ /\ Fault /\ ~asked.strict /\ asked.kind # "session"
            /\ query' = [query EXCEPT ![q] = WithDeletes(q, {})]
            /\ task' = Untouched(q) /\ UNCHANGED budget
         \/ /\ NoFault /\ ~refused
            /\ query' = [query EXCEPT ![q] = WithDeletes(q, current.eqs)]
            /\ task' = Untouched(q) /\ UNCHANGED budget
  /\ UNCHANGED <<tableState, asked>>

--------------------------------------------------------------------------------
select_search_top_k(rows, k) ==
  {r \in rows : Cardinality({s \in rows : Distance(s) < Distance(r)}) < k}

(* What the search of one file can return: an exact scan of a file that    *)
(* has no index, or is not known to have one; candidates of the index      *)
(* else, which may be fewer than were asked for (IVF lists that are not    *)
(* probed, nodes of the graph that are not reached).                       *)
is_ailake_file(f) == f.id \in indexed
candidate_k == IF asked.kind = "hybrid" THEN 10 * asked.k ELSE asked.k
IndexCandidates(rows) ==
  LET most == Min({candidate_k, Cardinality(rows)})
  IN  UNION {kSubset(n, rows) : n \in (IF asked.complete THEN most ELSE 0) .. most}
Candidates(f) ==
  IF f.status = "Indexing" \/ ~is_ailake_file(f)
  THEN {select_search_top_k(rowsOf[f.id], candidate_k)}
  ELSE IndexCandidates(rowsOf[f.id])

search_one_file_Wrong(q, f, dv) == {{r \in c : r \notin dv} : c \in Candidates(f)}
search_one_file(q, f, dv) ==
  {{r \in c : r \notin dv /\ ~should_delete_row(query[q].eqs, r, f.seq)} : c \in Candidates(f)}

(* A task is polled when it is among the first that are not folded yet.    *)
Poll(q, i) ==
  /\ query[q].stage = "files" /\ i \in DOMAIN task[q] /\ task[q][i] = NoTask
  /\ i < query[q].next + MaxConcurrentFileSearches
  /\ task' = [task EXCEPT ![q][i].state = "wait"]
  /\ waiting' = Append(waiting, <<q, i>>)
  /\ NoFault /\ UNCHANGED <<tableState, query, free, asked>>

acquire_file_search_budget ==
  /\ waiting # <<>>
  /\ LET w == Head(waiting)
     IN  /\ Units(w[1], w[2]) <= free
         /\ free' = free - Units(w[1], w[2])
         /\ task' = [task EXCEPT ![w[1]][w[2]].state = "run"]
  /\ waiting' = Tail(waiting)
  /\ NoFault /\ UNCHANGED <<tableState, query, asked>>

(* The deletion vector, which may not be readable; the index by itself, or *)
(* the file, which may be gone.                                            *)
Search(q, i) ==
  /\ query[q].stage = "files" /\ i \in Held(q)
  /\ LET f == query[q].files[i]
         Done(state, found) == task' = [task EXCEPT ![q][i] = [state |-> state, found |-> found]]
     IN  \/ /\ Fault /\ asked.strict /\ f.dv # {}
            /\ Done("error", {})
         \/ /\ Fault /\ ~asked.strict /\ f.dv # {} /\ f.id \in stored
            /\ \E found \in search_one_file(q, f, {}) : Done("done", found)
         \/ /\ NoFault /\ f.id \in stored
            /\ \E found \in search_one_file(q, f, f.dv) : Done("done", found)
         \/ FaultOr(f.id \notin stored) /\ Done("error", {})
  /\ free' = free + Units(q, i)
  /\ UNCHANGED <<tableState, query, waiting, asked>>

(* The outcomes are folded in the order of the files; the first error ends *)
(* the query.                                                              *)
Fold(q) ==
  /\ query[q].stage = "files" /\ query[q].next \in DOMAIN task[q]
  /\ LET t == task[q][query[q].next]
         all == query[q].results \cup t.found
     IN  \/ t.state = "error" /\ Ended(q, "failed", {})
         \/ /\ t.state = "done"
            /\ query' = [query EXCEPT ![q] =
                 [@ EXCEPT !.next = query[q].next + 1,
                           !.results = IF asked.kind = "hybrid" THEN all
                                       ELSE select_search_top_k(all, asked.k)]]
            /\ UNCHANGED <<task, budget>>
  /\ NoFault /\ UNCHANGED <<tableState, asked>>

FinishSearch(q) ==
  /\ query[q].stage \in {"files", "scan"} /\ query[q].next > Len(query[q].files)
  /\ Ended(q, IF asked.kind = "data" THEN "fetch" ELSE "done",
           select_search_top_k(query[q].results, asked.k))
  /\ NoFault /\ UNCHANGED <<tableState, asked>>

(* search_text and SearchSession::load go through the files one by one.    *)
(* The text index of a file gives three times as many hits as are asked    *)
(* for, and none where it fails; it is no error.  A session leaves out     *)
(* files without an index, a Failed build's included.                      *)
TextHits(rows) == kSubset(Min({3 * asked.k, Cardinality(rows)}), rows)
ScanFile(q, f) ==
  CASE asked.kind = "text" ->
         {{r \in c : ~should_delete_row(query[q].eqs, r, f.seq)} :
            c \in IF f.id \in asked.fts THEN TextHits(rowsOf[f.id]) ELSE {rowsOf[f.id]}}
    [] asked.kind = "session" /\ f.status # "Indexing" /\ ~is_ailake_file(f) -> {{}}
    [] asked.kind = "session" /\ (f.status = "Indexing" \/ is_ailake_file(f)) -> Candidates(f)

Scan(q) ==
  /\ query[q].stage = "scan" /\ query[q].next <= Len(query[q].files)
  /\ LET f == query[q].files[query[q].next]
         Found(found) == query' = [query EXCEPT ![q] = [@ EXCEPT !.next = query[q].next + 1,
                                                                 !.results = query[q].results \cup found]]
     IN  \/ /\ NoFault /\ f.id \in stored
            /\ \E found \in ScanFile(q, f) : Found(found)
            /\ UNCHANGED <<task, budget>>
         \/ /\ Fault /\ asked.kind = "text" /\ f.id \in asked.fts \cap stored
            /\ Found({}) /\ UNCHANGED <<task, budget>>
         \/ FaultOr(f.id \notin stored) /\ Ended(q, "failed", {})
  /\ UNCHANGED <<tableState, asked>>

(* fetch_rows reads the files of the results again.                        *)
fetch_rows(q) ==
  /\ query[q].stage = "fetch"
  /\ LET there == \A i \in DOMAIN query[q].files :
                    LET f == query[q].files[i]
                    IN  rowsOf[f.id] \cap query[q].results # {} => f.id \in stored
     IN  \/ NoFault /\ there /\ To(q, "done")
         \/ FaultOr(~there) /\ Ended(q, "failed", {})
  /\ UNCHANGED <<tableState, asked>>

(* The caller goes away: a request's deadline, a closed connection.        *)
DropSearch(q) ==
  /\ query[q].stage \notin {"idle", "done", "failed", "dropped"}
  /\ "drop" \in asked.changes
  /\ Ended(q, "dropped", {})
  /\ NoFault /\ UNCHANGED <<tableState, asked>>

SearchStep(q) ==
  \/ list_files(q) \/ list_equality_deletes(q) \/ load_table(q) \/ Fold(q) \/ FinishSearch(q)
  \/ Scan(q) \/ fetch_rows(q)
  \/ \E i \in DOMAIN task[q] : Poll(q, i) \/ Search(q, i)

SearchNext ==
  \/ \E q \in Query : StartSearch(q) \/ SearchStep(q) \/ DropSearch(q)
  \/ acquire_file_search_budget
  \/ DeleteRows \/ DeleteWhere \/ IndexBuilt \/ Compact

SearchSpec == SearchInit /\ [][SearchNext]_searchVars

(* The runtime polls a query that can go on, and wakes the head of the     *)
(* semaphore's queue.                                                      *)
SearchFair ==
  /\ \A q \in Query : WF_searchVars(SearchStep(q))
  /\ WF_searchVars(acquire_file_search_budget)

--------------------------------------------------------------------------------
(* The shape of the state.                                                 *)
SearchTypeOK ==
  /\ asked \in Asked /\ free \in 0 .. FileSearchBudget
  /\ \A id \in FileId : rowsOf[id] \subseteq Row
  /\ indexed \subseteq FileId /\ stored \subseteq FileId
  /\ \A q \in Query :
       /\ query[q].stage \in {"idle", "list", "deletes", "load", "files", "scan", "fetch",
                              "done", "failed", "dropped"}
       /\ query[q].results \subseteq Row /\ query[q].at \in 0 .. Len(log)
       /\ query[q].deletesAt \in 0 .. Len(log)
       /\ \A i \in DOMAIN task[q] : task[q][i].found \subseteq Row

(* The units that are taken are those of the files being searched, and the *)
(* queue holds the tasks that wait: neither an error in the order of the   *)
(* fold nor a dropped query leaks the permits of the tasks it cancels.     *)
BudgetAccounted ==
  /\ free + MapThenSumSet(LAMBDA q : MapThenSumSet(LAMBDA i : Units(q, i), Held(q)), Query)
       = FileSearchBudget
  /\ \A q \in Query : \A i \in DOMAIN task[q] :
       task[q][i].state = "wait" <=> \E n \in DOMAIN waiting : waiting[n] = <<q, i>>

(* A strict query returns rows that are live in the snapshot it listed,    *)
(* although deletion vectors, equality deletes and files are read at other *)
(* moments and reads may fail; a text search ignores deletion vectors.     *)
(* This holds for a query that still found the equality deletes of that    *)
(* snapshot: a compaction between list_files and list_equality_deletes     *)
(* drops them, and the rows of the old files come back to such a query.    *)
NoDeletedRow ==
  \A q \in Query :
    (/\ query[q].stage = "done" /\ asked.strict
     /\ asked.kind = "text" => "delete_rows" \notin asked.changes
     /\ log[query[q].at].eqs \subseteq log[query[q].deletesAt].eqs)
      => query[q].results \subseteq LiveIn(log[query[q].at])

(* With a top_k that leaves nothing out, a query finds every row of the    *)
(* files it kept that is live in the snapshot of the file list and in that *)
(* of the deletes: no background build, compaction or removed file makes a *)
(* row disappear without an error.  This is so for the files that are      *)
(* scanned, and for the others as far as their index finds every row: an   *)
(* approximate index may return fewer.  A session skips files without an   *)
(* index, and the full-text index of a file may fail silently.             *)
NothingMissed ==
  \A q \in Query :
    query[q].stage = "done" /\ asked.k >= 2 * MaxFileId =>
      LET kept == {query[q].files[i] : i \in DOMAIN query[q].files}
          whole == {f \in kept :
                      /\ asked.complete \/ f.status = "Indexing" \/ f.foreign \/ asked.kind = "text"
                      /\ asked.kind = "session" => ~f.foreign /\ f.status # "Failed"
                      /\ asked.kind = "text" /\ asked.faulty => f.id \notin asked.fts}
          rows == UNION {rowsOf[f.id] : f \in whole}
          dead == {r \in rows : \E f \in kept :
                     r \in rowsOf[f.id] /\ should_delete_row(log[query[q].deletesAt].eqs, r, f.seq)}
      IN  (rows \cap LiveIn(log[query[q].at])) \ dead \subseteq query[q].results

(* The merge of the file results, cut to top_k after every file, is the    *)
(* best top_k of all rows when every file is scanned exactly and nothing   *)
(* is deleted.                                                             *)
BestOfAll ==
  \A q \in Query :
    LET kept == {query[q].files[i] : i \in DOMAIN query[q].files}
    IN  query[q].stage = "done" /\ asked.kind \in {"vector", "data"} /\ asked.changes \subseteq {"drop"}
        /\ (\A f \in kept : f.id \notin indexed)
          => query[q].results = select_search_top_k(UNION {rowsOf[f.id] : f \in kept}, asked.k)

(* A query over a table that changes under it answers for the snapshot it  *)
(* listed: nothing of it that was deleted, unless its deletes were dropped *)
(* under the query; nothing left out, unless by an approximate index; and  *)
(* the best top_k where all is scanned.                                    *)
SearchExact == NoDeletedRow /\ NothingMissed /\ BestOfAll

(* Every query ends: a file bigger than the whole budget takes the whole   *)
(* budget, and the queue is served in order, so no task waits for ever     *)
(* while others come and go.                                               *)
SearchReturns ==
  \A q \in Query :
    query[q].stage # "idle" ~> query[q].stage \in {"done", "failed", "dropped"}
================================================================================
