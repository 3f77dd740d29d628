------------------------------ MODULE DuckLake ------------------------------
(***************************************************************************)
(* The DuckLake catalog (ailake-catalog/src/ducklake.rs).  A table lives   *)
(* in two attached databases of one DuckDB connection: the lake, which the *)
(* ducklake extension owns and any DuckDB client reads and writes, and the *)
(* sidecar tables of AI-Lake.  No transaction spans both, so a commit and  *)
(* a schema evolution take two, and creating or dropping a table is a list *)
(* of statements.  The tasks of one process share the connection behind a  *)
(* mutex; a commit also takes a file lock, without waiting.                *)
(***************************************************************************)
EXTENDS Integers, Sequences, FiniteSets

CONSTANTS
    DuckClient,   \* tasks that use the catalog
    DuckScripts   \* records: the calls each client will make, and how often
                  \* the process may die, a statement fail and another DuckDB
                  \* client write a file

ASSUME DuckAssumption ==
    /\ "none" \notin DuckClient
    /\ \A s \in DuckScripts :
         /\ s.calls \in [DuckClient -> Seq({"append", "delete", "compact", "patch", "rewrite",
                                          "create", "drop", "evolve"})]
         /\ s.crashes \in Nat /\ s.faults \in Nat /\ s.foreign \in Nat

VARIABLES
    todo,      \* client -> the calls it has still to make
    lake,      \* the lake: whether the table exists, its columns, its files
    side,      \* the sidecar: registry row, file rows, deletes, snapshot, properties
    commitLock, connLock,  \* who holds the lock file, the connection; None
    duck,      \* client -> its call in progress
    budget,    \* crashes, faults and foreign writes still to come, next path
    cut        \* history: kinds of calls that stopped between two transactions,
               \* "foreign" once a file without a sidecar row was retired, and
               \* "stale" once a snapshot brought back a retired file

duckVars == <<todo, lake, side, commitLock, connLock, duck, budget, cut>>

DuckNone == "none"
DuckIdle == [pc |-> "idle", result |-> "none"]

(* Every file holds a row of each key; a delete is of key k.               *)
RowKeys == {"k", "other"}

(* The properties create_table declares; evolve_schema adds its columns.   *)
OwnProps == {"ailake"}

NoTable == [exists |-> FALSE, cols |-> {}, files |-> <<>>]
NoSidecar == [table |-> FALSE, rows |-> <<>>, deletes |-> {}, snap |-> 0, props |-> {}]

DuckInit ==
    /\ \E s \in DuckScripts :
         /\ todo = s.calls
         /\ budget = [crashes |-> s.crashes, faults |-> s.faults, foreign |-> s.foreign, path |-> 1]
    /\ lake = [exists |-> TRUE, cols |-> {}, files |-> <<>>]
    /\ side = [NoSidecar EXCEPT !.table = TRUE, !.props = OwnProps]
    /\ commitLock = DuckNone /\ connLock = DuckNone
    /\ duck = [c \in DuckClient |-> DuckIdle]
    /\ cut = {}

Overlay(f, g) == [x \in DOMAIN f \cup DOMAIN g |-> IF x \in DOMAIN g THEN g[x] ELSE f[x]]

ActiveRows == {p \in DOMAIN side.rows : side.rows[p].active}

query_active_files_Wrong ==
    [p \in ActiveRows |-> side.rows[p].size]

(* The active sidecar rows, and the files the lake lists that have no      *)
(* sidecar row at all.  A file whose rows are all deleted is still listed. *)
query_active_files ==
    [p \in ActiveRows \cup (DOMAIN lake.files \ DOMAIN side.rows) |->
        IF p \in ActiveRows THEN side.rows[p].size ELSE lake.files[p].size]

-----------------------------------------------------------------------------
(* Calls.                                                                  *)

Fault == budget.faults > 0 /\ budget' = [budget EXCEPT !.faults = @ - 1]

Finish(c, result) == duck' = [duck EXCEPT ![c] = [pc |-> "idle", result |-> result]]

Call(c, call) ==
    /\ duck[c].pc = "idle" /\ todo[c] # <<>>
    /\ todo' = [todo EXCEPT ![c] = Tail(@)]
    /\ duck' = [duck EXCEPT ![c] = call]

Listing == {"compact", "patch", "rewrite"}

(* The files of a snapshot as its caller prepares them: an append of a new *)
(* file; a delete, of no file; from what list_files returned, a compaction *)
(* of some files into a new one, or a patch of the same files, one of      *)
(* which may have been rewritten in place.                                 *)
NewFiles(op) ==
    LET fresh == [p \in {budget.path} |-> 1]
        listed == query_active_files
    IN  CASE op = "append"  -> {fresh}
          [] op = "delete"  -> {<<>>}
          [] op = "compact" -> {Overlay([p \in DOMAIN listed \ merged |-> listed[p]], fresh)
                                  : merged \in SUBSET DOMAIN listed \ {{}}}
          [] op = "patch"   -> {listed}
          [] op = "rewrite" -> {[listed EXCEPT ![p] = @ + 1] : p \in DOMAIN listed}

Prepare(c) ==
    /\ todo[c] # <<>> /\ Head(todo[c]) \in Listing \cup {"append", "delete"}
    /\ LET op == Head(todo[c])
       IN  /\ op \in Listing => connLock = DuckNone
           /\ IF op \in Listing /\ (~lake.exists \/ DOMAIN query_active_files = {})
              THEN Call(c, [DuckIdle EXCEPT !.result = "error"])
              ELSE \E f \in NewFiles(op) :
                     Call(c, [pc |-> "lock", op |-> op, snap |-> budget.path, files |-> f,
                              result |-> "none"])
    /\ budget' = [budget EXCEPT !.path = @ + 1]
    /\ UNCHANGED <<lake, side, commitLock, connLock, cut>>

(* try_acquire_lock: a lock that is held fails the commit.                 *)
BeginDuckCommit(c) ==
    /\ duck[c].pc = "lock"
    /\ IF commitLock = DuckNone
       THEN commitLock' = c /\ duck' = [duck EXCEPT ![c].pc = "plan"]
       ELSE Finish(c, "error") /\ UNCHANGED commitLock
    /\ UNCHANGED <<todo, lake, side, connLock, budget, cut>>

(* What a commit adds, removes and only patches.                           *)
ToAdd(op, files, current) ==
    IF op \in Listing THEN DOMAIN files \ DOMAIN current ELSE DOMAIN files
ToRemove(op, files, current) ==
    IF op \in Listing THEN DOMAIN current \ DOMAIN files ELSE {}

(* The guard rail: a listed path that comes with another size.             *)
Rewritten(op, files, current) ==
    /\ op \in Listing
    /\ \E p \in DOMAIN files \cap DOMAIN current : files[p] # current[p]

(* The connection is taken, and the diff made against what is listed now.  *)
(* No table in the lake, or an in-place rewrite, fails the commit.         *)
Plan(c) ==
    /\ duck[c].pc = "plan" /\ connLock = DuckNone
    /\ LET current == query_active_files
           t == duck[c]
       IN  IF Rewritten(t.op, t.files, current) \/ (t.op \in Listing /\ ~lake.exists)
           THEN /\ duck' = [duck EXCEPT ![c].pc = "release", ![c].result = "error"]
                /\ UNCHANGED <<connLock, cut>>
           ELSE /\ connLock' = c
                /\ cut' = IF ToAdd(t.op, t.files, current) \cap DOMAIN side.rows = {}
                          THEN cut ELSE cut \cup {"stale"}
                /\ duck' = [duck EXCEPT ![c] =
                     [pc |-> "lake", op |-> t.op, snap |-> t.snap, files |-> t.files,
                      result |-> "none", add |-> ToAdd(t.op, t.files, current),
                      remove |-> ToRemove(t.op, t.files, current)]]
    /\ UNCHANGED <<todo, lake, side, commitLock, budget>>

(* The lake after the first transaction: rows of removed files deleted,    *)
(* new files added, and the delete's rows gone if its column is declared.  *)
LakeAfter(t) ==
    LET base == [p \in DOMAIN lake.files |->
                   IF p \in t.remove THEN [lake.files[p] EXCEPT !.live = {}] ELSE lake.files[p]]
        added == [p \in t.add |-> [size |-> t.files[p], live |-> RowKeys]]
        all == Overlay(base, added)
    IN  [p \in DOMAIN all |->
           IF t.op = "delete" /\ "k" \in lake.cols
           THEN [all[p] EXCEPT !.live = @ \ {"k"}] ELSE all[p]]

LakePhase_Wrong(c) ==
    /\ duck[c].pc = "lake" /\ lake.exists
    /\ lake' = [lake EXCEPT !.files = LakeAfter(duck[c])]
    /\ \/ /\ duck' = [duck EXCEPT ![c].pc = "sidecar"]
          /\ UNCHANGED <<connLock, budget>>
       \/ /\ Fault
          /\ duck' = [duck EXCEPT ![c].pc = "release", ![c].result = "error"]
          /\ connLock' = DuckNone
    /\ UNCHANGED <<todo, side, commitLock, cut>>

(* The first transaction commits, or is rolled back: a statement failed,   *)
(* or there is no table.                                                   *)
LakePhase(c) ==
    /\ duck[c].pc = "lake"
    /\ \/ /\ lake.exists
          /\ lake' = [lake EXCEPT !.files = LakeAfter(duck[c])]
          /\ duck' = [duck EXCEPT ![c].pc = "sidecar"]
          /\ UNCHANGED <<connLock, budget>>
       \/ /\ IF lake.exists THEN Fault ELSE UNCHANGED budget
          /\ duck' = [duck EXCEPT ![c].pc = "release", ![c].result = "error"]
          /\ connLock' = DuckNone /\ UNCHANGED lake
    /\ UNCHANGED <<todo, side, commitLock, cut>>

(* retire_file_entry touches a row only where there is one.                *)
retire_file_entry(rows, removed) ==
    [p \in DOMAIN rows |-> IF p \in removed THEN [rows[p] EXCEPT !.active = FALSE] ELSE rows[p]]

upsert_file_entry(rows, files) ==
    Overlay(rows, [p \in DOMAIN files |-> [active |-> TRUE, size |-> files[p]]])

SidecarAfter(t) ==
    [side EXCEPT !.rows = upsert_file_entry(retire_file_entry(@, t.remove), t.files),
                 !.deletes = IF t.op = "delete" THEN @ \cup {t.snap} ELSE @,
                 !.snap = IF side.table THEN t.snap ELSE @]

(* The second transaction commits or is rolled back; either way the        *)
(* connection is given up.                                                 *)
SidecarPhase(c) ==
    /\ duck[c].pc = "sidecar"
    /\ \/ /\ side' = SidecarAfter(duck[c])
          /\ duck' = [duck EXCEPT ![c].pc = "release", ![c].result = "ok"]
          /\ cut' = IF duck[c].remove \subseteq DOMAIN side.rows THEN cut ELSE cut \cup {"foreign"}
          /\ UNCHANGED budget
       \/ /\ Fault /\ cut' = cut \cup {"commit"}
          /\ duck' = [duck EXCEPT ![c].pc = "release", ![c].result = "error"]
          /\ UNCHANGED side
    /\ connLock' = DuckNone
    /\ UNCHANGED <<todo, lake, commitLock>>

(* release_lock; an error of it is the answer of a commit that succeeded.  *)
(* The lock store goes out of scope, and its file handle with it.          *)
EndDuckCommit(c) ==
    /\ duck[c].pc = "release"
    /\ \/ Finish(c, duck[c].result) /\ UNCHANGED budget
       \/ Fault /\ Finish(c, IF duck[c].result = "ok" THEN "unreleased" ELSE "error")
    /\ commitLock' = DuckNone
    /\ UNCHANGED <<todo, lake, side, connLock, cut>>

-----------------------------------------------------------------------------
(* Calls that only take the connection.                                    *)

StartStatements(c) ==
    /\ connLock = DuckNone /\ todo[c] # <<>> /\ Head(todo[c]) \in {"create", "drop", "evolve"}
    /\ Call(c, [pc |-> Head(todo[c]), at |-> IF Head(todo[c]) = "create" THEN 0 ELSE 1,
                result |-> "none"])
    /\ connLock' = c
    /\ UNCHANGED <<lake, side, commitLock, budget, cut>>

EndStatements(c, result) == Finish(c, result) /\ connLock' = DuckNone

(* A statement that fails ends the call; what earlier ones did stays.      *)
StatementFails(c) ==
    /\ duck[c].pc \in {"create", "drop", "evolve"} /\ Fault
    /\ EndStatements(c, "error")
    /\ cut' = IF duck[c].at > 1 THEN cut \cup {duck[c].pc} ELSE cut
    /\ UNCHANGED <<todo, lake, side, commitLock>>

(* create_table: the schema, unless it is there, the table in the lake,    *)
(* its registry row and its properties, each by a statement of its own.    *)
create_table(c) ==
    /\ duck[c].pc = "create"
    /\ CASE duck[c].at = 0 ->
              duck' = [duck EXCEPT ![c].at = 1] /\ UNCHANGED <<lake, side, connLock, cut>>
         [] duck[c].at = 1 ->
              IF lake.exists
              THEN EndStatements(c, "error") /\ UNCHANGED <<lake, side, cut>>
              ELSE /\ lake' = [NoTable EXCEPT !.exists = TRUE]
                   /\ duck' = [duck EXCEPT ![c].at = 2]
                   /\ UNCHANGED <<side, connLock, cut>>
         [] duck[c].at = 2 ->
              IF side.table
              THEN EndStatements(c, "error") /\ cut' = cut \cup {"create"} /\ UNCHANGED <<lake, side>>
              ELSE /\ side' = [side EXCEPT !.table = TRUE, !.snap = 0]
                   /\ duck' = [duck EXCEPT ![c].at = 3]
                   /\ UNCHANGED <<lake, connLock, cut>>
         [] duck[c].at = 3 ->
              /\ side' = [side EXCEPT !.props = @ \cup OwnProps]
              /\ EndStatements(c, "ok")
              /\ UNCHANGED <<lake, cut>>
    /\ UNCHANGED <<todo, commitLock, budget>>

(* drop_table: the lake's table, then file rows, deletes, properties and   *)
(* the registry row.                                                       *)
duck_drop_table(c) ==
    /\ duck[c].pc = "drop"
    /\ lake' = IF duck[c].at = 1 THEN NoTable ELSE lake
    /\ side' = CASE duck[c].at = 1 -> side
                 [] duck[c].at = 2 -> [side EXCEPT !.rows = <<>>]
                 [] duck[c].at = 3 -> [side EXCEPT !.deletes = {}]
                 [] duck[c].at = 4 -> [side EXCEPT !.props = {}]
                 [] duck[c].at = 5 -> [side EXCEPT !.table = FALSE, !.snap = 0]
    /\ IF duck[c].at < 5
       THEN duck' = [duck EXCEPT ![c].at = @ + 1] /\ UNCHANGED connLock
       ELSE EndStatements(c, "ok")
    /\ UNCHANGED <<todo, commitLock, budget, cut>>

(* evolve_schema: the columns in one transaction of the lake, which fails  *)
(* without the table or with the column there, then the properties.        *)
evolve_schema(c) ==
    /\ duck[c].pc = "evolve"
    /\ CASE duck[c].at = 1 /\ lake.exists /\ "k" \notin lake.cols ->
              /\ lake' = [lake EXCEPT !.cols = @ \cup {"k"}]
              /\ duck' = [duck EXCEPT ![c].at = 2]
              /\ UNCHANGED <<side, connLock>>
         [] duck[c].at = 1 /\ ~(lake.exists /\ "k" \notin lake.cols) ->
              EndStatements(c, "error") /\ UNCHANGED <<lake, side>>
         [] duck[c].at = 2 ->
              /\ side' = [side EXCEPT !.props = @ \cup {"k"}]
              /\ EndStatements(c, "ok")
              /\ UNCHANGED lake
    /\ UNCHANGED <<todo, commitLock, budget, cut>>

-----------------------------------------------------------------------------
(* The surroundings.                                                       *)

(* Another DuckDB client inserts: its file is in the lake only.            *)
ForeignWrite ==
    /\ budget.foreign > 0 /\ lake.exists
    /\ lake' = [lake EXCEPT !.files =
                  Overlay(@, [p \in {budget.path} |-> [size |-> 1, live |-> RowKeys]])]
    /\ budget' = [budget EXCEPT !.foreign = @ - 1, !.path = @ + 1]
    /\ UNCHANGED <<todo, side, commitLock, connLock, duck, cut>>

(* The process dies: the open transaction, the connection and the lock go. *)
DuckCrash ==
    /\ budget.crashes > 0 /\ \E c \in DuckClient : duck[c].pc # "idle"
    /\ budget' = [budget EXCEPT !.crashes = @ - 1]
    /\ cut' = cut \cup
         {IF duck[c].pc = "sidecar" THEN "commit" ELSE duck[c].pc :
            c \in {d \in DuckClient :
                     duck[d].pc = "sidecar"
                     \/ (duck[d].pc \in {"create", "drop", "evolve"} /\ duck[d].at > 1)}}
    /\ duck' = [c \in DuckClient |-> IF duck[c].pc = "idle" THEN duck[c]
                                    ELSE [pc |-> "idle", result |-> "died"]]
    /\ commitLock' = DuckNone /\ connLock' = DuckNone
    /\ UNCHANGED <<todo, lake, side>>

DuckStep(c) ==
    \/ Prepare(c) \/ BeginDuckCommit(c) \/ Plan(c) \/ LakePhase(c) \/ SidecarPhase(c)
    \/ EndDuckCommit(c) \/ StartStatements(c) \/ create_table(c) \/ duck_drop_table(c)
    \/ evolve_schema(c)

DuckNext ==
    \/ \E c \in DuckClient : DuckStep(c) \/ StatementFails(c)
    \/ ForeignWrite \/ DuckCrash

DuckSpec == DuckInit /\ [][DuckNext]_duckVars

(* The runtime polls every task, and the connection's mutex is fair.       *)
DuckFairness == \A c \in DuckClient : WF_duckVars(DuckStep(c))

-----------------------------------------------------------------------------
(* Properties.                                                             *)

Between == \E c \in DuckClient : duck[c].pc \in {"sidecar", "create", "drop", "evolve"}

(* Every part has its type, and the lock and the connection are with a     *)
(* client whose call has them.                                             *)
DuckTypeOK ==
    /\ todo \in [DuckClient -> Seq({"append", "delete", "create", "drop", "evolve"} \cup Listing)]
    /\ \A p \in DOMAIN lake.files : lake.files[p].live \subseteq RowKeys
    /\ side.snap \in 0 .. budget.path /\ side.deletes \subseteq 1 .. budget.path
    /\ commitLock # DuckNone => duck[commitLock].pc \in {"plan", "lake", "sidecar", "release"}
    /\ connLock # DuckNone => duck[connLock].pc \in {"lake", "sidecar", "create", "drop", "evolve"}

(* Between calls, and while no call was cut in two and no foreign file     *)
(* retired, a file AI-Lake knows is active in the sidecar exactly when a   *)
(* native reader still sees rows of it: neither reader sees a file the     *)
(* other has retired.  The lake has the table exactly when the sidecar has *)
(* its registry row and its properties.                                    *)
ReadersAgree ==
    ~Between /\ cut \subseteq {"stale"} =>
        /\ \A p \in DOMAIN side.rows :
             side.rows[p].active <=> p \in DOMAIN lake.files /\ lake.files[p].live # {}
        /\ lake.exists <=> side.table
        /\ lake.exists <=> OwnProps \subseteq side.props

(* Even when commits are cut between their transactions, every file that   *)
(* native readers see is listed, if only as a foreign one: the degradation *)
(* the code accepts loses no rows.  (A snapshot made from an old listing   *)
(* can bring a retired path back, which is hidden until its sidecar row    *)
(* follows.)                                                               *)
NothingHidden ==
    "stale" \notin cut => \A p \in DOMAIN lake.files :
        lake.files[p].live # {} => p \in DOMAIN query_active_files

(* The lake goes first: an active sidecar row always names a file the lake *)
(* lists, and a declared property a column it has, whatever was cut, short *)
(* of a drop.                                                              *)
SidecarBacked ==
    lake.exists /\ "drop" \notin cut =>
        ActiveRows \subseteq DOMAIN lake.files /\ side.props \ OwnProps \subseteq lake.cols

(* The size the sidecar has of a file is the one the lake recorded when it *)
(* was added: no commit registers bytes rewritten in place.                *)
SizesMatch ==
    \A p \in ActiveRows \cap DOMAIN lake.files : side.rows[p].size = lake.files[p].size

(* What the two databases say of the table's files agrees as far as it can *)
(* without a transaction over both: exactly between uncut calls, without a *)
(* hidden row or a dangling entry after a cut, in size always.  A commit   *)
(* cut in two leaves the row of a removed file active, and the file listed *)
(* with no live row, though ducklake.rs:762-764 says such an orphaned row  *)
(* is never surfaced; that listing is why the first clause excepts cuts.   *)
SidecarFaithful == ReadersAgree /\ NothingHidden /\ SidecarBacked /\ SizesMatch

(* A commit that answers with an error left no file behind, except where   *)
(* the sidecar's transaction was lost or only the lock's release failed.   *)
ErrorsLeaveNothing ==
    [][\A c \in DuckClient :
         duck[c].pc \in {"lake", "release"} /\ duck'[c].result = "error" /\ "commit" \notin cut'
           => /\ duck[c].snap \notin DOMAIN lake'.files
              /\ duck[c].snap \notin DOMAIN side'.rows]_duckVars

(* All calls are made and come back in the end: no error path keeps the    *)
(* lock or the connection from the others.                                 *)
DuckReturns == <>[](\A c \in DuckClient : duck[c].pc = "idle" /\ todo[c] = <<>>)
=============================================================================
