------------------------------ MODULE ClientCalls ------------------------------
(***************************************************************************)
(* The three ways into the library: the C functions of ailake-jni, the     *)
(* Python module of ailake-py and the commands of ailake-cli.  Each is     *)
(* given as the sequence of its steps, in the order of the code; threads   *)
(* make calls, and the steps of calls interleave.                          *)
(*                                                                         *)
(*   table     the table: its metadata version (0 = none), the rows in it  *)
(*   call      per thread: entry point, number, steps to go, the table as  *)
(*             it last read it, and whether a create or save is under way  *)
(*   mutex     who holds jni_table_lock of the table                       *)
(*   gil       who holds the interpreter lock                              *)
(*   storeLock who holds .ailake-commit.lock: a thread, or the task of a   *)
(*             call                                                        *)
(*   patches   per call, the background task of its deferred index: where  *)
(*             it is, the table as it listed it, how often it committed    *)
(*   live, owned, slot   response strings: allocated ones; those the host  *)
(*             has to free; the thread-local KOF_RESPONSE                  *)
(*   inserted, deleted, overtaken   history: rows whose insertion, or      *)
(*             deletion, was committed; a rewrite or a schema change was   *)
(*             saved over a version its caller had not read                *)
(*   panics    how many calls have panicked                                *)
(*   host      the setting, chosen at the start: who the callers are       *)
(*             ("jni" and "py": threads of one process; "cli": processes), *)
(*             the entry points they call, whether there is a table,       *)
(*             whether a rewrite calls back into Python, and whether       *)
(*             writes and compactions leave the index to a background      *)
(*             task; and how many calls they make                          *)
(*                                                                         *)
(* commit_snapshot is HadoopCatalog's: a lock of the store it does not     *)
(* wait for, then read and save.  Catalog details, the stages of a build   *)
(* and what happens to rows in a rewrite are modules HadoopCatalog,        *)
(* IndexJobs and TableMaintenance.  A row stands for the batch of one      *)
(* write call.                                                             *)
(*                                                                         *)
(* Definitions called X_Wrong are seeded faults: X with a plausible bug,   *)
(* to show that the properties notice it.  No specification uses them.     *)
(***************************************************************************)
EXTENDS Integers, Sequences, FiniteSets

CONSTANTS Thread, NoThread, Host,
          MaxClientCalls, MaxPanics, MaxPatches   \* bounds on calls, on panics
                                                  \* and on commits of a task

ASSUME ClientAssumption ==
  /\ NoThread \notin Thread /\ MaxClientCalls \in Nat /\ MaxPanics \in Nat
  /\ MaxPatches \in Nat
  /\ \A h \in Host : /\ h.kind \in {"jni", "py", "cli"}
                      /\ h.exists \in BOOLEAN /\ h.callbacks \in BOOLEAN
                      /\ h.deferred \in BOOLEAN /\ (h.deferred => h.exists)
                      /\ h.calls \in 0 .. MaxClientCalls

VARIABLES host, table, call, mutex, gil, storeLock, patches, live, owned, slot,
          inserted, deleted, overtaken, clientCalls, panics

strings == <<live, owned, slot>>
clientHistory == <<inserted, deleted, overtaken>>
clientVars == <<host, table, call, mutex, gil, storeLock, patches, strings,
                clientHistory, clientCalls, panics>>

CallId == 1 .. MaxClientCalls
NoTable == [version |-> 0, rows |-> {}]
NoPatch == [state |-> "none", view |-> NoTable, commits |-> 0]
NoCall == [entry |-> "none", id |-> 0, rest |-> <<>>, view |-> NoTable, saving |-> FALSE]

--------------------------------------------------------------------------------
(* Steps.  Local ones touch nothing shared and may end the call:           *)
(*   "request"  null, length, UTF-8 and JSON of the request                *)
(*   "check"    its arguments; the properties of the table just loaded     *)
(*   "store", "catalog"   store_from_url, a new catalog object             *)
(*   "put"      a data file under a new name                               *)
(*   "embed"    the embedding function                                     *)
(*   "spawn"    spawn_index_job, in the deferred variants only             *)
(* The others are actions below.                                           *)
LocalStep == {"request", "check", "store", "catalog", "put"}
Step ==
  LocalStep \cup {"embed", "spawn", "load", "list", "read", "glance", "lock", "gil", "nogil",
                  "open", "create", "evolve", "commit", "delete", "replace"}

(* A call of the C interface: the request, a store and a catalog of its    *)
(* own; changes run under the lock of the table.                           *)
Connect == <<"request", "store", "catalog">>
jni_table_lock == <<"lock">>

do_search == <<"store", "catalog", "list", "read">>
ailake_vector_search_json == <<"check">> \o do_search
ailake_search_json == <<"request", "check">> \o do_search
ailake_search_text_json == <<"request", "check", "store", "catalog", "list", "read">>
ailake_search_multimodal_json == <<"request", "check", "store", "catalog", "list", "read">>
ailake_scan_json == <<"request", "check">> \o do_search \o <<"store", "catalog", "glance", "read">>
ailake_info_json == Connect \o <<"load", "list">>

WriteLocked == jni_table_lock \o <<"open", "put", "spawn", "commit">>
JsonRequest == <<"request", "check">>
IpcRequest == <<"request", "request", "check">>
MultiRequest == <<"request", "check">>
ailake_write_batch_json == JsonRequest \o <<"store", "catalog", "check">> \o WriteLocked
ailake_write_batch_ipc == IpcRequest \o <<"store", "catalog">> \o WriteLocked
ailake_write_batch_multi_json == MultiRequest \o <<"store", "catalog", "check">> \o WriteLocked
ailake_delete_where_json == Connect \o jni_table_lock \o <<"put", "delete">>
ailake_evolve_schema_json == Connect \o jni_table_lock \o <<"evolve">>
ailake_compact_json_Wrong == Connect \o <<"load", "list">> \o jni_table_lock \o <<"put", "spawn", "replace">>
ailake_compact_json == Connect \o jni_table_lock \o <<"load", "list", "put", "spawn", "replace">>
ailake_create_table_json == Connect \o <<"check", "create">>
ailake_decay_memories_json ==
  Connect \o <<"load", "check">> \o jni_table_lock \o <<"list", "put", "replace">>
ailake_migrate_json ==
  Connect \o jni_table_lock \o <<"load", "list", "embed", "put", "replace", "embed", "put", "replace">>
ailake_delete_rows_json == Connect \o jni_table_lock \o <<"list", "put", "replace">>
ailake_add_vector_column_json == Connect \o <<"check">> \o jni_table_lock \o <<"evolve">>
ailake_backfill_vector_column_json ==
  Connect \o <<"load", "check">> \o jni_table_lock \o <<"list", "embed", "put", "replace">>

JniEntry ==
  [vector_search |-> ailake_vector_search_json, search |-> ailake_search_json,
   search_text |-> ailake_search_text_json, search_multimodal |-> ailake_search_multimodal_json,
   scan |-> ailake_scan_json, info |-> ailake_info_json,
   write |-> ailake_write_batch_json, write_ipc |-> ailake_write_batch_ipc,
   write_multi |-> ailake_write_batch_multi_json, delete_where |-> ailake_delete_where_json,
   evolve |-> ailake_evolve_schema_json, compact |-> ailake_compact_json,
   create |-> ailake_create_table_json, decay |-> ailake_decay_memories_json,
   migrate |-> ailake_migrate_json, delete_rows |-> ailake_delete_rows_json,
   add_vector |-> ailake_add_vector_column_json,
   backfill |-> ailake_backfill_vector_column_json,
   kof_search |-> ailake_search_json, kof_write |-> ailake_write_batch_json,
   kof_info |-> ailake_info_json, kof_compact |-> ailake_compact_json]
KofEntry == {"kof_search", "kof_write", "kof_info", "kof_compact"}

(* A Python function holds the interpreter lock from its call to its       *)
(* return, but for the calls it makes of Python functions.                 *)
local_catalog_store == <<"gil", "store", "catalog">>

py_search == local_catalog_store \o <<"load", "list", "read">>
py_search_text == local_catalog_store \o <<"list", "read">>
py_search_with_data == local_catalog_store \o <<"load", "list", "read", "read">>
py_search_multimodal == local_catalog_store \o <<"load", "list", "read">>
py_read_changes == local_catalog_store \o <<"load", "list", "read">>
py_info == local_catalog_store \o <<"load", "list">>
py_compact == local_catalog_store \o <<"load", "check", "list", "put", "spawn", "replace">>
py_decay_memories == local_catalog_store \o <<"load", "list", "put", "replace">>
py_delete_rows == local_catalog_store \o <<"list", "put", "replace">>
py_delete_where == local_catalog_store \o <<"put", "delete">>
py_add_column == local_catalog_store \o <<"evolve">>
py_rename_column == local_catalog_store \o <<"evolve">>
py_add_vector_column == local_catalog_store \o <<"evolve">>
py_create_table == local_catalog_store \o <<"check", "create">>
py_migrate_embeddings ==
  <<"gil", "check", "store", "catalog", "load", "list", "embed", "put", "replace">>
py_backfill_vector_column == local_catalog_store \o <<"load", "check", "list", "embed", "put", "replace">>

(* The methods of a TableWriter, called one after the other: the object    *)
(* keeps the writer and its runtime between the calls.                     *)
TableWriter_new == local_catalog_store \o <<"open", "nogil">>
TableWriter_write_batch == <<"gil", "embed", "check", "put", "spawn", "nogil">>
TableWriter_write_batch_ivf_pq == <<"gil", "check", "put", "spawn", "nogil">>
TableWriter_write_batch_multi == <<"gil", "check", "put", "spawn", "nogil">>
TableWriter_commit == <<"gil", "commit">>
py_write == TableWriter_new \o TableWriter_write_batch \o TableWriter_commit
py_write_ivf_pq == TableWriter_new \o TableWriter_write_batch_ivf_pq \o TableWriter_commit
py_write_multi == TableWriter_new \o TableWriter_write_batch_multi \o TableWriter_commit

PyEntry ==
  [search |-> py_search, search_text |-> py_search_text,
   search_with_data |-> py_search_with_data, search_multimodal |-> py_search_multimodal,
   read_changes |-> py_read_changes, info |-> py_info, compact |-> py_compact,
   decay |-> py_decay_memories, delete_rows |-> py_delete_rows,
   delete_where |-> py_delete_where, add_column |-> py_add_column,
   rename_column |-> py_rename_column, add_vector |-> py_add_vector_column,
   create |-> py_create_table, migrate |-> py_migrate_embeddings,
   backfill |-> py_backfill_vector_column,
   write |-> py_write, write_ivf_pq |-> py_write_ivf_pq, write_multi |-> py_write_multi]

(* A command is a process: its arguments are checked before the table is   *)
(* touched, and no lock is shared with another command.                    *)
run == <<"store", "catalog">>

cli_create == run \o <<"create">>
cli_insert_multi == run \o <<"check", "open", "put", "spawn", "commit">>
cli_insert == run \o <<"check", "glance", "check", "open", "put", "spawn", "commit">>
cli_search_text == run \o <<"list", "read">>
cli_search == run \o <<"check", "glance", "list", "read">>
cli_compact == run \o <<"check", "load", "check", "list", "put", "spawn", "replace">>
cli_decay_memories == run \o <<"load", "check", "list", "put", "replace">>
cli_info == run \o <<"load", "list">>
cli_read_changes == run \o <<"load", "list", "read">>
cli_migrate == run \o <<"load", "list", "embed", "put", "replace">>
cli_delete_rows == run \o <<"check", "list", "put", "replace">>
cli_delete_where == run \o <<"put", "delete">>
cli_evolve == run \o <<"check", "evolve">>
cli_add_vector_column == run \o <<"evolve">>
cli_backfill_vector_column == run \o <<"load", "check", "list", "embed", "put", "replace">>

CliEntry ==
  [create |-> cli_create, insert |-> cli_insert, insert_multi |-> cli_insert_multi,
   search_text |-> cli_search_text, search |-> cli_search, compact |-> cli_compact,
   decay |-> cli_decay_memories, info |-> cli_info, read_changes |-> cli_read_changes,
   migrate |-> cli_migrate, delete_rows |-> cli_delete_rows,
   delete_where |-> cli_delete_where, evolve |-> cli_evolve,
   add_vector |-> cli_add_vector_column, backfill |-> cli_backfill_vector_column]

EntryPoints(kind) == CASE kind = "jni" -> JniEntry [] kind = "py" -> PyEntry [] kind = "cli" -> CliEntry
EntryPoint == EntryPoints(host.kind)

(* The callers use entry points of their interface; without callbacks no   *)
(* rewrite of files runs a Python function.                                *)
ASSUME HostAssumption ==
  \A h \in Host :
    /\ h.entries \subseteq DOMAIN EntryPoints(h.kind)
    /\ h.kind = "py" /\ ~h.callbacks => h.entries \cap {"migrate", "backfill"} = {}

ClientInit ==
  /\ host \in Host
  /\ table = (IF host.exists THEN [version |-> 1, rows |-> {}] ELSE NoTable)
  /\ call = [t \in Thread |-> NoCall]
  /\ mutex = NoThread /\ gil = NoThread /\ storeLock = NoThread
  /\ patches = [p \in CallId |-> NoPatch]
  /\ live = {} /\ owned = {} /\ slot = [t \in Thread |-> 0]
  /\ inserted = {} /\ deleted = {} /\ overtaken = FALSE
  /\ clientCalls = 0 /\ panics = 0

At(t, names) == call[t].rest # <<>> /\ Head(call[t].rest) \in names
Advanced(c) == [c EXCEPT !.rest = Tail(@), !.saving = FALSE]
Advance(t) == call' = [call EXCEPT ![t] = Advanced(@)]

Invoke(t) ==
  /\ call[t] = NoCall /\ clientCalls < host.calls
  /\ clientCalls' = clientCalls + 1
  /\ \E e \in host.entries :
       call' = [call EXCEPT ![t] =
                  [NoCall EXCEPT !.entry = e, !.id = clientCalls + 1, !.rest = EntryPoint[e]]]
  /\ UNCHANGED <<host, patches, table, mutex, gil, storeLock, strings, clientHistory, panics>>

(* The guards a call holds go with it, also when it unwinds: a poisoned    *)
(* mutex is taken all the same, and the lock file closes with the store.   *)
Freed(l, t) == IF l = t THEN NoThread ELSE l
Unlock_Wrong(t, clean) ==
  /\ mutex' = (IF clean THEN Freed(mutex, t) ELSE mutex)
  /\ gil' = Freed(gil, t)
  /\ storeLock' = Freed(storeLock, t)
Unlock(t, clean) ==
  /\ mutex' = Freed(mutex, t)
  /\ gil' = Freed(gil, t)
  /\ storeLock' = Freed(storeLock, t)

(* An answer of the C interface is a string the host frees; a borrowed one *)
(* takes the place of the one before it in the slot of its thread.         *)
kof_borrowed_response_Wrong(t, p) ==
  /\ slot' = [slot EXCEPT ![t] = p]
  /\ live' = live \cup {p}
kof_borrowed_response(t, p) ==
  /\ slot' = [slot EXCEPT ![t] = p]
  /\ live' = (live \cup {p}) \ {slot[t]}

Respond(t) ==
  CASE host.kind # "jni" -> UNCHANGED strings
    [] host.kind = "jni" /\ call[t].entry \in KofEntry ->
         kof_borrowed_response(t, call[t].id) /\ UNCHANGED owned
    [] OTHER -> /\ live' = live \cup {call[t].id}
                /\ owned' = owned \cup {call[t].id}
                /\ UNCHANGED slot

Answer(t, clean) ==
  /\ call' = [call EXCEPT ![t] = NoCall]
  /\ Unlock(t, clean)
  /\ Respond(t)

Return(t) ==
  /\ call[t] # NoCall /\ call[t].rest = <<>>
  /\ Answer(t, TRUE)
  /\ UNCHANGED <<host, patches, table, clientHistory, clientCalls, panics>>

(* catch_ffi_panic; PyO3 and the end of a process do the same.             *)
catch_ffi_panic(t) ==
  /\ call[t] # NoCall /\ call[t].rest # <<>> /\ panics < MaxPanics
  /\ panics' = panics + 1
  /\ Answer(t, FALSE)
  /\ UNCHANGED <<host, patches, table, clientHistory, clientCalls>>

ailake_free_string(p) ==
  /\ p \in owned
  /\ owned' = owned \ {p} /\ live' = live \ {p}
  /\ UNCHANGED <<host, patches, table, call, mutex, gil, storeLock, slot, clientHistory, clientCalls, panics>>

--------------------------------------------------------------------------------
Fail(t) == Answer(t, TRUE) /\ UNCHANGED <<table, clientHistory>>
Proceed(t, c) ==
  /\ call' = [call EXCEPT ![t] = c]
  /\ UNCHANGED <<table, mutex, gil, storeLock, strings, clientHistory>>

(* A run of local steps up to the next shared one.                         *)
Quiet == LocalStep \cup (IF host.deferred THEN {} ELSE {"spawn"})
AfterLocal(steps) ==
  LET n == CHOOSE i \in 0 .. Len(steps) :
             /\ \A j \in 1 .. i : steps[j] \in Quiet
             /\ i = Len(steps) \/ steps[i + 1] \notin Quiet
  IN  SubSeq(steps, n + 1, Len(steps))

Local(t) ==
  /\ At(t, Quiet)
  /\ Proceed(t, [call[t] EXCEPT !.rest = AfterLocal(@)]) \/ Fail(t)
  /\ UNCHANGED <<host, patches, clientCalls, panics>>

(* Reads: of the table, which must exist; of data files; and of metadata   *)
(* that may be missing.                                                    *)
Load(t) ==
  /\ At(t, {"load", "list"})
  /\ IF table.version > 0 THEN Proceed(t, [Advanced(call[t]) EXCEPT !.view = table]) ELSE Fail(t)
  /\ UNCHANGED <<host, patches, clientCalls, panics>>

Read(t) ==
  /\ \/ At(t, {"read", "glance"}) /\ Proceed(t, Advanced(call[t]))
     \/ At(t, {"read"}) /\ Fail(t)
  /\ UNCHANGED <<host, patches, clientCalls, panics>>

Lock(t) ==
  /\ At(t, {"lock"}) /\ mutex = NoThread
  /\ mutex' = t /\ Advance(t)
  /\ UNCHANGED <<host, patches, table, gil, storeLock, strings, clientHistory, clientCalls, panics>>

Gil(t) ==
  /\ \/ At(t, {"gil"}) /\ gil = NoThread /\ gil' = t
     \/ At(t, {"nogil"}) /\ gil = t /\ gil' = NoThread
  /\ Advance(t)
  /\ UNCHANGED <<host, patches, table, mutex, storeLock, strings, clientHistory, clientCalls, panics>>

(* embed_fn is a command, or a Python function, during which the           *)
(* interpreter may run another thread.                                     *)
embed(t) ==
  /\ At(t, {"embed"})
  /\ \/ Fail(t)
     \/ host.kind # "py" /\ Proceed(t, Advanced(call[t]))
     \/ /\ host.kind = "py"
        /\ gil' = NoThread
        /\ call' = [call EXCEPT ![t].rest = <<"gil">> \o Tail(@)]
        /\ UNCHANGED <<table, mutex, storeLock, strings, clientHistory>>
  /\ UNCHANGED <<host, patches, clientCalls, panics>>

--------------------------------------------------------------------------------
(* TableWriter::create_or_open: whatever load_table's error is, the table  *)
(* is created; the vector dimension of an existing one must be the         *)
(* writer's.  resume_index_jobs starts again what had stopped.             *)
resume_index_jobs ==
  patches' = [p \in CallId |-> IF patches[p].state = "stopped"
                               THEN [patches[p] EXCEPT !.state = "waiting"] ELSE patches[p]]

create_or_open(t) ==
  /\ At(t, {"open"})
  /\ \/ table.version > 0 /\ Proceed(t, Advanced(call[t])) /\ resume_index_jobs
     \/ table.version > 0 /\ Fail(t) /\ UNCHANGED patches
     \/ /\ table.version = 0
        /\ Proceed(t, [call[t] EXCEPT !.rest = <<"create">> \o Tail(@)])
        /\ UNCHANGED patches
  /\ UNCHANGED <<host, clientCalls, panics>>

(* create_table and evolve_schema read and save without the store's lock.  *)
BeginSave(t) ==
  /\ At(t, {"create", "evolve"}) /\ ~call[t].saving
  /\ LET create == At(t, {"create"})
     IN  IF create = (table.version = 0)
         THEN Proceed(t, [call[t] EXCEPT !.view = table, !.saving = TRUE])
         ELSE Fail(t)
  /\ UNCHANGED <<host, patches, clientCalls, panics>>

Save(t) ==
  /\ At(t, {"create", "evolve"}) /\ call[t].saving
  /\ table' = [version |-> table.version + 1, rows |-> IF At(t, {"create"}) THEN {} ELSE call[t].view.rows]
  /\ overtaken' = (overtaken \/ table.version # call[t].view.version)
  /\ Advance(t)
  /\ UNCHANGED <<host, patches, mutex, gil, storeLock, strings, inserted, deleted, clientCalls, panics>>

(* commit_snapshot: Append and Delete work on the metadata read under the  *)
(* lock, Replace carries the files its caller has listed.                  *)
CommitStep == {"commit", "delete", "replace"}

BeginCommit(t) ==
  /\ At(t, CommitStep) /\ ~call[t].saving
  /\ IF storeLock = NoThread /\ table.version > 0
     THEN /\ storeLock' = t
          /\ call' = [call EXCEPT ![t] =
                        [call[t] EXCEPT !.saving = TRUE,
                                        !.view = IF At(t, {"replace"}) THEN @ ELSE table]]
          /\ UNCHANGED <<table, mutex, gil, strings, clientHistory>>
     ELSE Fail(t)
  /\ UNCHANGED <<host, patches, clientCalls, panics>>

Removes(t) == At(t, {"delete"}) \/ call[t].entry = "delete_rows"

commit_snapshot(t) ==
  /\ At(t, CommitStep) /\ call[t].saving
  /\ LET base == call[t].view.rows
     IN  \E gone \in SUBSET base :
           /\ Cardinality(gone) <= 1 /\ (~Removes(t) => gone = {})
           /\ table' = [version |-> table.version + 1,
                        rows |-> (base \ gone) \cup (IF At(t, {"commit"}) THEN {call[t].id} ELSE {})]
           /\ deleted' = deleted \cup gone
  /\ inserted' = (IF At(t, {"commit"}) THEN inserted \cup {call[t].id} ELSE inserted)
  /\ overtaken' = (overtaken \/ table.version # call[t].view.version)
  /\ storeLock' = NoThread
  /\ call' = [call EXCEPT ![t] = [Advanced(@) EXCEPT !.view = table']]
  /\ UNCHANGED <<host, patches, mutex, gil, strings, clientCalls, panics>>

--------------------------------------------------------------------------------
(* A deferred write or compaction: spawn_index_job, before the call's own  *)
(* commit.  The task waits for any snapshot, lists the files and commits   *)
(* them as a Replace, again and again until its file is Ready in the list. *)
(* It takes neither jni_table_lock nor the interpreter lock.  An error     *)
(* (the store lock is busy) makes the job try again or give up.            *)
spawn_index_job(t) ==
  /\ host.deferred /\ At(t, {"spawn"})
  /\ patches' = [patches EXCEPT ![call[t].id].state = "waiting"]
  /\ Advance(t)
  /\ UNCHANGED <<host, table, mutex, gil, storeLock, strings, clientHistory, clientCalls, panics>>

PatchTo(p, state) == patches' = [patches EXCEPT ![p].state = state]

ListForPatch(p) ==
  /\ patches[p].state = "waiting" /\ patches[p].commits < MaxPatches
  /\ patches' = [patches EXCEPT ![p].state = "listed", ![p].view = table]
  /\ UNCHANGED <<host, table, call, mutex, gil, storeLock, strings, clientHistory, clientCalls, panics>>

LockForPatch(p) ==
  /\ patches[p].state = "listed"
  /\ \/ storeLock = NoThread /\ storeLock' = p /\ PatchTo(p, "saving")
     \/ storeLock # NoThread /\ PatchTo(p, "waiting") /\ UNCHANGED storeLock
  /\ UNCHANGED <<host, table, call, mutex, gil, strings, clientHistory, clientCalls, panics>>

CommitPatch(p) ==
  /\ patches[p].state = "saving"
  /\ table' = [version |-> table.version + 1, rows |-> patches[p].view.rows]
  /\ overtaken' = (overtaken \/ table.version # patches[p].view.version)
  /\ storeLock' = NoThread
  /\ patches' = [patches EXCEPT ![p] = [NoPatch EXCEPT !.state = "waiting", !.commits = patches[p].commits + 1]]
  /\ UNCHANGED <<host, call, mutex, gil, strings, inserted, deleted, clientCalls, panics>>

(* The job has succeeded or failed for good; or its runtime has gone, with *)
(* the Python writer or the process of the command.                        *)
EndPatch(p) ==
  /\ \/ /\ patches[p].state = "waiting"
        /\ patches' = [patches EXCEPT ![p] = NoPatch] /\ UNCHANGED storeLock
     \/ /\ patches[p].state \in {"waiting", "listed", "saving"} /\ host.kind # "jni"
        /\ patches' = [patches EXCEPT ![p] = [NoPatch EXCEPT !.state = "stopped", !.commits = patches[p].commits]]
        /\ storeLock' = Freed(storeLock, p)
  /\ UNCHANGED <<host, table, call, mutex, gil, strings, clientHistory, clientCalls, panics>>

PatchStep(p) == ListForPatch(p) \/ LockForPatch(p) \/ CommitPatch(p) \/ EndPatch(p)

ClientStep(t) ==
  \/ Return(t) \/ Local(t) \/ Load(t) \/ Read(t) \/ Lock(t) \/ Gil(t) \/ embed(t)
  \/ create_or_open(t) \/ BeginSave(t) \/ Save(t) \/ BeginCommit(t) \/ commit_snapshot(t)
  \/ spawn_index_job(t)

ClientNext ==
  \/ \E t \in Thread : Invoke(t) \/ ClientStep(t) \/ catch_ffi_panic(t)
  \/ \E p \in CallId : ailake_free_string(p) \/ PatchStep(p)

ClientSpec == ClientInit /\ [][ClientNext]_clientVars

(* A thread that is in a call goes on with it.                             *)
ClientFair == \A t \in Thread : WF_clientVars(ClientStep(t))

--------------------------------------------------------------------------------
TableValue == [version : Nat, rows : SUBSET CallId]

(* The shape of the state; a lock is held by a thread that is in a call,   *)
(* or by the task that commits under it.                                   *)
ClientTypeOK ==
  /\ host \in Host /\ table \in TableValue
  /\ \A t \in Thread : /\ call[t].id \in 0 .. MaxClientCalls /\ call[t].view \in TableValue
                       /\ call[t].saving \in BOOLEAN /\ call[t].rest \in Seq(Step)
  /\ patches \in [CallId -> [state : {"none", "waiting", "listed", "saving", "stopped"},
                             view : TableValue, commits : 0 .. MaxPatches]]
  /\ mutex \in Thread \cup {NoThread} /\ gil \in Thread \cup {NoThread}
  /\ storeLock \in Thread \cup CallId \cup {NoThread}
  /\ \A t \in Thread : t \in {mutex, gil, storeLock} => call[t] # NoCall
  /\ \A p \in CallId : storeLock = p <=> patches[p].state = "saving"
  /\ live \subseteq CallId /\ owned \subseteq CallId /\ slot \in [Thread -> 0 .. MaxClientCalls]
  /\ inserted \subseteq CallId /\ deleted \subseteq CallId /\ overtaken \in BOOLEAN
  /\ clientCalls \in 0 .. MaxClientCalls /\ panics \in 0 .. MaxPanics

(* Within one process no call of the C interface on an existing table, and *)
(* none of Python's that does not call back into Python, rewrites files or *)
(* the schema over a change it has not seen: jni_table_lock is taken       *)
(* before the files are listed and kept through the commit, and Python's   *)
(* calls run under the interpreter lock.  This is so while no index is     *)
(* deferred: the task of a deferred write or compaction lists the files    *)
(* and commits them as a Replace without either lock, so that it may take  *)
(* out of the table what a call has committed in between.                  *)
Serialized ==
  (/\ host.exists /\ ~host.deferred
   /\ host.kind = "jni" \/ (host.kind = "py" /\ ~host.callbacks)) => ~overtaken

(* The table holds the rows of the writes that were committed, but for     *)
(* those deleted: no panic, failed lock, retry, rewrite or index task      *)
(* loses a row or adds one, in any of the three interfaces, as long as     *)
(* nothing is saved over a version its caller, or the task, had not read.  *)
RowsStay == ~overtaken => table.rows = inserted \ deleted

(* The locks of the interfaces keep rewrites from going over changes they  *)
(* have not seen, where there is one and no index is deferred; and nothing *)
(* loses or repeats rows in any other way.                                 *)
RowsKept == Serialized /\ RowsStay

(* Every response string the library has allocated and not freed is either *)
(* the host's to free or the one borrowed last by a thread, never both:    *)
(* ailake_free_string frees once, and a kof_ call frees only the string    *)
(* its own thread borrowed before.                                         *)
StringsAccounted ==
  LET borrowed == {slot[t] : t \in Thread} \ {0}
  IN  /\ live = owned \cup borrowed
      /\ owned \cap borrowed = {}
      /\ \A t, u \in Thread : t # u /\ slot[t] # 0 => slot[t] # slot[u]

(* Every call is answered: a panic under jni_table_lock, a busy store lock *)
(* and a callback into Python leave no lock behind that another call would *)
(* wait for.                                                               *)
CallsAnswered == \A t \in Thread : call[t] # NoCall ~> call[t] = NoCall
================================================================================
