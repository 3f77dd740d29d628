----------------------------- MODULE HadoopCatalog -----------------------------
(***************************************************************************)
(* HadoopCatalog (ailake-catalog/src/hadoop.rs): a table is a file         *)
(* version-hint.text and the vN.metadata.json it names.  commit_snapshot   *)
(* runs under an in-process mutex and a lock of the store; create_table,   *)
(* evolve_schema and drop_table take neither.  Processes may crash, tasks  *)
(* may be dropped at an await, stores may fail.                            *)
(*                                                                         *)
(*   hint        version-hint.text, 0 = no such file                       *)
(*   metadata    vN.metadata.json by N; a snapshot is what TableLog calls  *)
(*               one, since its manifests have names of their own and      *)
(*               OccCatalog shows that they are read as they were written  *)
(*   lock        the process that holds .ailake-commit.lock                *)
(*   mutex       commit_lock of each process                               *)
(*   pc, req     per task: where it is and what it was asked to do         *)
(*   version, meta, result   its local variables                           *)
(*   outcome, calls          answers by request; requests made             *)
(*   readFaults  failed reads of the hint, which count as "no such file"   *)
(*   setting     how the catalog is used, chosen at the start:             *)
(*     processOf the process of each task                                  *)
(*     ops       the operations called                                     *)
(*     expiring  the lock is an object store's lease: it can end under its *)
(*               holder, and it outlives a crash.  Otherwise it is the file*)
(*               lock of LocalStore, which the system frees with a process *)
(*     atomicPut a put is one step; LocalStore's truncates the file, then  *)
(*               writes it.  Only the hint is read while it is written     *)
(*     exists    there is a table at the start                             *)
(*     calls, faults, crashes   bounds on requests, on failed reads of the *)
(*               hint, and on crashes and dropped tasks                    *)
(*                                                                         *)
(* Definitions called X_Wrong are seeded faults: X with a plausible bug,   *)
(* to show that the properties notice it.  No specification uses them.     *)
(***************************************************************************)
EXTENDS Integers, Sequences, FiniteSets

CONSTANTS Process, NoProcess, Client, NoClient, Setting,
          MaxCalls    \* no setting has more requests

CommitOp == {"append", "delete", "replace", "overwrite"}

ASSUME HadoopAssumption ==
  /\ NoProcess \notin Process /\ NoClient \notin Client
  /\ MaxCalls \in Nat
  /\ \A s \in Setting :
       /\ DOMAIN s.processOf \subseteq Client /\ \A c \in DOMAIN s.processOf : s.processOf[c] \in Process
       /\ s.ops \subseteq CommitOp \cup {"create", "evolve", "drop"}
       /\ s.expiring \in BOOLEAN /\ s.atomicPut \in BOOLEAN /\ s.exists \in BOOLEAN
       /\ s.calls \in 0 .. MaxCalls /\ s.faults \in Nat /\ s.crashes \in Nat

VARIABLES setting, hint, metadata, lock, mutex, pc, req, version, meta, result,
          outcome, calls, readFaults, crashes

locks == <<lock, mutex>>
locals == <<req, version, meta, result>>
bounds == <<setting, calls, crashes>>
vars == <<hint, metadata, locks, pc, locals, outcome, readFaults, bounds>>

Id == 1 .. MaxCalls
MaxVersions == MaxCalls + 1
Task == DOMAIN setting.processOf
ProcessOf == setting.processOf

Torn == -1
NoMeta == [snapshots |-> <<>>, evolutions |-> <<>>, present |-> FALSE]
EmptyMeta == [NoMeta EXCEPT !.present = TRUE]
NoRequest == [op |-> "none", id |-> 0, files |-> {}, deletes |-> {}]
Label == {"idle", "lock", "acquire", "hint", "meta", "next", "put", "put_hint",
          "write_hint", "release", "check", "drop", "drop_meta", "drop_hint"}

--------------------------------------------------------------------------------
(* What a reader of the table finds.  A hint that is empty parses as 1.    *)
current_version == IF hint = Torn THEN 1 ELSE hint
Current == metadata[current_version]

Log == Current.snapshots
Abstract == INSTANCE TableLog WITH
  exists <- Current.present, log <- Log, evolutions <- Current.evolutions

ListedPaths == {e.path : e \in Abstract!Listed("files")}

Init ==
  /\ setting \in Setting
  /\ hint = (IF setting.exists THEN 1 ELSE 0)
  /\ metadata = [v \in 0 .. MaxVersions |->
                   IF setting.exists /\ v = 1 THEN EmptyMeta ELSE NoMeta]
  /\ lock = NoProcess
  /\ mutex = [p \in Process |-> NoClient]
  /\ pc = [c \in Client |-> "idle"]
  /\ req = [c \in Client |-> NoRequest]
  /\ version = [c \in Client |-> 0]
  /\ meta = [c \in Client |-> NoMeta]
  /\ result = [c \in Client |-> "none"]
  /\ outcome = [i \in Id |-> "none"]
  /\ calls = 0 /\ readFaults = 0 /\ crashes = 0

Goto(c, label) == pc' = [pc EXCEPT ![c] = label]

(* commit_lock's guard is dropped with the call that has it.               *)
Unlocked_Wrong(tasks) == mutex
Unlocked(tasks) == [p \in Process |-> IF mutex[p] \in tasks THEN NoClient ELSE mutex[p]]

Idle(tasks, answer) ==
  /\ pc' = [c \in Client |-> IF c \in tasks THEN "idle" ELSE pc[c]]
  /\ req' = [c \in Client |-> IF c \in tasks THEN NoRequest ELSE req[c]]
  /\ version' = [c \in Client |-> IF c \in tasks THEN 0 ELSE version[c]]
  /\ meta' = [c \in Client |-> IF c \in tasks THEN NoMeta ELSE meta[c]]
  /\ result' = [c \in Client |-> IF c \in tasks THEN "none" ELSE result[c]]
  /\ outcome' = [i \in Id |-> IF \E c \in tasks : pc[c] # "idle" /\ req[c].id = i
                              THEN answer ELSE outcome[i]]
  /\ mutex' = Unlocked(tasks)

Return(c, answer) == Idle({c}, answer)

(* The end of an operation's body: commit_snapshot goes on to release its  *)
(* lock with the result at hand, the others return.                        *)
End(c, answer) ==
  IF req[c].op \in CommitOp
  THEN /\ Goto(c, "release")
       /\ result' = [result EXCEPT ![c] = answer]
       /\ UNCHANGED <<req, version, meta, outcome, mutex>>
  ELSE Return(c, answer)

(* A read of the hint that fails counts as an absent hint.                 *)
ReadVersion(v) ==
  \/ v = current_version /\ UNCHANGED readFaults
  \/ v = 0 /\ readFaults < setting.faults /\ readFaults' = readFaults + 1

--------------------------------------------------------------------------------
Begin(c) ==
  /\ pc[c] = "idle" /\ calls < setting.calls
  /\ calls' = calls + 1
  /\ \E op \in setting.ops, kept \in SUBSET ListedPaths :
       /\ op \notin {"replace", "overwrite"} => kept = {}
       /\ req' = [req EXCEPT ![c] =
                    [op |-> op, id |-> calls + 1,
                     files |-> IF op \in CommitOp \ {"delete"} THEN kept \cup {calls + 1} ELSE {},
                     deletes |-> IF op = "delete" THEN {calls + 1} ELSE {}]]
       /\ Goto(c, CASE op \in CommitOp -> "lock" [] op = "create" -> "check"
                    [] op = "evolve" -> "hint" [] op = "drop" -> "drop")
  /\ UNCHANGED <<hint, metadata, locks, version, meta, result, outcome, readFaults, setting, crashes>>

(* commit_snapshot waits for the mutex of its process ...                  *)
MutexFree(c) == mutex[ProcessOf[c]] = NoClient

Lock(c) ==
  /\ pc[c] = "lock"
  /\ MutexFree(c)
  /\ mutex' = [mutex EXCEPT ![ProcessOf[c]] = c]
  /\ Goto(c, "acquire")
  /\ UNCHANGED <<hint, metadata, lock, locals, outcome, readFaults, bounds>>

(* ... and does not wait for the lock of the store.                        *)
LockFree_Wrong(p) == TRUE
LockFree(p) == lock = NoProcess

try_acquire_lock(c) ==
  /\ pc[c] = "acquire"
  /\ IF LockFree(ProcessOf[c])
     THEN /\ lock' = ProcessOf[c] /\ Goto(c, "hint")
          /\ UNCHANGED <<mutex, locals, outcome>>
     ELSE Return(c, "locked") /\ UNCHANGED lock
  /\ UNCHANGED <<hint, metadata, readFaults, bounds>>

(* load_raw_metadata: the hint, then the file it names.                    *)
ReadHint(c) ==
  /\ pc[c] = "hint"
  /\ \E v \in 0 .. MaxVersions : ReadVersion(v) /\ version' = [version EXCEPT ![c] = v]
  /\ Goto(c, "meta")
  /\ UNCHANGED <<hint, metadata, locks, req, meta, result, outcome, bounds>>

(* commit_into_metadata, or the new schema of evolve_schema.               *)
Listed(m, field) ==
  IF m.snapshots = <<>> THEN {} ELSE m.snapshots[Len(m.snapshots)][field]

Applied(r, m) ==
  LET kept(field) == IF r.op \in {"append", "delete"} THEN Listed(m, field) ELSE {}
      stamped(paths) == {[path |-> p, seq |-> Len(m.snapshots) + 1] : p \in paths}
      snapshot == [id |-> r.id, files |-> kept("files") \cup stamped(r.files),
                   deletes |-> kept("deletes") \cup stamped(r.deletes)]
  IN  IF r.op = "evolve" THEN [m EXCEPT !.evolutions = Append(@, r.id)]
      ELSE [m EXCEPT !.snapshots = Append(@, snapshot)]

ReadMetadata(c) ==
  /\ pc[c] = "meta"
  /\ IF metadata[version[c]].present
     THEN /\ meta' = [meta EXCEPT ![c] = Applied(req[c], metadata[version[c]])]
          /\ Goto(c, "next")
          /\ UNCHANGED <<req, version, result, outcome, mutex>>
     ELSE End(c, "not_found")
  /\ UNCHANGED <<hint, metadata, lock, readFaults, bounds>>

(* create_table: the guard against an existing table.                      *)
Absent(v) == v = 0

CheckAbsent(c) ==
  /\ pc[c] = "check"
  /\ \E v \in 0 .. MaxVersions :
       /\ ReadVersion(v)
       /\ IF ~Absent(v) THEN Return(c, "exists")
          ELSE /\ meta' = [meta EXCEPT ![c] = EmptyMeta]
               /\ Goto(c, "next")
               /\ UNCHANGED <<req, version, result, outcome, mutex>>
  /\ UNCHANGED <<hint, metadata, lock, bounds>>

--------------------------------------------------------------------------------
(* save_metadata: read the hint again, put the next version, put the hint. *)
Successor_Wrong(v) == v
Successor(v) == v + 1

NextVersion(c) ==
  /\ pc[c] = "next"
  /\ \E v \in 0 .. MaxVersions : ReadVersion(v) /\ version' = [version EXCEPT ![c] = Successor(v)]
  /\ Goto(c, "put")
  /\ UNCHANGED <<hint, metadata, locks, req, meta, result, outcome, bounds>>

PutMetadata(c) ==
  /\ pc[c] = "put"
  /\ metadata' = [metadata EXCEPT ![version[c]] = meta[c]]
  /\ Goto(c, "put_hint")
  /\ UNCHANGED <<hint, locks, locals, outcome, readFaults, bounds>>

PutHint(c) ==
  /\ pc[c] = (IF setting.atomicPut THEN "put_hint" ELSE "write_hint")
  /\ hint' = version[c]
  /\ End(c, "ok")
  /\ UNCHANGED <<metadata, lock, readFaults, bounds>>

TruncateHint(c) ==
  /\ ~setting.atomicPut
  /\ pc[c] = "put_hint"
  /\ hint' = Torn
  /\ Goto(c, "write_hint")
  /\ UNCHANGED <<metadata, locks, locals, outcome, readFaults, bounds>>

(* An error of release_lock is the answer even of a commit that is done.   *)
Answered_Wrong(c, released) == IF released THEN "ok" ELSE "unknown"
Answered(c, released) == IF result[c] = "ok" /\ ~released THEN "unknown" ELSE result[c]

release_lock(c) ==
  /\ pc[c] = "release"
  /\ \/ /\ lock' = (IF lock = ProcessOf[c] THEN NoProcess ELSE lock)
        /\ Return(c, Answered(c, TRUE))
     \/ Return(c, Answered(c, FALSE)) /\ UNCHANGED lock
  /\ UNCHANGED <<hint, metadata, readFaults, bounds>>

--------------------------------------------------------------------------------
(* drop_table: delete the current metadata, then the hint.                 *)
drop_table(c) ==
  /\ \/ /\ pc[c] = "drop"
        /\ \E v \in 0 .. MaxVersions :
             /\ ReadVersion(v)
             /\ IF v = 0 THEN Return(c, "ok")
                ELSE /\ version' = [version EXCEPT ![c] = v]
                     /\ Goto(c, "drop_meta")
                     /\ UNCHANGED <<req, meta, result, outcome, mutex>>
        /\ UNCHANGED <<hint, metadata>>
     \/ /\ pc[c] = "drop_meta"
        /\ metadata' = [metadata EXCEPT ![version[c]] = NoMeta]
        /\ Goto(c, "drop_hint")
        /\ UNCHANGED <<hint, mutex, locals, outcome, readFaults>>
     \/ /\ pc[c] = "drop_hint"
        /\ hint' = 0
        /\ Return(c, "ok")
        /\ UNCHANGED <<metadata, readFaults>>
  /\ UNCHANGED <<lock, bounds>>

(* A request to the store fails; commit_snapshot still releases its lock.  *)
Fail(c) ==
  /\ pc[c] \notin {"idle", "lock", "release"}
  /\ IF pc[c] = "acquire" THEN Return(c, "unknown") ELSE End(c, "unknown")
  /\ UNCHANGED <<hint, metadata, lock, readFaults, bounds>>

(* The future is dropped at an await: the mutex is freed, the store's lock *)
(* is not.                                                                 *)
Cancel(c) ==
  /\ pc[c] # "idle" /\ crashes < setting.crashes
  /\ crashes' = crashes + 1
  /\ Return(c, "unknown")
  /\ UNCHANGED <<hint, metadata, lock, readFaults, setting, calls>>

Crash(p) ==
  /\ crashes < setting.crashes
  /\ \E c \in Task : ProcessOf[c] = p /\ pc[c] # "idle"
  /\ crashes' = crashes + 1
  /\ Idle({c \in Task : ProcessOf[c] = p}, "unknown")
  /\ lock' = (IF lock = p /\ ~setting.expiring THEN NoProcess ELSE lock)
  /\ UNCHANGED <<hint, metadata, readFaults, setting, calls>>

Expire ==
  /\ setting.expiring /\ lock # NoProcess
  /\ lock' = NoProcess
  /\ UNCHANGED <<hint, metadata, mutex, pc, locals, outcome, readFaults, bounds>>

Step(c) ==
  \/ Lock(c) \/ try_acquire_lock(c) \/ ReadHint(c) \/ ReadMetadata(c) \/ CheckAbsent(c)
  \/ NextVersion(c) \/ PutMetadata(c) \/ TruncateHint(c) \/ PutHint(c) \/ release_lock(c)
  \/ drop_table(c)

Next ==
  \/ \E c \in Task : Begin(c) \/ Step(c) \/ Fail(c) \/ Cancel(c)
  \/ \E p \in Process : Crash(p)
  \/ Expire

Spec == Init /\ [][Next]_vars

(* A task that is not dropped is polled until it returns.                  *)
FairSpec == Spec /\ \A c \in Client : WF_vars(c \in Task /\ Step(c))

--------------------------------------------------------------------------------
Entry == [path : Id, seq : 1 .. MaxVersions]
Snapshot == [id : Id, files : SUBSET Entry, deletes : SUBSET Entry]
IsMeta(m) ==
  /\ m.present \in BOOLEAN
  /\ \A i \in DOMAIN m.snapshots : m.snapshots[i] \in Snapshot
  /\ \A i \in DOMAIN m.evolutions : m.evolutions[i] \in Id
Answer == {"none", "ok", "unknown", "locked", "not_found", "exists"}

TypeOK ==
  /\ setting \in Setting /\ calls \in 0 .. MaxCalls
  /\ hint \in 0 .. MaxVersions \cup {Torn}
  /\ DOMAIN metadata = 0 .. MaxVersions /\ \A v \in 0 .. MaxVersions : IsMeta(metadata[v])
  /\ metadata[0] = NoMeta
  /\ lock \in Process \cup {NoProcess}
  /\ mutex \in [Process -> Client \cup {NoClient}]
  /\ pc \in [Client -> Label]
  /\ version \in [Client -> 0 .. MaxVersions]
  /\ \A c \in Client : IsMeta(meta[c])
  /\ result \in [Client -> Answer] /\ outcome \in [Id -> Answer]

(* Whatever two processes, dropped tasks, crashes and failing requests do, *)
(* commit_snapshot is atomic: it appends one snapshot to the log as it is  *)
(* when the hint is put.                                                   *)
ImplementsTableLog == Abstract!LogSpec

(* A commit that was acknowledged is in the table from then on, and one    *)
(* that was refused because of the lock, or found no table, never is, as   *)
(* long as only commit_snapshot is called.                                 *)
InLog(id) == \E i \in DOMAIN Log : Log[i].id = id

CommitsDurable ==
  setting.ops \subseteq CommitOp =>
    \A id \in Id :
      /\ outcome[id] = "ok" => InLog(id)
      /\ outcome[id] \in {"locked", "not_found"} => ~InLog(id)

(* A snapshot of the log stays in it (drop_table aside): "Two concurrent   *)
(* tokio tasks could both read version N and both write version N+1,       *)
(* causing one commit to be silently discarded.  Fixed".                   *)
SnapshotsStay ==
  [][\A i \in DOMAIN Log : \E j \in DOMAIN Log' : Log'[j].id = Log[i].id]_vars

(* A call that is not dropped comes to its end: nothing is left waiting    *)
(* for a mutex, whatever errors its holder meets.                          *)
CallsReturn == \A c \in Client : pc[c] # "idle" ~> pc[c] = "idle"
================================================================================
