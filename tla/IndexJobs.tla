------------------------------- MODULE IndexJobs -------------------------------
(***************************************************************************)
(* One deferred index build: its job record, the workers that run it, and  *)
(* the calls that cancel, retry and resume it                              *)
(* (ailake-query/src/index_jobs.rs, and spawn_index_job, resume_index_jobs *)
(* and the build_and_patch functions of ailake-query/src/writer.rs).  The  *)
(* run lock is the fenced lease of module Lease.                           *)
(*                                                                         *)
(*   record      metadata/index-jobs/{id}.json                             *)
(*   cancelFile  whether {id}.cancel exists                                *)
(*   file        the shard: Parquet only, rewritten with its index, or     *)
(*               torn, while LocalStore's put is writing it over           *)
(*   entry       its index_status in the table; "none" when the table has  *)
(*               no snapshot, "absent" before the shard is committed and   *)
(*               "dropped" when a Replace left it out                      *)
(*   sibling     the status another task of the table has listed for the   *)
(*               shard, and will commit with its own Replace               *)
(*   overwritten, overlooked                                               *)
(*               history: such a commit has changed the entry since the    *)
(*               last patch of this job; the shard was not in the list     *)
(*               that was patched                                          *)
(*   lease, now  the run lock {id}.run.lock, and the time                  *)
(*   wpc, rec, after, token, tries, seen                                   *)
(*               per worker: where it is, the record it has read, where it *)
(*               goes after a fenced write, its fencing token, patches     *)
(*               made, the status it has listed                            *)
(*   cpc, crec   per caller: where it is, and the record it has read       *)
(*   calls, faults, restarts, storeFaults, siblings                        *)
(*               calls made; crashes and failed builds; restarts to come;  *)
(*               failed requests for the record, the lock or the cancel    *)
(*               file; commits of siblings                                 *)
(*                                                                         *)
(*   setting     how the job is run, chosen at the start: whether the lock *)
(*               is an object store's expiring lease, which ends with time *)
(*               only (the file lock of LocalStore is freed with its       *)
(*               process, and its check_lock_fence always answers yes);    *)
(*               whether the shard is committed first, and whether the     *)
(*               table has an earlier snapshot; the calls made; and how    *)
(*               often calls, faults, store faults and commits of siblings *)
(*               happen                                                    *)
(*                                                                         *)
(* A process crash is a crash of each of its workers.                      *)
(*                                                                         *)
(* Definitions called X_Wrong are seeded faults: X with a plausible bug,   *)
(* to show that the properties notice it.  No specification uses them.     *)
(***************************************************************************)
EXTENDS Integers, FiniteSets

CONSTANTS Worker,           \* a set of numbers: the first idle one is started
          NoWorker, Caller,
          MAX_ATTEMPTS,     \* 3 in the code
          PATCH_ATTEMPTS,   \* 50 in the code
          LOCK_LEASE_MS, Setting, MaxTime

ASSUME JobAssumption ==
  /\ Worker \subseteq Nat /\ NoWorker \notin Worker
  /\ MAX_ATTEMPTS \in Nat \ {0} /\ PATCH_ATTEMPTS \in Nat \ {0}
  /\ LOCK_LEASE_MS \in Nat \ {0} /\ MaxTime \in Nat
  /\ \A s \in Setting :
       /\ s.expiring \in BOOLEAN /\ s.committedFirst \in BOOLEAN /\ s.earlier \in BOOLEAN
       /\ s.call \subseteq {"cancel", "retry", "resume"}
       /\ {s.calls, s.faults, s.storeFaults, s.siblings} \subseteq Nat

VARIABLES setting, record, cancelFile, file, entry, sibling, overwritten, overlooked,
          lease, now, wpc, rec, after, token, tries, seen, cpc, crec, calls, faults, restarts,
          storeFaults, siblings

job == <<record, cancelFile>>
shard == <<file, entry, sibling, overwritten, overlooked>>
clock == <<lease, now>>
worker == <<wpc, rec, after, token, tries, seen>>
caller == <<cpc, crec>>
bounds == <<setting, calls, faults, restarts, storeFaults, siblings>>
jobVars == <<job, shard, clock, worker, caller, bounds>>

Lock == INSTANCE Lease WITH Client <- Worker, NoClient <- NoWorker

Status == {"queued", "running", "succeeded", "failed", "cancelled"}
Record == [status : Status, attempts : 0 .. MAX_ATTEMPTS, cancel_requested : BOOLEAN]
NewRecord == [status |-> "queued", attempts |-> 0, cancel_requested |-> FALSE]
Building == {"checkpoint1", "put_file", "finish_put", "checkpoint2", "wait", "patch",
             "commit_ready", "verify", "checkpoint3"}
Label == Building \cup
  {"off", "claim", "claimed", "unless_cancelled", "check", "put", "succeed", "error",
   "fail", "patch_failed", "commit_failed", "release", "release_retry"}
Listed == {"absent", "indexing", "ready", "failed", "dropped"}
Missing == {"none", "absent", "dropped"}
NoAfter == [ok |-> "off", err |-> "off"]

First(S) == CHOOSE w \in S : \A v \in S : w <= v

(* create, and the first worker, which spawn_index_job has started.        *)
JobInit ==
  /\ setting \in Setting
  /\ record = NewRecord /\ cancelFile = FALSE
  /\ file = "parquet"
  /\ entry = (IF setting.committedFirst THEN "indexing"
              ELSE IF setting.earlier THEN "absent" ELSE "none")
  /\ sibling = "none" /\ overwritten = FALSE /\ overlooked = FALSE
  /\ Lock!LeaseInit
  /\ wpc = [w \in Worker |-> IF w = First(Worker) THEN "claim" ELSE "off"]
  /\ rec = [w \in Worker |-> NewRecord]
  /\ after = [w \in Worker |-> NoAfter]
  /\ token = [w \in Worker |-> 0]
  /\ tries = [w \in Worker |-> 0]
  /\ seen = [w \in Worker |-> "absent"]
  /\ cpc = [c \in Caller |-> "idle"]
  /\ crec = [c \in Caller |-> NewRecord]
  /\ calls = 0 /\ faults = 0 /\ restarts = 0 /\ storeFaults = 0 /\ siblings = 0

--------------------------------------------------------------------------------
is_cancel_requested == record.cancel_requested \/ cancelFile

StoreFault ==
  /\ storeFaults < setting.storeFaults
  /\ storeFaults' = storeFaults + 1
  /\ UNCHANGED <<setting, calls, faults, restarts, siblings>>

WorkerTo(w, label) == wpc' = [wpc EXCEPT ![w] = label]
Local == UNCHANGED <<rec, after, token, tries, seen>>

(* A worker that is done forgets its local variables.                      *)
Stop(w) ==
  /\ WorkerTo(w, "off")
  /\ rec' = [rec EXCEPT ![w] = NewRecord]
  /\ after' = [after EXCEPT ![w] = NoAfter]
  /\ token' = [token EXCEPT ![w] = 0]
  /\ tries' = [tries EXCEPT ![w] = 0]
  /\ seen' = [seen EXCEPT ![w] = "absent"]

(* write_fenced(r): check the fence, then put.  It goes on to ok after the *)
(* put, and to err when the fence is no longer valid.                      *)
WriteFenced(w, r, ok, err) ==
  /\ rec' = [rec EXCEPT ![w] = r]
  /\ after' = [after EXCEPT ![w] = [ok |-> ok, err |-> err]]
  /\ WorkerTo(w, "check")
  /\ UNCHANGED <<token, tries, seen>>

check_lock_fence(w) == setting.expiring => Lock!HoldsFence(w, token[w])

CheckFence(w) ==
  /\ wpc[w] = "check"
  /\ WorkerTo(w, IF check_lock_fence(w) THEN "put" ELSE after[w].err)
  /\ Local /\ UNCHANGED <<job, shard, clock, caller, bounds>>

PutRecord(w) ==
  /\ wpc[w] = "put"
  /\ record' = rec[w]
  /\ WorkerTo(w, after[w].ok)
  /\ Local /\ UNCHANGED <<cancelFile, shard, clock, caller, bounds>>

(* The check or the put fails; a failed put may have been carried out.     *)
WriteFails(w) ==
  /\ wpc[w] \in {"check", "put"}
  /\ StoreFault
  /\ record' \in {record} \cup (IF wpc[w] = "put" THEN {rec[w]} ELSE {})
  /\ WorkerTo(w, after[w].err)
  /\ Local /\ UNCHANGED <<cancelFile, shard, clock, caller>>

--------------------------------------------------------------------------------
(* try_claim.                                                              *)
LockFree == Lock!Expired

try_acquire_lock_fenced_Wrong(w) ==
  /\ wpc[w] = "claim"
  /\ IF LockFree
     THEN /\ lease' = [owner |-> w, fence |-> lease.fence + 1, expires |-> now + LOCK_LEASE_MS]
          /\ token' = [token EXCEPT ![w] = lease.fence + 1]
     ELSE UNCHANGED <<lease, token>>
  /\ WorkerTo(w, "claimed")
  /\ UNCHANGED <<now, rec, after, tries, seen, job, shard, caller, bounds>>
try_acquire_lock_fenced(w) ==
  /\ wpc[w] = "claim"
  /\ IF LockFree
     THEN /\ lease' = [owner |-> w, fence |-> lease.fence + 1, expires |-> now + LOCK_LEASE_MS]
          /\ token' = [token EXCEPT ![w] = lease.fence + 1]
          /\ WorkerTo(w, "claimed")
          /\ UNCHANGED <<now, rec, after, tries, seen>>
     ELSE Stop(w) /\ UNCHANGED clock
  /\ UNCHANGED <<job, shard, caller, bounds>>

Over == record.status \in {"succeeded", "cancelled"} \/ record.attempts >= MAX_ATTEMPTS

ReadClaim(w) ==
  /\ wpc[w] = "claimed"
  /\ rec' = [rec EXCEPT ![w] = record]
  /\ WorkerTo(w, IF Over THEN "release" ELSE "unless_cancelled")
  /\ UNCHANGED <<job, shard, clock, after, token, tries, seen, caller, bounds>>

Claim(w) ==
  /\ wpc[w] = "unless_cancelled"
  /\ IF is_cancel_requested
     THEN WriteFenced(w, [rec[w] EXCEPT !.status = "cancelled", !.cancel_requested = TRUE],
                      "release", "off")
     ELSE WriteFenced(w, [rec[w] EXCEPT !.status = "running", !.attempts = @ + 1],
                      "checkpoint1", "release")
  /\ UNCHANGED <<job, shard, clock, caller, bounds>>

(* A failed read of the record ends the worker, which keeps the lock.      *)
ClaimFails(w) ==
  /\ wpc[w] \in {"claimed", "unless_cancelled"}
  /\ StoreFault
  /\ Stop(w)
  /\ UNCHANGED <<job, shard, clock, caller>>

(* release_lock_fenced gives back a lease that is still the caller's own.  *)
Released(w) ==
  IF lease.owner = w /\ lease.fence = token[w] /\ ~Lock!Expired
  THEN [lease EXCEPT !.expires = now - 1] ELSE lease

release_claim(w) ==
  /\ wpc[w] \in {"release", "release_retry"}
  /\ lease' = Released(w)
  /\ IF wpc[w] = "release" THEN Stop(w)
     ELSE /\ WorkerTo(w, "claim")
          /\ token' = [token EXCEPT ![w] = 0] /\ tries' = [tries EXCEPT ![w] = 0]
          /\ seen' = [seen EXCEPT ![w] = "absent"]
          /\ UNCHANGED <<rec, after>>
  /\ UNCHANGED <<job, shard, now, caller, bounds>>

(* The heartbeat of a worker that builds.                                  *)
renew_claim(w) ==
  /\ setting.expiring /\ wpc[w] \in Building
  /\ Lock!HoldsFence(w, token[w])
  /\ lease.expires < now + LOCK_LEASE_MS
  /\ lease' = [lease EXCEPT !.expires = now + LOCK_LEASE_MS]
  /\ UNCHANGED <<now, job, shard, worker, caller, bounds>>

--------------------------------------------------------------------------------
(* build_and_patch_index.  The checkpoints before the build and after it   *)
(* are one here, and with them the read of the shard, which fails on a     *)
(* torn file.  A checkpoint gives up when the job is cancelled, and writes *)
(* the progress when the record says that the job runs.                    *)
NextStage == [checkpoint1 |-> "put_file", checkpoint2 |-> "wait", checkpoint3 |-> "succeed"]

checkpoint_index_job(w) ==
  /\ wpc[w] \in DOMAIN NextStage
  /\ IF is_cancel_requested \/ (wpc[w] = "checkpoint1" /\ file = "torn")
     THEN WorkerTo(w, "error") /\ Local
     ELSE IF record.status = "running"
     THEN WriteFenced(w, record, NextStage[wpc[w]], "error")
     ELSE WorkerTo(w, NextStage[wpc[w]]) /\ Local
  /\ UNCHANGED <<job, shard, clock, caller, bounds>>

(* The index is appended to the shard, which is put under the same name:   *)
(* at once in an object store, while LocalStore truncates the file first.  *)
PutFile_Wrong(w) ==
  /\ wpc[w] = "put_file"
  /\ WorkerTo(w, "checkpoint2")
  /\ Local /\ UNCHANGED <<shard, job, clock, caller, bounds>>
PutFile(w) ==
  /\ wpc[w] \in {"put_file", "finish_put"}
  /\ IF wpc[w] = "put_file" /\ ~setting.expiring
     THEN file' = "torn" /\ WorkerTo(w, "finish_put")
     ELSE file' = "indexed" /\ WorkerTo(w, "checkpoint2")
  /\ Local /\ UNCHANGED <<entry, sibling, overwritten, overlooked, job, clock, caller, bounds>>

(* The build waits, up to a minute, for the table to have a snapshot, with *)
(* a checkpoint before every look.                                         *)
HasSnapshot == entry # "none"

WaitForSnapshot(w) ==
  /\ wpc[w] = "wait"
  /\ \E label \in IF HasSnapshot THEN {"patch"} ELSE {"checkpoint2", "error"} : WorkerTo(w, label)
  /\ Local /\ UNCHANGED <<job, shard, clock, caller, bounds>>

(* A Replace commits a list of files that was made some time before: the   *)
(* shard gets the status it has in the list, and is out of the table when  *)
(* it is not in it.                                                        *)
InList == IF entry = "none" THEN "absent" ELSE entry
Replaced(status) == IF status = "absent" /\ entry \notin Missing THEN "dropped" ELSE status
Patched(w, status) == IF seen[w] \in Missing THEN seen[w] ELSE status

(* The loop that sets index_status: list the files, commit the list with   *)
(* this one Ready, if it is there, and see whether it is; the loop ends    *)
(* after the last attempt even if it is not.                               *)
ListForPatch(w) ==
  /\ wpc[w] = "patch"
  /\ seen' = [seen EXCEPT ![w] = InList]
  /\ WorkerTo(w, IF entry = "ready" THEN "checkpoint3" ELSE "commit_ready")
  /\ UNCHANGED <<job, shard, clock, rec, after, token, tries, caller, bounds>>

CommitReady_Wrong(w) ==
  /\ wpc[w] = "commit_ready"
  /\ WorkerTo(w, "checkpoint3")
  /\ Local /\ UNCHANGED <<job, shard, clock, caller, bounds>>
CommitReady(w) ==
  /\ wpc[w] = "commit_ready"
  /\ entry' = Replaced(Patched(w, "ready"))
  /\ overwritten' = FALSE /\ overlooked' = (seen[w] \in Missing)
  /\ tries' = [tries EXCEPT ![w] = @ + 1]
  /\ WorkerTo(w, "verify")
  /\ UNCHANGED <<file, sibling, job, clock, rec, after, token, seen, caller, bounds>>

VerifyReady(w) ==
  /\ wpc[w] = "verify"
  /\ WorkerTo(w, IF entry = "ready" \/ tries[w] = PATCH_ATTEMPTS THEN "checkpoint3" ELSE "patch")
  /\ Local /\ UNCHANGED <<job, shard, clock, caller, bounds>>

succeed(w) ==
  /\ wpc[w] = "succeed"
  /\ WriteFenced(w, [record EXCEPT !.status = "succeeded"], "release", "release")
  /\ UNCHANGED <<job, shard, clock, caller, bounds>>

--------------------------------------------------------------------------------
(* A request to the store or the catalog fails, or the build does.         *)
BuildFails(w) ==
  /\ wpc[w] \in Building
  /\ faults < setting.faults
  /\ faults' = faults + 1
  /\ WorkerTo(w, "error")
  /\ Local
  /\ UNCHANGED <<job, shard, clock, caller, setting, calls, restarts, storeFaults, siblings>>

AfterError(w) ==
  /\ wpc[w] = "error"
  /\ IF is_cancel_requested
     THEN WriteFenced(w, [record EXCEPT !.status = "cancelled", !.cancel_requested = TRUE],
                      "release", "release")
     ELSE WorkerTo(w, "fail") /\ Local
  /\ UNCHANGED <<job, shard, clock, caller, bounds>>

(* An error of is_cancel_requested counts as "no", one of fail_or_retry as *)
(* "do not retry".                                                         *)
AfterErrorFails(w) ==
  /\ wpc[w] \in {"error", "fail"}
  /\ StoreFault
  /\ WorkerTo(w, IF wpc[w] = "error" THEN "fail" ELSE "patch_failed")
  /\ Local /\ UNCHANGED <<job, shard, clock, caller>>

MayRetry_Wrong == TRUE
MayRetry == record.attempts < MAX_ATTEMPTS

fail_or_retry(w) ==
  /\ wpc[w] = "fail"
  /\ IF MayRetry /\ ~record.cancel_requested
     THEN WriteFenced(w, [record EXCEPT !.status = "queued"], "release_retry", "patch_failed")
     ELSE WriteFenced(w, [record EXCEPT !.status = "failed"], "patch_failed", "patch_failed")
  /\ UNCHANGED <<job, shard, clock, caller, bounds>>

(* The same for Failed, once, and with no error when a request fails.      *)
patch_index_failed(w) ==
  /\ wpc[w] = "patch_failed"
  /\ seen' = [seen EXCEPT ![w] = InList]
  /\ WorkerTo(w, "commit_failed")
  /\ UNCHANGED <<job, shard, clock, rec, after, token, tries, caller, bounds>>

CommitFailed(w) ==
  /\ wpc[w] = "commit_failed"
  /\ entry' = Replaced(Patched(w, "failed"))
  /\ WorkerTo(w, "release")
  /\ Local /\ UNCHANGED <<file, sibling, overwritten, overlooked, job, clock, caller, bounds>>

PatchFailedFails(w) ==
  /\ wpc[w] \in {"patch_failed", "commit_failed"}
  /\ faults < setting.faults
  /\ faults' = faults + 1
  /\ WorkerTo(w, "release")
  /\ Local
  /\ UNCHANGED <<job, shard, clock, caller, setting, calls, restarts, storeFaults, siblings>>

--------------------------------------------------------------------------------
(* The calls.  Each reads the record, and writes it without a fence.       *)
CallTo(c, label) == cpc' = [cpc EXCEPT ![c] = label]

Called ==
  \/ calls < setting.calls /\ calls' = calls + 1 /\ UNCHANGED <<setting, restarts, storeFaults, siblings>>
  \/ restarts > 0 /\ restarts' = restarts - 1 /\ UNCHANGED <<setting, calls, storeFaults, siblings>>

request_cancel(c) ==
  /\ "cancel" \in setting.call /\ cpc[c] = "idle" /\ calls < setting.calls
  /\ record.status \in {"queued", "running"}
  /\ calls' = calls + 1
  /\ crec' = [crec EXCEPT ![c] = [record EXCEPT !.cancel_requested = TRUE]]
  /\ CallTo(c, "cancel_file")
  /\ UNCHANGED <<job, shard, clock, worker, setting, faults, restarts, storeFaults, siblings>>

PutCancelFile(c) ==
  /\ cpc[c] = "cancel_file"
  /\ cancelFile' = TRUE
  /\ CallTo(c, "write")
  /\ UNCHANGED <<record, shard, clock, worker, crec, bounds>>

(* handle_retry_index_job: retry, then resume_index_jobs.                  *)
retry(c) ==
  /\ "retry" \in setting.call /\ cpc[c] = "idle" /\ calls < setting.calls
  /\ record.status \in {"failed", "cancelled"}
  /\ calls' = calls + 1
  /\ crec' = [crec EXCEPT ![c] = NewRecord]
  /\ CallTo(c, "delete_cancel_file")
  /\ UNCHANGED <<job, shard, clock, worker, setting, faults, restarts, storeFaults, siblings>>

DeleteCancelFile(c) ==
  /\ cpc[c] = "delete_cancel_file"
  /\ \/ cancelFile' = FALSE /\ UNCHANGED bounds
     \/ StoreFault /\ UNCHANGED cancelFile
  /\ CallTo(c, "write_resume")
  /\ UNCHANGED <<record, shard, clock, worker, crec>>

(* Any other failed request, or a crash, ends the call.                    *)
CallFails(c) ==
  /\ cpc[c] # "idle"
  /\ StoreFault
  /\ CallTo(c, "idle")
  /\ UNCHANGED <<job, shard, clock, worker, crec>>

(* resume_index_jobs, at a restart, from a new writer, or after a retry:   *)
(* recover_after_restart makes a running job queued, whoever runs it.      *)
recover_after_restart(c) ==
  LET recovered == IF record.attempts >= MAX_ATTEMPTS THEN "failed"
                   ELSE IF is_cancel_requested THEN "cancelled" ELSE "queued"
  IN  /\ crec' = [crec EXCEPT ![c] =
                    [record EXCEPT !.status = recovered,
                                   !.cancel_requested = @ \/ recovered = "cancelled"]]
      /\ CallTo(c, CASE record.status = "running" -> "write_spawn"
                     [] record.status = "queued" -> "spawn"
                     [] OTHER -> "idle")
      /\ UNCHANGED <<job, shard, clock, worker>>

resume_index_jobs(c) ==
  \/ /\ cpc[c] = "resume"
     /\ recover_after_restart(c) /\ UNCHANGED bounds
  \/ /\ "resume" \in setting.call /\ cpc[c] = "idle"
     /\ Called /\ recover_after_restart(c) /\ UNCHANGED faults

WriteUnfenced(c) ==
  /\ cpc[c] \in {"write", "write_resume", "write_spawn"}
  /\ record' = crec[c]
  /\ CallTo(c, CASE cpc[c] = "write" -> "idle"
                 [] cpc[c] = "write_resume" -> "resume"
                 [] crec[c].status = "queued" -> "spawn"
                 [] OTHER -> "idle")
  /\ UNCHANGED <<cancelFile, shard, clock, worker, crec, bounds>>

spawn_index_job(c) ==
  /\ cpc[c] = "spawn"
  /\ LET idle == {w \in Worker : wpc[w] = "off"}
     IN  idle # {} /\ WorkerTo(First(idle), "claim")
  /\ CallTo(c, "idle")
  /\ Local /\ UNCHANGED <<job, shard, clock, crec, bounds>>

--------------------------------------------------------------------------------
(* The writer that made the shard commits it, as Indexing.                 *)
CommitShard ==
  /\ entry \in {"none", "absent"}
  /\ entry' = "indexing"
  /\ UNCHANGED <<file, sibling, overwritten, overlooked, job, clock, worker, caller, bounds>>

(* Another task of the table, which patches a shard of its own: it lists   *)
(* the files, and its Replace carries this shard as it was listed.         *)
SiblingLists ==
  /\ sibling = "none" /\ siblings < setting.siblings /\ HasSnapshot
  /\ sibling' = entry
  /\ siblings' = siblings + 1
  /\ UNCHANGED <<file, entry, overwritten, overlooked, job, clock, worker, caller,
                 setting, calls, faults, restarts, storeFaults>>

SiblingCommits ==
  /\ sibling # "none"
  /\ entry' = Replaced(sibling)
  /\ sibling' = "none"
  /\ overwritten' = (overwritten \/ entry' # entry)
  /\ UNCHANGED <<file, overlooked, job, clock, worker, caller, bounds>>

Crash(w) ==
  /\ wpc[w] # "off"
  /\ faults < setting.faults
  /\ faults' = faults + 1 /\ restarts' = restarts + 1
  /\ Stop(w)
  /\ lease' = (IF setting.expiring THEN lease ELSE Released(w))
  /\ UNCHANGED <<now, job, shard, caller, setting, calls, storeFaults, siblings>>

Tick ==
  /\ setting.expiring /\ now < MaxTime
  /\ Lock!Tick
  /\ UNCHANGED <<job, shard, worker, caller, bounds>>

WorkerStep(w) ==
  \/ CheckFence(w) \/ PutRecord(w) \/ try_acquire_lock_fenced(w) \/ ReadClaim(w) \/ Claim(w)
  \/ release_claim(w) \/ checkpoint_index_job(w) \/ PutFile(w) \/ WaitForSnapshot(w)
  \/ ListForPatch(w) \/ CommitReady(w) \/ VerifyReady(w) \/ succeed(w) \/ AfterError(w)
  \/ fail_or_retry(w) \/ patch_index_failed(w) \/ CommitFailed(w)

CallerStep(c) ==
  \/ PutCancelFile(c) \/ DeleteCancelFile(c) \/ WriteUnfenced(c) \/ spawn_index_job(c)
  \/ cpc[c] = "resume" /\ resume_index_jobs(c)

JobNext ==
  \/ \E w \in Worker : WorkerStep(w) \/ renew_claim(w) \/ BuildFails(w) \/ Crash(w)
                       \/ WriteFails(w) \/ ClaimFails(w) \/ AfterErrorFails(w)
                       \/ PatchFailedFails(w)
  \/ \E c \in Caller : request_cancel(c) \/ retry(c) \/ resume_index_jobs(c) \/ CallerStep(c)
                       \/ CallFails(c)
  \/ CommitShard \/ SiblingLists \/ SiblingCommits
  \/ Tick

JobSpec == JobInit /\ [][JobNext]_jobVars

(* Tasks are polled until they end, a crashed process is started again and *)
(* resumes its jobs, the writer commits, and time passes.                  *)
Restart(c) == restarts > 0 /\ cpc[c] = "idle" /\ resume_index_jobs(c)

FairJobSpec ==
  /\ JobSpec
  /\ \A w \in Worker : WF_jobVars(WorkerStep(w))
  /\ \A c \in Caller : WF_jobVars(CallerStep(c)) /\ WF_jobVars(Restart(c))
  /\ WF_jobVars(CommitShard) /\ WF_jobVars(Tick)

--------------------------------------------------------------------------------
JobTypeOK ==
  /\ setting \in Setting
  /\ record \in Record /\ cancelFile \in BOOLEAN
  /\ file \in {"parquet", "torn", "indexed"}
  /\ {entry, sibling} \subseteq Listed \cup {"none"}
  /\ overwritten \in BOOLEAN /\ overlooked \in BOOLEAN
  /\ lease.owner \in Worker \cup {NoWorker} /\ lease.fence \in Nat /\ lease.expires \in Int
  /\ now \in Nat
  /\ wpc \in [Worker -> Label] /\ rec \in [Worker -> Record]
  /\ after \in [Worker -> [ok : Label, err : Label]]
  /\ token \in [Worker -> Nat] /\ tries \in [Worker -> 0 .. PATCH_ATTEMPTS]
  /\ seen \in [Worker -> Listed]
  /\ cpc \in [Caller -> {"idle", "cancel_file", "write", "delete_cancel_file",
                         "write_resume", "resume", "write_spawn", "spawn"}]
  /\ crec \in [Caller -> Record]
  /\ {calls, faults, restarts, storeFaults, siblings} \subseteq Nat

(* "two processes cannot build the same file concurrently on LocalStore"   *)
(* (try_claim), whatever crashes, cancellations, retries and resumptions   *)
(* of live jobs come between.                                              *)
Builds(w) == wpc[w] \in Building \/ after[w].ok \in Building
OneBuilder ==
  ~setting.expiring => \A v, w \in Worker : Builds(v) /\ Builds(w) => v = w

(* A job that reports success has left its shard Ready in the table, and   *)
(* it stays Ready until the Replace of another task changes it ("the last  *)
(* writer wins and may overwrite a sibling task's Ready status",           *)
(* build_and_patch_index_with_job); unless the shard was not in the list   *)
(* of files that the job patched: the loop goes on without an error when   *)
(* the table has a snapshot and the writer has yet to commit the shard.    *)
(* This is for the lock of LocalStore, under which no other worker builds. *)
SucceededIsReady ==
  ~setting.expiring /\ record.status = "succeeded" =>
    entry = "ready" \/ overwritten \/ overlooked

(* Whoever sees the job succeeded finds an index in the file, even when    *)
(* leases are lost; and so do readers that find the entry Ready, except    *)
(* that on LocalStore a job that was resumed after its patch may be        *)
(* writing the file over, or have stopped while it was.                    *)
ClaimsAreIndexed ==
  /\ record.status = "succeeded" => file = "indexed"
  /\ entry = "ready" => file = "indexed" \/ (file = "torn" /\ ~setting.expiring)

(* The run lock is used as Lease describes it, which is what the object    *)
(* store's protocol is shown to implement.                                 *)
LockIsLease == Lock!LeaseSpec

(* Every job comes to an end, however often its builds fail and its        *)
(* workers crash: attempts are bounded, and restarts resume it.  This is   *)
(* for the lock of LocalStore, a store that does not fail, and a job that  *)
(* nobody cancels: the unfenced write of request_cancel may put back a     *)
(* record that was queued before the worker ended it.                      *)
Settled == record.status \in {"succeeded", "failed", "cancelled"}
JobSettles == <>[](Settled \/ setting.expiring \/ storeFaults > 0 \/ calls > 0)
================================================================================
