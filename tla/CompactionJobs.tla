---------------------------- MODULE CompactionJobs ----------------------------
(***************************************************************************)
(* The compaction jobs of `ailake serve`: JobManager, the handlers that    *)
(* submit, cancel and retry a job, and spawn_compaction_job                *)
(* (ailake-cli/src/serve.rs).  One server at a time, with tasks that run   *)
(* concurrently; it may crash and start again over the same job registry.  *)
(*                                                                         *)
(*   record    the registry: {id}.json of each job, or NoRecord            *)
(*   up        the server is running                                       *)
(*   at, job   per task (a handler or a spawned compaction): where it is   *)
(*             and which job it is about                                   *)
(*   doomed    per task: the jobs that its prune() has chosen to delete    *)
(*   revived   the jobs that were started again when prune() had already   *)
(*             chosen their record (a history, not in the code)            *)
(*   jobsCalls, jobsFaults, jobsCrashes                                    *)
(*             calls made, requests that failed, crashes                   *)
(*   jobsSetting   the jobs and calls there are, and how many of each of   *)
(*             the above, chosen at the start                              *)
(*                                                                         *)
(* mutate_job holds the job's lock from its read to its write, so it is    *)
(* one step.  A read of the record outside of it is a step of its own.     *)
(* updated_at, by which prune() takes the oldest, has a resolution of one  *)
(* second: any ended job may count as the oldest.                          *)
(*                                                                         *)
(* Definitions called X_Wrong are seeded faults: X with a plausible bug,   *)
(* to show that the properties notice it.  No specification uses them.     *)
(***************************************************************************)
EXTENDS Naturals, FiniteSets

CONSTANTS Job, NoJob, Task, MAX_PERSISTED_JOBS, JobsSetting

ASSUME JobsAssumption ==
  /\ NoJob \notin Job /\ IsFiniteSet(Task)
  /\ MAX_PERSISTED_JOBS \in Nat
  /\ \A s \in JobsSetting :
       /\ s.jobs \cup s.legacy \subseteq Job /\ s.call \subseteq {"submit", "cancel", "retry"}
       /\ {s.calls, s.faults, s.crashes} \subseteq Nat

VARIABLES jobsSetting, record, up, at, job, doomed, revived, jobsCalls, jobsFaults, jobsCrashes

jobTask == <<at, job, doomed>>
jobsVars == <<jobsSetting, record, up, jobTask, revived, jobsCalls, jobsFaults, jobsCrashes>>

EndedStatus == {"succeeded", "failed", "cancelled"}
Status == EndedStatus \cup {"queued", "running", "cancel_requested"}
Record == [status : Status, cancel_requested : BOOLEAN]
NoRecord == [status |-> "absent", cancel_requested |-> FALSE]
Queued == [status |-> "queued", cancel_requested |-> FALSE]
Present == {j \in Job : record[j] # NoRecord}
Label == {"idle", "prune", "delete", "spawn", "start", "set_running", "execute",
          "executed", "set_succeeded", "set_failed", "set_cancelled"}

JobsInit ==
  /\ jobsSetting \in JobsSetting
  /\ record = [j \in Job |-> NoRecord]
  /\ up = FALSE
  /\ at = [t \in Task |-> "idle"]
  /\ job = [t \in Task |-> NoJob]
  /\ doomed = [t \in Task |-> {}] /\ revived = {}
  /\ jobsCalls = 0 /\ jobsFaults = 0 /\ jobsCrashes = 0

--------------------------------------------------------------------------------
MoveTo(t, label) == at' = [at EXCEPT ![t] = label]
Enter(t, j, label) ==
  /\ up /\ at[t] = "idle"
  /\ MoveTo(t, label)
  /\ job' = [job EXCEPT ![t] = j]
  /\ UNCHANGED doomed
End(t) ==
  /\ MoveTo(t, "idle")
  /\ job' = [job EXCEPT ![t] = NoJob]
  /\ doomed' = [doomed EXCEPT ![t] = {}]

Revives(j) == revived' = revived \cup ({j} \cap UNION {doomed[t] : t \in Task})

Called(call) == call \in jobsSetting.call /\ jobsCalls < jobsSetting.calls /\ jobsCalls' = jobsCalls + 1

(* update: mutate_job, which fails when the record is gone.                *)
Updated(j, status) ==
  [status |-> status,
   cancel_requested |-> status # "running" /\ record[j].cancel_requested]
update(j, status) ==
  record' = IF record[j] = NoRecord THEN record
            ELSE [record EXCEPT ![j] = Updated(j, status)]

(* What prune() deletes: enough of the ended jobs to come down to          *)
(* MAX_PERSISTED_JOBS, or all of them.                                     *)
Prunable == {j \in Present : record[j].status \in EndedStatus}
Excess == IF Cardinality(Present) > MAX_PERSISTED_JOBS
          THEN Cardinality(Present) - MAX_PERSISTED_JOBS ELSE 0
Oldest(S) ==
  Cardinality(S) = IF Cardinality(Prunable) < Excess THEN Cardinality(Prunable) ELSE Excess

--------------------------------------------------------------------------------
(* handle_submit_compact: create the job, prune, spawn.                    *)
submit(t, j) ==
  /\ Called("submit")
  /\ j \in jobsSetting.jobs /\ record[j] = NoRecord /\ \A u \in Task : job[u] # j
  /\ Enter(t, j, "prune")
  /\ record' = [record EXCEPT ![j] = Queued]
  /\ UNCHANGED <<up, jobsFaults, jobsCrashes, jobsSetting, revived>>

(* prune(), which another task may be at already: the lock of the GC is    *)
(* taken, and this one goes on.                                            *)
PruneList(t) ==
  /\ at[t] = "prune"
  /\ IF \E u \in Task : at[u] = "delete" THEN MoveTo(t, "spawn") /\ UNCHANGED doomed
     ELSE /\ \E S \in SUBSET Prunable :
               /\ Oldest(S)
               /\ doomed' = [doomed EXCEPT ![t] = S]
          /\ MoveTo(t, "delete")
  /\ UNCHANGED <<record, up, job, jobsCalls, jobsFaults, jobsCrashes, jobsSetting, revived>>

PruneDelete(t) ==
  /\ at[t] = "delete"
  /\ IF doomed[t] = {} THEN MoveTo(t, "spawn") /\ UNCHANGED <<record, doomed>>
     ELSE \E j \in doomed[t] :
            /\ record' = [record EXCEPT ![j] = NoRecord]
            /\ doomed' = [doomed EXCEPT ![t] = @ \ {j}]
            /\ UNCHANGED at
  /\ UNCHANGED <<up, job, jobsCalls, jobsFaults, jobsCrashes, jobsSetting, revived>>

(* handle_cancel_job.                                                      *)
Cancelled(r) ==
  CASE r.status = "queued" -> [r EXCEPT !.status = "cancelled"]
    [] r.status = "running" -> [status |-> "cancel_requested", cancel_requested |-> TRUE]
    [] OTHER -> r

cancel(j) ==
  /\ up /\ Called("cancel")
  /\ record[j].status \in {"queued", "running", "cancel_requested", "cancelled"}
  /\ record' = [record EXCEPT ![j] = Cancelled(@)]
  /\ UNCHANGED <<up, jobTask, jobsFaults, jobsCrashes, jobsSetting, revived>>

(* handle_retry_job: queue the job again, and spawn.                       *)
retry(t, j) ==
  /\ Called("retry")
  /\ record[j].status \in {"failed", "cancelled"}
  /\ Enter(t, j, "spawn")
  /\ record' = [record EXCEPT ![j] = Queued]
  /\ Revives(j)
  /\ UNCHANGED <<up, jobsFaults, jobsCrashes, jobsSetting>>

(* The handler answers, and its task goes on as the spawned one.           *)
spawn_compaction_job(t) ==
  /\ at[t] = "spawn"
  /\ MoveTo(t, "start")
  /\ UNCHANGED <<record, up, job, doomed, jobsCalls, jobsFaults, jobsCrashes, jobsSetting, revived>>

--------------------------------------------------------------------------------
(* The spawned task.  The registry is asked before and after.              *)
StartsCancelled(t) == record[job[t]].cancel_requested

AskBefore(t) ==
  /\ at[t] = "start"
  /\ MoveTo(t, IF StartsCancelled(t) THEN "set_cancelled" ELSE "set_running")
  /\ UNCHANGED <<record, up, job, doomed, jobsCalls, jobsFaults, jobsCrashes, jobsSetting, revived>>

SetRunning(t) ==
  /\ at[t] = "set_running"
  /\ update(job[t], "running")
  /\ MoveTo(t, "execute")
  /\ Revives(job[t])
  /\ UNCHANGED <<up, job, doomed, jobsCalls, jobsFaults, jobsCrashes, jobsSetting>>

execute_compaction(t) ==
  /\ at[t] = "execute"
  /\ \E label \in {"executed", "set_failed"} : MoveTo(t, label)
  /\ UNCHANGED <<record, up, job, doomed, jobsCalls, jobsFaults, jobsCrashes, jobsSetting, revived>>

AskAfter(t) ==
  /\ at[t] = "executed"
  /\ MoveTo(t, IF record[job[t]].cancel_requested THEN "set_cancelled" ELSE "set_succeeded")
  /\ UNCHANGED <<record, up, job, doomed, jobsCalls, jobsFaults, jobsCrashes, jobsSetting, revived>>

FinalStatus == [set_succeeded |-> "succeeded", set_failed |-> "failed",
                set_cancelled |-> "cancelled"]

SetEnded(t) ==
  /\ at[t] \in DOMAIN FinalStatus
  /\ update(job[t], FinalStatus[at[t]])
  /\ End(t)
  /\ UNCHANGED <<up, jobsCalls, jobsFaults, jobsCrashes, jobsSetting, revived>>

--------------------------------------------------------------------------------
(* A request to the registry fails, or its lock is not to be had: an error *)
(* of a handler ends it, and the spawned task ignores it and goes on.      *)
RequestFails(t) ==
  /\ at[t] \in {"prune", "start", "set_running", "executed"} \cup DOMAIN FinalStatus
  /\ jobsFaults < jobsSetting.faults /\ jobsFaults' = jobsFaults + 1
  /\ CASE at[t] = "start" -> MoveTo(t, "set_running") /\ UNCHANGED <<job, doomed>>
       [] at[t] = "set_running" -> MoveTo(t, "execute") /\ UNCHANGED <<job, doomed>>
       [] at[t] = "executed" -> MoveTo(t, "set_succeeded") /\ UNCHANGED <<job, doomed>>
       [] OTHER -> End(t)
  /\ UNCHANGED <<record, up, jobsCalls, jobsCrashes, jobsSetting, revived>>

CrashServer ==
  /\ up /\ jobsCrashes < jobsSetting.crashes
  /\ jobsCrashes' = jobsCrashes + 1
  /\ up' = FALSE
  /\ at' = [t \in Task |-> "idle"]
  /\ job' = [t \in Task |-> NoJob]
  /\ doomed' = [t \in Task |-> {}]
  /\ UNCHANGED <<record, jobsCalls, jobsFaults, jobsSetting, revived>>

(* JobManager::load, before the server takes requests: the jobs of the     *)
(* legacy registry file that are not in the new one are created, those     *)
(* left running have failed, and prune() runs with nobody else.  run()     *)
(* then spawns a task for every job that is queued.                        *)
Migrated(j) == IF record[j] = NoRecord /\ j \in jobsSetting.legacy THEN Queued ELSE record[j]
Recovered(r) ==
  IF r.status \in {"running", "cancel_requested"} THEN [r EXCEPT !.status = "failed"] ELSE r
Resumed_Wrong == {}
Resumed == {j \in Job : record'[j].status = "queued"}

load ==
  /\ ~up
  /\ up' = TRUE
  /\ LET recovered == [j \in Job |-> Recovered(Migrated(j))]
         present == {j \in Job : recovered[j] # NoRecord}
         ended == {j \in present : recovered[j].status \in EndedStatus}
         excess == IF Cardinality(present) > MAX_PERSISTED_JOBS
                   THEN Cardinality(present) - MAX_PERSISTED_JOBS ELSE 0
     IN  \E S \in SUBSET ended :
           /\ Cardinality(S) = IF Cardinality(ended) < excess THEN Cardinality(ended) ELSE excess
           /\ record' = [j \in Job |-> IF j \in S THEN NoRecord ELSE recovered[j]]
  /\ job' \in [Task -> Resumed \cup {NoJob}]
  /\ \A j \in Resumed : Cardinality({t \in Task : job'[t] = j}) = 1
  /\ at' = [t \in Task |-> IF job'[t] = NoJob THEN "idle" ELSE "start"]
  /\ UNCHANGED <<doomed, jobsCalls, jobsFaults, jobsCrashes, jobsSetting, revived>>

TaskStep(t) ==
  \/ PruneList(t) \/ PruneDelete(t) \/ spawn_compaction_job(t) \/ AskBefore(t)
  \/ SetRunning(t) \/ execute_compaction(t) \/ AskAfter(t) \/ SetEnded(t)

JobsNext ==
  \/ \E t \in Task, j \in Job : submit(t, j) \/ retry(t, j)
  \/ \E j \in Job : cancel(j)
  \/ \E t \in Task : TaskStep(t) \/ RequestFails(t)
  \/ CrashServer \/ load

JobsSpec == JobsInit /\ [][JobsNext]_jobsVars

(* Tasks are polled until they end, and a crashed server is started again. *)
JobsFair == (\A t \in Task : WF_jobsVars(TaskStep(t))) /\ WF_jobsVars(load)

--------------------------------------------------------------------------------
JobsTypeOK ==
  /\ jobsSetting \in JobsSetting
  /\ record \in [Job -> Record \cup {NoRecord}]
  /\ up \in BOOLEAN
  /\ at \in [Task -> Label]
  /\ job \in [Task -> Job \cup {NoJob}]
  /\ doomed \in [Task -> SUBSET Job] /\ revived \subseteq Job
  /\ jobsCalls \in Nat /\ jobsFaults \in Nat /\ jobsCrashes \in Nat

(* A record that says running, or cancel_requested, has a task of this     *)
(* server at work on it: none is left behind by a crash, a cancellation or *)
(* a retry, as long as no update was lost.                                 *)
WorksOn(t, j) ==
  job[t] = j /\ at[t] \in {"execute", "executed", "set_succeeded", "set_failed", "set_cancelled"}
RunningHasTask ==
  up /\ jobsFaults = 0 =>
    \A j \in Job : record[j].status \in {"running", "cancel_requested"} =>
                     \E t \in Task : WorksOn(t, j)

(* A request to cancel is forgotten by the next start: a job that starts   *)
(* running, or waits to, is not cancelled before anybody asks.             *)
FreshStart ==
  \A j \in Job : record[j].status \in {"queued", "running"} => ~record[j].cancel_requested

(* prune() deletes records of ended jobs only, except those of jobs that   *)
(* somebody started again between its listing and its deletions: a retry,  *)
(* or the task of a job that was cancelled before it began.                *)
PruneKeepsLive ==
  [][\A j \in Job : record'[j] = NoRecord /\ record[j] # NoRecord =>
       record[j].status \in EndedStatus \/ ~up \/ j \in revived]_jobsVars

(* "Resume jobs that were durably queued before the previous process       *)
(* exited": every job that is queued comes to an end, or is pruned,        *)
(* however often the server stops, unless a request to the registry fails. *)
JobsEnd ==
  \A j \in Job : record[j].status = "queued" ~>
    record[j].status \in EndedStatus \cup {"absent"} \/ jobsFaults > 0

(* The registry can be trusted: what it calls running is worked on, what   *)
(* starts is not cancelled yet, what is pruned had ended when it was       *)
(* chosen, and what is queued comes to an end.                             *)
JobsSound == [](RunningHasTask /\ FreshStart) /\ PruneKeepsLive /\ JobsEnd
================================================================================
