-------------------------- MODULE CompactionJobsProofs --------------------------
(***************************************************************************)
(* Proofs about CompactionJobs, for any number of jobs and tasks and any   *)
(* setting.  The invariant adds to the properties what they rest on: which *)
(* tasks have a job (TasksInv), that one prune() deletes at a time (GcInv) *)
(* and that what it is to delete has ended, unless it was started again    *)
(* since (DoomedInv).                                                      *)
(***************************************************************************)
EXTENDS CompactionJobs, TLAPS

TasksInv ==
  /\ \A t \in Task : at[t] = "idle" <=> job[t] = NoJob
  /\ ~up => \A t \in Task : job[t] = NoJob /\ doomed[t] = {}

GcInv ==
  /\ \A t \in Task : doomed[t] # {} => at[t] = "delete"
  /\ \A t, u \in Task : at[t] = "delete" /\ at[u] = "delete" => t = u

DoomedInv ==
  \A t \in Task : \A j \in doomed[t] : record[j].status \in EndedStatus \/ j \in revived

JobsInv == JobsTypeOK /\ TasksInv /\ GcInv /\ DoomedInv /\ RunningHasTask /\ FreshStart

--------------------------------------------------------------------------------
(* The records the code makes.                                             *)
LEMMA Records ==
  /\ NoRecord.status = "absent" /\ NoRecord \notin Record
  /\ Queued \in Record /\ Queued.status = "queued" /\ ~Queued.cancel_requested
  /\ \A r \in Record : r # NoRecord /\ r.status \in Status
<1>1. NoRecord.status = "absent" /\ "absent" \notin Status
  BY DEF NoRecord, Status, EndedStatus
<1> QED
  BY <1>1 DEF Queued, Record, Status

(* No job and no task yet.                                                 *)
LEMMA InitJobs == JobsInit => JobsInv
<1> SUFFICES ASSUME JobsInit PROVE JobsInv
  OBVIOUS
<1>1. JobsTypeOK
  BY Zenon DEF JobsInit, JobsTypeOK, Label
<1>2. TasksInv /\ GcInv /\ DoomedInv
  BY DEF JobsInit, TasksInv, GcInv, DoomedInv
<1>3. RunningHasTask /\ FreshStart
  BY Records DEF JobsInit, RunningHasTask, FreshStart
<1> QED
  BY <1>1, <1>2, <1>3 DEF JobsInv

--------------------------------------------------------------------------------
Works == {"execute", "executed", "set_succeeded", "set_failed", "set_cancelled"}
Counts == jobsCalls \in Nat /\ jobsFaults \in Nat /\ jobsCrashes \in Nat

(* A task that goes on with its job, having nothing to delete.             *)
LEMMA GoesOn ==
  ASSUME JobsInv, NEW t \in Task, NEW label \in Label \ {"idle", "delete"}, MoveTo(t, label),
         at[t] # "idle", doomed[t] = {}, UNCHANGED <<record, up, job, doomed, jobsSetting, revived>>,
         Counts', jobsFaults' = 0 => jobsFaults = 0,
         jobsFaults' = 0 /\ at[t] \in Works => label \in Works
  PROVE  JobsInv'
<1>1. at' \in [Task -> Label] /\ at'[t] = label /\ \A u \in Task \ {t} : at'[u] = at[u]
  BY DEF JobsInv, JobsTypeOK, MoveTo
<1>2. JobsTypeOK'
  BY <1>1 DEF JobsInv, JobsTypeOK, Counts
<1>3. TasksInv' /\ GcInv'
  BY <1>1 DEF JobsInv, TasksInv, GcInv
<1>4. DoomedInv' /\ FreshStart'
  BY DEF JobsInv, DoomedInv, FreshStart
<1>5. RunningHasTask'
  <2> SUFFICES ASSUME up, jobsFaults' = 0, NEW j \in Job,
                      record[j].status \in {"running", "cancel_requested"}
               PROVE  \E u \in Task : WorksOn(u, j)'
    BY DEF RunningHasTask
  <2>1. PICK u \in Task : WorksOn(u, j)
    BY DEF JobsInv, RunningHasTask
  <2>2. WorksOn(u, j)'
    BY <1>1, <2>1 DEF WorksOn, Works
  <2> QED
    BY <2>2
<1> QED
  BY <1>2, <1>3, <1>4, <1>5 DEF JobsInv

(* The steps of a task that only ask, and those whose request fails.       *)
LEMMA AskKeeps ==
  ASSUME JobsInv, NEW t \in Task,
         spawn_compaction_job(t) \/ AskBefore(t) \/ execute_compaction(t) \/ AskAfter(t)
  PROVE  JobsInv'
<1>1. /\ at[t] \in {"spawn", "start", "execute", "executed"} /\ doomed[t] = {}
      /\ UNCHANGED <<record, up, job, doomed, jobsSetting, jobsFaults, revived>> /\ Counts'
  BY DEF JobsInv, JobsTypeOK, GcInv, Counts, spawn_compaction_job, AskBefore, execute_compaction,
     AskAfter
<1>2. PICK label \in {"start"} \cup Works \cup {"set_running"} :
        MoveTo(t, label) /\ (at[t] \in Works => label \in Works)
  BY DEF spawn_compaction_job, AskBefore, execute_compaction, AskAfter, Works
<1>3. label \in Label \ {"idle", "delete"}
  BY DEF Label, Works
<1> QED
  BY <1>1, <1>2, <1>3, GoesOn

(* prune(): what is chosen has ended, and nobody else is deleting.         *)
LEMMA PruneListKeeps == ASSUME JobsInv, NEW t \in Task, PruneList(t) PROVE JobsInv'
<1>1. /\ at[t] = "prune" /\ doomed[t] = {} /\ Counts'
      /\ UNCHANGED <<record, up, job, jobsSetting, jobsFaults, revived>>
  BY DEF JobsInv, JobsTypeOK, GcInv, Counts, PruneList
<1>2. CASE \E u \in Task : at[u] = "delete"
  <2>1. MoveTo(t, "spawn") /\ doomed' = doomed
    BY <1>2 DEF PruneList
  <2> QED
    BY <1>1, <2>1, GoesOn DEF Label, Works
<1>3. CASE ~\E u \in Task : at[u] = "delete"
  <2>1. PICK S \in SUBSET Prunable : doomed' = [doomed EXCEPT ![t] = S]
    BY <1>3 DEF PruneList
  <2>2. MoveTo(t, "delete") /\ S \subseteq Job /\ \A j \in S : record[j].status \in EndedStatus
    BY <1>3, <2>1 DEF PruneList, Prunable, Present
  <2>3. /\ at' \in [Task -> Label] /\ at'[t] = "delete" /\ doomed' \in [Task -> SUBSET Job]
        /\ \A u \in Task \ {t} : at'[u] = at[u] /\ doomed'[u] = doomed[u]
    BY <2>1, <2>2 DEF JobsInv, JobsTypeOK, MoveTo, Label
  <2>4. JobsTypeOK'
    BY <1>1, <2>3 DEF JobsInv, JobsTypeOK, Counts
  <2>5. TasksInv' /\ GcInv'
    BY <1>1, <1>3, <2>3 DEF JobsInv, TasksInv, GcInv
  <2>6. DoomedInv' /\ FreshStart'
    BY <1>1, <2>1, <2>2, <2>3 DEF JobsInv, JobsTypeOK, DoomedInv, FreshStart
  <2>7. RunningHasTask'
    BY <1>1, <2>3 DEF JobsInv, RunningHasTask, WorksOn
  <2> QED
    BY <2>4, <2>5, <2>6, <2>7 DEF JobsInv
<1> QED
  BY <1>2, <1>3

(* A record that has been chosen is deleted.                               *)
LEMMA PruneDeleteKeeps == ASSUME JobsInv, NEW t \in Task, PruneDelete(t) PROVE JobsInv'
<1>1. /\ at[t] = "delete" /\ Counts' /\ UNCHANGED <<up, job, jobsSetting, jobsFaults, revived>>
  BY DEF JobsInv, JobsTypeOK, Counts, PruneDelete
<1>2. CASE doomed[t] = {}
  <2>1. MoveTo(t, "spawn") /\ UNCHANGED <<record, doomed>>
    BY <1>2 DEF PruneDelete
  <2> QED
    BY <1>1, <1>2, <2>1, GoesOn DEF Label, Works
<1>3. CASE doomed[t] # {}
  <2>1. PICK j \in doomed[t] : /\ record' = [record EXCEPT ![j] = NoRecord]
                               /\ doomed' = [doomed EXCEPT ![t] = @ \ {j}] /\ at' = at
    BY <1>3 DEF PruneDelete
  <2>2. /\ record' \in [Job -> Record \cup {NoRecord}] /\ doomed' \in [Task -> SUBSET Job]
        /\ j \in Job /\ record'[j] = NoRecord /\ \A k \in Job \ {j} : record'[k] = record[k]
        /\ doomed'[t] = doomed[t] \ {j} /\ \A u \in Task \ {t} : doomed'[u] = doomed[u]
    BY <2>1 DEF JobsInv, JobsTypeOK
  <2>3. JobsTypeOK'
    BY <1>1, <2>1, <2>2 DEF JobsInv, JobsTypeOK, Counts
  <2>4. TasksInv' /\ GcInv'
    BY <1>1, <2>1, <2>2 DEF JobsInv, TasksInv, GcInv
  <2>5. DoomedInv'
    <3>1. \A u \in Task : \A k \in doomed'[u] : k \in Job /\ k # j /\ k \in doomed[u]
      BY <1>1, <2>2 DEF JobsInv, JobsTypeOK, GcInv
    <3> QED
      BY <1>1, <2>2, <3>1 DEF JobsInv, DoomedInv
  <2>6. FreshStart' /\ RunningHasTask'
    BY <1>1, <2>1, <2>2, Records DEF JobsInv, FreshStart, RunningHasTask, WorksOn
  <2> QED
    BY <2>3, <2>4, <2>5, <2>6 DEF JobsInv
<1> QED
  BY <1>2, <1>3

--------------------------------------------------------------------------------
(* What mutate_job leaves in the registry.                                 *)
LEMMA UpdateWrites ==
  ASSUME JobsInv, NEW j \in Job, NEW status \in {"running"} \cup EndedStatus, update(j, status)
  PROVE  /\ record' \in [Job -> Record \cup {NoRecord}]
         /\ \A k \in Job \ {j} : record'[k] = record[k]
         /\ record[j] = NoRecord => record'[j] = NoRecord
         /\ record[j] # NoRecord => record'[j].status = status
         /\ status = "running" /\ record[j] # NoRecord => ~record'[j].cancel_requested
<1> DEFINE r == Updated(j, status)
<1>1. record \in [Job -> Record \cup {NoRecord}]
  BY DEF JobsInv, JobsTypeOK
<1>2. (status # "running" /\ record[j].cancel_requested) \in BOOLEAN /\ status \in Status
  BY DEF Status
<1>3. r \in Record /\ r.status = status /\ (status = "running" => ~r.cancel_requested)
  BY Zenon, <1>2 DEF Updated, Record
<1> HIDE DEF r
<1>4. record' = IF record[j] = NoRecord THEN record ELSE [record EXCEPT ![j] = r]
  BY DEF update, r
<1> QED
  BY <1>1, <1>3, <1>4

(* The job starts running.                                                 *)
LEMMA SetRunningKeeps == ASSUME JobsInv, NEW t \in Task, SetRunning(t) PROVE JobsInv'
<1>1. /\ at[t] = "set_running" /\ doomed[t] = {} /\ Counts' /\ update(job[t], "running")
      /\ UNCHANGED <<up, job, doomed, jobsSetting, jobsFaults>> /\ MoveTo(t, "execute")
      /\ job[t] \in Job /\ job[t] # NoJob /\ Revives(job[t])
  BY DEF JobsInv, JobsTypeOK, TasksInv, GcInv, Counts, SetRunning
<1>2. /\ record' \in [Job -> Record \cup {NoRecord}]
      /\ \A k \in Job \ {job[t]} : record'[k] = record[k]
      /\ record[job[t]] = NoRecord => record'[job[t]] = NoRecord
      /\ record[job[t]] # NoRecord =>
           record'[job[t]].status = "running" /\ ~record'[job[t]].cancel_requested
  BY <1>1, UpdateWrites
<1>3. at' \in [Task -> Label] /\ at'[t] = "execute" /\ \A u \in Task \ {t} : at'[u] = at[u]
  BY <1>1 DEF JobsInv, JobsTypeOK, MoveTo, Label
<1>4. JobsTypeOK'
  BY <1>1, <1>2, <1>3 DEF JobsInv, JobsTypeOK, Counts, Revives
<1>5. TasksInv' /\ GcInv'
  BY <1>1, <1>3 DEF JobsInv, TasksInv, GcInv
<1>6. DoomedInv'
  BY <1>1, <1>2 DEF JobsInv, JobsTypeOK, DoomedInv, Revives
<1>7. FreshStart'
  BY <1>1, <1>2, Records DEF JobsInv, FreshStart
<1>8. RunningHasTask'
  <2> SUFFICES ASSUME up, jobsFaults = 0, NEW j \in Job,
                      record'[j].status \in {"running", "cancel_requested"}
               PROVE  \E u \in Task : WorksOn(u, j)'
    BY <1>1 DEF RunningHasTask
  <2>1. CASE j = job[t]
    <3>1. WorksOn(t, j)'
      BY <1>1, <1>3, <2>1 DEF WorksOn
    <3> QED
      BY <3>1
  <2>2. CASE j # job[t]
    <3>1. PICK u \in Task : WorksOn(u, j)
      BY <1>2, <2>2 DEF JobsInv, RunningHasTask
    <3>2. WorksOn(u, j)'
      BY <1>1, <1>3, <3>1, <2>2 DEF WorksOn
    <3> QED
      BY <3>2
  <2> QED
    BY <2>1, <2>2
<1> QED
  BY <1>4, <1>5, <1>6, <1>7, <1>8 DEF JobsInv

(* A task that ends has no job.                                            *)
LEMMA EndMoves ==
  ASSUME JobsInv, NEW t \in Task, End(t)
  PROVE  /\ at' \in [Task -> Label] /\ job' \in [Task -> Job \cup {NoJob}]
         /\ doomed' \in [Task -> SUBSET Job]
         /\ at'[t] = "idle" /\ job'[t] = NoJob /\ doomed'[t] = {}
         /\ \A u \in Task \ {t} : at'[u] = at[u] /\ job'[u] = job[u] /\ doomed'[u] = doomed[u]
BY DEF JobsInv, JobsTypeOK, End, MoveTo, Label

(* The job has ended, and so has its task.                                 *)
LEMMA SetEndedKeeps == ASSUME JobsInv, NEW t \in Task, SetEnded(t) PROVE JobsInv'
<1> DEFINE status == FinalStatus[at[t]]
<1>1. /\ at[t] \in {"set_succeeded", "set_failed", "set_cancelled"} /\ status \in EndedStatus
      /\ Counts' /\ update(job[t], status) /\ UNCHANGED <<up, jobsSetting, jobsFaults, revived>> /\ End(t)
  BY DEF JobsInv, JobsTypeOK, Counts, SetEnded, FinalStatus, EndedStatus
<1>2. job[t] \in Job /\ job[t] # NoJob
  BY <1>1 DEF JobsInv, JobsTypeOK, TasksInv
<1> HIDE DEF status
<1>3. /\ record' \in [Job -> Record \cup {NoRecord}]
      /\ \A k \in Job \ {job[t]} : record'[k] = record[k]
      /\ record[job[t]] = NoRecord => record'[job[t]] = NoRecord
      /\ record[job[t]] # NoRecord => record'[job[t]].status \in EndedStatus
  <2>1. status \in {"running"} \cup EndedStatus
    BY <1>1
  <2> QED
    BY ZenonT(40), <1>1, <1>2, <2>1, UpdateWrites
<1>4. JobsTypeOK'
  BY <1>1, <1>3, EndMoves DEF JobsInv, JobsTypeOK, Counts
<1>5. TasksInv' /\ GcInv'
  BY <1>1, EndMoves DEF JobsInv, TasksInv, GcInv
<1>6. DoomedInv'
  <2>1. \A u \in Task : \A k \in doomed'[u] : k \in Job /\ k \in doomed[u]
    BY <1>1, EndMoves DEF JobsInv, JobsTypeOK
  <2>2. \A k \in Job : record[k].status \in EndedStatus => record'[k].status \in EndedStatus
    BY <1>2, <1>3, Records DEF EndedStatus
  <2> QED
    BY <1>1, <2>1, <2>2 DEF JobsInv, DoomedInv
<1>7. FreshStart'
  BY <1>2, <1>3, Records DEF JobsInv, FreshStart, EndedStatus
<1>8. RunningHasTask'
  <2> SUFFICES ASSUME up, jobsFaults = 0, NEW j \in Job,
                      record'[j].status \in {"running", "cancel_requested"}
               PROVE  \E u \in Task : WorksOn(u, j)'
    BY <1>1 DEF RunningHasTask
  <2>1. j # job[t]
    BY <1>2, <1>3, Records DEF EndedStatus
  <2>2. PICK u \in Task : WorksOn(u, j)
    BY <1>3, <2>1 DEF JobsInv, RunningHasTask
  <2>3. WorksOn(u, j)'
    BY <1>1, <2>1, <2>2, EndMoves DEF WorksOn
  <2> QED
    BY <2>3
<1> QED
  BY <1>4, <1>5, <1>6, <1>7, <1>8 DEF JobsInv

(* A request to the registry fails.                                        *)
LEMMA RequestFailsKeeps == ASSUME JobsInv, NEW t \in Task, RequestFails(t) PROVE JobsInv'
<1>1. /\ at[t] \in {"prune", "start", "set_running", "executed", "set_succeeded", "set_failed",
                    "set_cancelled"}
      /\ Counts' /\ UNCHANGED <<record, up, jobsSetting, revived>> /\ jobsFaults' # 0
  <2>1. DOMAIN FinalStatus = {"set_succeeded", "set_failed", "set_cancelled"}
    BY DEF FinalStatus
  <2>2. /\ at[t] \in {"prune", "start", "set_running", "executed"} \cup DOMAIN FinalStatus
        /\ UNCHANGED <<record, up, jobsCalls, jobsCrashes, jobsSetting, revived>>
        /\ jobsFaults' = jobsFaults + 1
    BY DEF RequestFails
  <2> QED
    BY <2>1, <2>2 DEF JobsInv, JobsTypeOK, Counts
<1>2. CASE End(t)
  <2>1. JobsTypeOK'
    BY <1>1, <1>2, EndMoves DEF JobsInv, JobsTypeOK, Counts
  <2>2. TasksInv' /\ GcInv'
    BY <1>1, <1>2, EndMoves DEF JobsInv, TasksInv, GcInv
  <2>3. DoomedInv'
    BY <1>1, <1>2, EndMoves DEF JobsInv, DoomedInv
  <2>4. FreshStart' /\ RunningHasTask'
    BY <1>1 DEF JobsInv, FreshStart, RunningHasTask
  <2> QED
    BY <2>1, <2>2, <2>3, <2>4 DEF JobsInv
<1>3. CASE ~End(t)
  <2>1. /\ UNCHANGED <<job, doomed>> /\ at[t] # "idle" /\ doomed[t] = {}
        /\ \E label \in {"set_running", "execute", "set_succeeded"} : MoveTo(t, label)
    BY <1>1, <1>3 DEF RequestFails, JobsInv, GcInv
  <2>2. {"set_running", "execute", "set_succeeded"} \subseteq Label \ {"idle", "delete"}
    BY DEF Label
  <2> QED
    BY <1>1, <2>1, <2>2, GoesOn
<1> QED
  BY <1>2, <1>3

--------------------------------------------------------------------------------
(* A job is submitted, or queued again, and a task takes it.               *)
LEMMA BeginKeeps ==
  ASSUME JobsInv, NEW t \in Task, NEW j \in Job, submit(t, j) \/ retry(t, j)
  PROVE  JobsInv'
<1>1. PICK label \in {"prune", "spawn"} : Enter(t, j, label)
  BY DEF submit, retry
<1>2. /\ Counts' /\ UNCHANGED <<up, jobsSetting, jobsFaults>> /\ up /\ at[t] = "idle"
      /\ record' = [record EXCEPT ![j] = Queued] /\ doomed' = doomed
      /\ Revives(j) \/ (revived' = revived /\ record[j] = NoRecord)
  <2>1. /\ UNCHANGED <<up, jobsSetting, jobsFaults, jobsCrashes>> /\ jobsCalls' = jobsCalls + 1
        /\ record' = [record EXCEPT ![j] = Queued]
        /\ Revives(j) \/ (revived' = revived /\ record[j] = NoRecord)
    BY DEF submit, retry, Called
  <2>2. up /\ at[t] = "idle" /\ doomed' = doomed
    BY <1>1 DEF Enter
  <2>3. Counts'
    BY <2>1 DEF JobsInv, JobsTypeOK, Counts
  <2> QED
    BY <2>1, <2>2, <2>3
<1>3. /\ record' \in [Job -> Record \cup {NoRecord}] /\ record'[j] = Queued
      /\ \A k \in Job \ {j} : record'[k] = record[k]
  BY <1>2, Records DEF JobsInv, JobsTypeOK
<1>4. /\ at' \in [Task -> Label] /\ job' \in [Task -> Job \cup {NoJob}]
      /\ at'[t] = label /\ job'[t] = j
      /\ \A u \in Task \ {t} : at'[u] = at[u] /\ job'[u] = job[u]
  BY <1>1 DEF JobsInv, JobsTypeOK, Enter, MoveTo, Label
<1>5. j # NoJob
  BY JobsAssumption
<1>6. JobsTypeOK'
  BY <1>2, <1>3, <1>4 DEF JobsInv, JobsTypeOK, Counts, Revives
<1>7. TasksInv' /\ GcInv'
  BY <1>2, <1>4, <1>5 DEF JobsInv, TasksInv, GcInv
<1>8. DoomedInv'
  <2>1. \A u \in Task : \A k \in doomed[u] : k \in Job /\ (k = j => j \in revived')
    BY <1>2, Records DEF JobsInv, JobsTypeOK, DoomedInv, EndedStatus, Revives
  <2>2. revived \subseteq revived'
    BY <1>2 DEF Revives
  <2> QED
    BY <1>2, <1>3, <2>1, <2>2 DEF JobsInv, DoomedInv
<1>9. FreshStart'
  BY <1>3, Records DEF JobsInv, FreshStart
<1>10. RunningHasTask'
  <2> SUFFICES ASSUME jobsFaults = 0, NEW k \in Job,
                      record'[k].status \in {"running", "cancel_requested"}
               PROVE  \E u \in Task : WorksOn(u, k)'
    BY <1>2 DEF RunningHasTask
  <2>1. PICK u \in Task : WorksOn(u, k)
    BY <1>2, <1>3, Records DEF JobsInv, RunningHasTask
  <2>2. WorksOn(u, k)'
    BY <1>2, <1>4, <2>1 DEF WorksOn
  <2> QED
    BY <2>2
<1> QED
  BY <1>6, <1>7, <1>8, <1>9, <1>10 DEF JobsInv

(* A job is cancelled, or is asked to be.                                  *)
LEMMA CancelKeeps == ASSUME JobsInv, NEW j \in Job, cancel(j) PROVE JobsInv'
<1>1. /\ Counts' /\ UNCHANGED <<up, jobTask, jobsSetting, jobsFaults, revived>> /\ up
      /\ record' = [record EXCEPT ![j] = Cancelled(record[j])]
      /\ record[j].status \in {"queued", "running", "cancel_requested", "cancelled"}
      /\ "cancel" \in jobsSetting.call
  BY DEF JobsInv, JobsTypeOK, Counts, cancel, Called
<1> USE DEF jobTask
<1>2. record[j] \in Record
  BY <1>1, Records DEF JobsInv, JobsTypeOK
<1> DEFINE r == Cancelled(record[j])
<1>3. /\ r \in Record
      /\ r.status \in {"queued", "running"} => r = record[j]
      /\ record[j].status \in EndedStatus => r = record[j]
      /\ r.status \in {"running", "cancel_requested"} =>
           record[j].status \in {"running", "cancel_requested"}
  <2>1. "cancelled" \in Status /\ "cancel_requested" \in Status
    BY DEF Status, EndedStatus
  <2>2. CASE record[j].status = "queued"
    BY <1>2, <2>1, <2>2 DEF Cancelled, Record, EndedStatus
  <2>3. CASE record[j].status = "running"
    BY <1>2, <2>1, <2>3 DEF Cancelled, Record, EndedStatus
  <2>4. CASE record[j].status \notin {"queued", "running"}
    BY <1>2, <2>4 DEF Cancelled
  <2> QED
    BY <2>2, <2>3, <2>4
<1> HIDE DEF r
<1>4. /\ record' \in [Job -> Record \cup {NoRecord}] /\ record'[j] = r
      /\ \A k \in Job \ {j} : record'[k] = record[k]
  BY <1>1, <1>3 DEF JobsInv, JobsTypeOK, r
<1>5. JobsTypeOK'
  BY <1>1, <1>4 DEF JobsInv, JobsTypeOK, Counts
<1>6. TasksInv' /\ GcInv'
  BY <1>1 DEF JobsInv, TasksInv, GcInv
<1>9. DoomedInv'
  BY <1>1, <1>3, <1>4 DEF JobsInv, JobsTypeOK, DoomedInv
<1>7. FreshStart'
  BY <1>3, <1>4 DEF JobsInv, FreshStart
<1>8. RunningHasTask'
  BY <1>1, <1>3, <1>4 DEF JobsInv, RunningHasTask, WorksOn
<1> QED
  BY <1>5, <1>6, <1>7, <1>8, <1>9 DEF JobsInv

(* A crash leaves no task.                                                 *)
LEMMA CrashKeeps == ASSUME JobsInv, CrashServer PROVE JobsInv'
<1>1. /\ Counts' /\ UNCHANGED <<record, jobsSetting, revived>> /\ up' = FALSE
      /\ at' = [t \in Task |-> "idle"] /\ job' = [t \in Task |-> NoJob]
      /\ doomed' = [t \in Task |-> {}]
  BY DEF JobsInv, JobsTypeOK, Counts, CrashServer
<1>2. up' \in BOOLEAN
  BY <1>1, Zenon
<1>3. JobsTypeOK'
  BY <1>1, <1>2 DEF JobsInv, JobsTypeOK, Counts, Label
<1>4. TasksInv' /\ GcInv' /\ DoomedInv'
  BY <1>1 DEF JobsInv, TasksInv, GcInv, DoomedInv
<1>5. FreshStart' /\ RunningHasTask'
  BY <1>1 DEF JobsInv, FreshStart, RunningHasTask
<1> QED
  BY <1>3, <1>4, <1>5 DEF JobsInv

(* A record of a job that was running has failed.                          *)
LEMMA RecoveredRecord ==
  ASSUME NEW r \in Record \cup {NoRecord}, r.status = "queued" => ~r.cancel_requested
  PROVE  /\ Recovered(r) \in Record \cup {NoRecord}
         /\ Recovered(r).status \notin {"running", "cancel_requested"}
         /\ Recovered(r).status = "queued" => ~Recovered(r).cancel_requested
<1>1. CASE r.status \in {"running", "cancel_requested"}
  <2>1. r \in Record /\ "failed" \in Status
    BY <1>1, Records DEF Status, EndedStatus
  <2>2. [r EXCEPT !.status = "failed"] \in Record /\ [r EXCEPT !.status = "failed"].status = "failed"
    BY <2>1 DEF Record
  <2> QED
    BY <1>1, <2>2 DEF Recovered
<1>2. CASE r.status \notin {"running", "cancel_requested"}
  <2>1. Recovered(r) = r
    BY <1>2 DEF Recovered
  <2> QED
    BY <1>2, <2>1
<1> QED
  BY <1>1, <1>2

(* The registry is loaded: nothing is running any more, and every queued   *)
(* job has one task.                                                       *)
LEMMA LoadKeeps == ASSUME JobsInv, load PROVE JobsInv'
<1>1. /\ Counts' /\ UNCHANGED <<jobsSetting, doomed, revived>> /\ up' = TRUE /\ ~up
      /\ job' \in [Task -> Resumed \cup {NoJob}]
      /\ at' = [t \in Task |-> IF job'[t] = NoJob THEN "idle" ELSE "start"]
  BY DEF JobsInv, JobsTypeOK, Counts, load
<1>2. /\ record' \in [Job -> Record \cup {NoRecord}]
      /\ \A j \in Job : record'[j].status \notin {"running", "cancel_requested"}
      /\ \A j \in Job : record'[j].status = "queued" => ~record'[j].cancel_requested
  <2>1. ASSUME NEW j \in Job
        PROVE  /\ Recovered(Migrated(j)) \in Record \cup {NoRecord}
               /\ Recovered(Migrated(j)).status \notin {"running", "cancel_requested"}
               /\ Recovered(Migrated(j)).status = "queued" =>
                    ~Recovered(Migrated(j)).cancel_requested
    <3>1. /\ Migrated(j) \in Record \cup {NoRecord}
          /\ Migrated(j).status = "queued" => ~Migrated(j).cancel_requested
      BY Records DEF JobsInv, JobsTypeOK, FreshStart, Migrated
    <3> QED
      BY <3>1, RecoveredRecord
  <2>2. PICK S : record' = [j \in Job |-> IF j \in S THEN NoRecord ELSE Recovered(Migrated(j))]
    BY ZenonT(40) DEF load
  <2>3. \A j \in Job : record'[j] \in {NoRecord, Recovered(Migrated(j))}
    BY <2>2
  <2>4. record' \in [Job -> Record \cup {NoRecord}]
    BY <2>1, <2>2
  <2> QED
    BY <2>1, <2>3, <2>4, Records
<1>3. /\ job' \in [Task -> Job \cup {NoJob}] /\ at' \in [Task -> Label]
      /\ \A t \in Task : at'[t] # "delete" /\ (at'[t] = "idle" <=> job'[t] = NoJob)
      /\ \A t \in Task : doomed'[t] = {}
  BY <1>1 DEF JobsInv, TasksInv, Resumed, Label
<1>4. up' \in BOOLEAN
  BY <1>1, Zenon
<1>5. JobsTypeOK'
  BY <1>1, <1>2, <1>3, <1>4 DEF JobsInv, JobsTypeOK, Counts
<1>6. TasksInv' /\ GcInv'
  BY <1>1, <1>3 DEF TasksInv, GcInv
<1>7. DoomedInv'
  BY <1>3 DEF DoomedInv
<1>8. FreshStart' /\ RunningHasTask'
  BY <1>2 DEF FreshStart, RunningHasTask
<1> QED
  BY <1>5, <1>6, <1>7, <1>8 DEF JobsInv

--------------------------------------------------------------------------------
(* Every step keeps the invariant.                                         *)
LEMMA NextJobs == JobsInv /\ [JobsNext]_jobsVars => JobsInv'
<1> SUFFICES ASSUME JobsInv, [JobsNext]_jobsVars PROVE JobsInv'
  OBVIOUS
<1>1. ASSUME NEW t \in Task, TaskStep(t) \/ RequestFails(t) PROVE JobsInv'
  BY <1>1, PruneListKeeps, PruneDeleteKeeps, AskKeeps, SetRunningKeeps, SetEndedKeeps,
     RequestFailsKeeps DEF TaskStep
<1>2. CASE UNCHANGED jobsVars
  <2> USE <1>2 DEF jobsVars, jobTask
  <2>1. JobsTypeOK' /\ TasksInv' /\ GcInv' /\ DoomedInv'
    BY DEF JobsInv, JobsTypeOK, TasksInv, GcInv, DoomedInv
  <2>2. RunningHasTask' /\ FreshStart'
    BY DEF JobsInv, RunningHasTask, FreshStart, WorksOn
  <2> QED
    BY <2>1, <2>2 DEF JobsInv
<1> QED
  BY <1>1, <1>2, BeginKeeps, CancelKeeps, CrashKeeps, LoadKeeps DEF JobsNext

(* It holds always.                                                        *)
LEMMA SpecJobs == JobsSpec => []JobsInv
BY InitJobs, NextJobs, PTL DEF JobsSpec

(* The variables keep their types.                                         *)
THEOREM RegistryTypes == JobsSpec => []JobsTypeOK
BY SpecJobs, PTL DEF JobsInv

(* No record says running without a task of this server at work on it,     *)
(* however many jobs are submitted, cancelled and retried and however      *)
(* often the server crashes, as long as no request to the registry fails.  *)
THEOREM RunningIsWorkedOn == JobsSpec => []RunningHasTask
BY SpecJobs, PTL DEF JobsInv

(* A job that is queued or running is not cancelled by a request that was  *)
(* made of an earlier run of it.                                           *)
THEOREM StartsFresh == JobsSpec => []FreshStart
BY SpecJobs, PTL DEF JobsInv

(* prune() deletes no record of a job that has not ended, whatever is      *)
(* submitted, cancelled and finishes between its listing and its           *)
(* deletions, unless that job was started again in between.                *)
THEOREM PruningIsSafe == JobsSpec => PruneKeepsLive
<1> DEFINE Kept == \A j \in Job : record'[j] = NoRecord /\ record[j] # NoRecord =>
                     record[j].status \in EndedStatus \/ ~up \/ j \in revived
<1>1. ASSUME JobsInv, [JobsNext]_jobsVars PROVE Kept \/ UNCHANGED jobsVars
  <2> SUFFICES ASSUME JobsNext, NEW j \in Job, record'[j] = NoRecord, record[j] # NoRecord, up,
                      j \notin revived
               PROVE  record[j].status \in EndedStatus
    BY <1>1
  <2> USE <1>1
  <2>1. record \in [Job -> Record \cup {NoRecord}] /\ record[j] \in Record
    BY DEF JobsInv, JobsTypeOK
  <2>2. ASSUME NEW t \in Task, PruneDelete(t) PROVE record[j].status \in EndedStatus
    <3>1. j \in doomed[t]
      BY <2>1, <2>2 DEF PruneDelete
    <3> QED
      BY <3>1 DEF JobsInv, DoomedInv
  <2>3. ASSUME NEW t \in Task, SetRunning(t) \/ SetEnded(t) PROVE FALSE
    <3>0. /\ DOMAIN FinalStatus = {"set_succeeded", "set_failed", "set_cancelled"}
          /\ \A l \in DOMAIN FinalStatus : FinalStatus[l] \in EndedStatus
      BY DEF FinalStatus, EndedStatus
    <3>1. PICK status \in {"running"} \cup EndedStatus : update(job[t], status)
      BY Zenon, <2>3, <3>0 DEF SetRunning, SetEnded
    <3>2. job[t] \in Job
      BY Zenon, <2>3, <3>0 DEF SetRunning, SetEnded, JobsInv, JobsTypeOK, TasksInv
    <3>3. record'[j] = record[j] \/ record'[j].status = status
      BY <3>1, <3>2, UpdateWrites
    <3> QED
      BY <3>3, Records DEF EndedStatus
  <2>4. ASSUME NEW t \in Task, TaskStep(t), ~PruneDelete(t), ~SetRunning(t), ~SetEnded(t)
        PROVE  record' = record
    BY Zenon, <2>4 DEF TaskStep, PruneList, spawn_compaction_job, AskBefore, execute_compaction, AskAfter
  <2>5. ASSUME NEW t \in Task, NEW k \in Job, submit(t, k) \/ retry(t, k) PROVE FALSE
    <3>1. record'[j] \in {record[j], Queued}
      BY Zenon, <2>1, <2>5 DEF submit, retry
    <3> QED
      BY <3>1, Records
  <2>6. ASSUME NEW k \in Job, cancel(k) PROVE FALSE
    <3>1. record'[j] = record[j] \/ (j = k /\ record'[j] = Cancelled(record[j]))
      BY <2>1, <2>6 DEF cancel
    <3>2. Cancelled(record[j]).status \in Status
      <4>1. record[j].status \in Status /\ "cancelled" \in Status /\ "cancel_requested" \in Status
        BY <2>1, Records DEF Status, EndedStatus
      <4>2. CASE record[j].status = "queued"
        BY <2>1, <4>1, <4>2 DEF Cancelled, Record
      <4>3. CASE record[j].status # "queued"
        BY <2>1, <4>1, <4>3 DEF Cancelled
      <4> QED
        BY <4>2, <4>3
    <3> QED
      BY <3>1, <3>2, Records DEF Status, EndedStatus
  <2>7. (\A t \in Task : ~RequestFails(t)) \/ record' = record
    BY Zenon DEF RequestFails
  <2>8. ~load /\ (CrashServer => record' = record)
    BY DEF load, CrashServer
  <2> QED
    BY <2>2, <2>3, <2>4, <2>5, <2>6, <2>7, <2>8 DEF JobsNext
<1>2. JobsInv /\ [JobsNext]_jobsVars => [Kept]_jobsVars
  BY <1>1
<1> QED
  BY <1>2, SpecJobs, PTL DEF JobsSpec, PruneKeepsLive
================================================================================
