----------------------------- MODULE MCJobsAndCalls -----------------------------
(***************************************************************************)
(* What is run to its end by a task, on small instances: a deferred index  *)
(* build (IndexJobs, with two workers and one caller) and the calls of a   *)
(* catalog with optimistic concurrency control (OccCatalog, with two).  A  *)
(* behaviour is one of the part that `part` names; the other stays as it   *)
(* begins.                                                                 *)
(***************************************************************************)
EXTENDS IndexJobs, OccCatalog

VARIABLE part

(* The lock of LocalStore, with every call.                                *)
FileLock ==
  [expiring |-> FALSE, committedFirst |-> FALSE, earlier |-> FALSE,
   call |-> {"cancel", "retry", "resume"},
   calls |-> 2, faults |-> 1, storeFaults |-> 0, siblings |-> 0]

(* The same, with a store that fails instead of workers.                   *)
Faulty ==
  [expiring |-> FALSE, committedFirst |-> FALSE, earlier |-> FALSE,
   call |-> {"cancel", "retry", "resume"},
   calls |-> 2, faults |-> 0, storeFaults |-> 1, siblings |-> 0]

(* The same, with crashes and restarts only, in a table in use.            *)
Restarted ==
  [expiring |-> FALSE, committedFirst |-> FALSE, earlier |-> TRUE, call |-> {"resume"},
   calls |-> 0, faults |-> 2, storeFaults |-> 0, siblings |-> 1]

(* Beside another deferred task of the table.                              *)
Shared ==
  [expiring |-> FALSE, committedFirst |-> FALSE, earlier |-> FALSE, call |-> {"resume"},
   calls |-> 0, faults |-> 1, storeFaults |-> 0, siblings |-> 2]

(* An expiring lease, under which a job is resumed while it runs.          *)
Leased ==
  [expiring |-> TRUE, committedFirst |-> TRUE, earlier |-> TRUE, call |-> {"resume"},
   calls |-> 1, faults |-> 1, storeFaults |-> 0, siblings |-> 0]

Settings == {FileLock, Faulty, Restarted, Shared, Leased}

JobsAndCallsInit ==
  /\ part \in {"job", "calls"}
  /\ JobInit /\ (part = "calls" => setting = Leased)
  /\ Init

JobsAndCallsNext ==
  \/ part = "job" /\ JobNext /\ UNCHANGED <<part, vars>>
  \/ part = "calls" /\ Next /\ UNCHANGED <<part, jobVars>>

JobsAndCallsSpec ==
  /\ JobsAndCallsInit /\ [][JobsAndCallsNext]_<<part, jobVars, vars>>
  /\ \A w \in Worker : WF_jobVars(part = "job" /\ WorkerStep(w))
  /\ \A c \in Caller : /\ WF_jobVars(part = "job" /\ CallerStep(c))
                       /\ WF_jobVars(part = "job" /\ Restart(c))
  /\ WF_jobVars(part = "job" /\ CommitShard) /\ WF_jobVars(part = "job" /\ Tick)
  /\ \A c \in Client : WF_vars(Step(c))
================================================================================
