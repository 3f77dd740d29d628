------------------------------- MODULE MCServer -------------------------------
(***************************************************************************)
(* The parts of `ailake serve`, on small instances and each on its own:    *)
(* the circuit breaker, the cached files, the life of the process and the  *)
(* compaction jobs.  A behaviour is one of the part that `focus` names;    *)
(* the others stay as they begin.                                          *)
(***************************************************************************)
EXTENDS CircuitBreaker, QueryCache, ServeInstance, CompactionJobs

CONSTANTS Focus, job1, job2, job3
VARIABLE focus

(* Two readers of a file that race with puts and deletes.                  *)
MCsize == [n \in File \cup {"query", "table"} |-> CASE n = "query" -> 1 [] n = "table" -> 4 [] OTHER -> 2]
Files == [op |-> {"read", "put", "delete"}, redis |-> TRUE, changes |-> 1, cacheFaults |-> 0]
FileSettings == {Files}

(* Two processes under a lease and under an OS lock, and one that repairs  *)
(* a foreign file.                                                         *)
Leased == [lease |-> TRUE, crashes |-> 1, failures |-> 1, starts |-> 2, writes |-> 0]
Locked == [lease |-> FALSE, crashes |-> 1, failures |-> 1, starts |-> 3, writes |-> 0]
Repairs == [lease |-> FALSE, crashes |-> 0, failures |-> 1, starts |-> 1, writes |-> 1]
ServeSettings == {Leased, Locked, Repairs}

(* Every call on two jobs, with failing requests and a restart; more jobs  *)
(* than the registry keeps; and jobs of the legacy registry file.          *)
Calls == [jobs |-> {job1, job2}, legacy |-> {}, call |-> {"submit", "cancel", "retry"},
          calls |-> 4, faults |-> 1, crashes |-> 1]
Full == [jobs |-> {job1, job2, job3}, legacy |-> {}, call |-> {"submit"},
         calls |-> 3, faults |-> 0, crashes |-> 0]
Legacy == [jobs |-> {job1}, legacy |-> {job2}, call |-> {"submit"},
           calls |-> 1, faults |-> 0, crashes |-> 2]
JobsSettings == {Calls, Full, Legacy}

--------------------------------------------------------------------------------
serverVars == <<focus, vars, cacheVars, serveVars, jobsVars>>

ServerInit ==
  /\ focus \in Focus
  /\ Init /\ CacheInit /\ ServeInit /\ JobsInit
  /\ focus # "cache" => cacheSetting = CHOOSE x \in CacheSetting : TRUE
  /\ focus # "serve" => serveSetting = Leased
  /\ focus # "jobs" => jobsSetting = Full

ServerNext ==
  \/ focus = "breaker" /\ Next /\ UNCHANGED <<focus, cacheVars, serveVars, jobsVars>>
  \/ focus = "cache" /\ CacheNext /\ UNCHANGED <<focus, vars, serveVars, jobsVars>>
  \/ focus = "serve" /\ ServeNext /\ UNCHANGED <<focus, vars, cacheVars, jobsVars>>
  \/ focus = "jobs" /\ JobsNext /\ UNCHANGED <<focus, vars, cacheVars, serveVars>>

ServerSpec == ServerInit /\ [][ServerNext]_serverVars

(* BreakerFair, CacheFair, ServeFair and JobsFair, for the part that moves. *)
FairServerSpec ==
  /\ ServerSpec
  /\ \A c \in Call : WF_vars(focus = "breaker" /\ (Succeed(c) \/ Fail(c)))
  /\ WF_vars(focus = "breaker" /\ Cool)
  /\ \A r \in Reader : WF_cacheVars(focus = "cache" /\ CacheStep(r))
  /\ \A k \in FileKey : /\ WF_cacheVars(focus = "cache" /\ Expire(k))
                         /\ WF_cacheVars(focus = "cache" /\ RedisExpire(k))
  /\ \A p \in Process : /\ WF_serveVars(focus = "serve" /\ ServeStep(p))
                         /\ WF_serveVars(focus = "serve" /\ Cooled(p))
  /\ \A p \in Process, t \in ProbeTask :
       /\ WF_serveVars(focus = "serve" /\ ProbeStep(p, t))
       /\ WF_serveVars(focus = "serve" /\ maybe_probe_auto_compact(p, t))
  /\ \A t \in Task : WF_jobsVars(focus = "jobs" /\ TaskStep(t))
  /\ WF_jobsVars(focus = "jobs" /\ load)
================================================================================
