---------------------------- MODULE ServeInstance -----------------------------
(***************************************************************************)
(* The life of an `ailake serve` process: run() of ailake-cli/src/serve.rs *)
(* from its preflight to the release of its instance lock, the task that   *)
(* renews the lock, and the probe for foreign files that searches start    *)
(* (maybe_probe_auto_compact).  Several processes are started for the same *)
(* table; each may crash, and be started again.                            *)
(*                                                                         *)
(*   lock       the instance lock: [token, live]; live FALSE once released *)
(*              or expired.  Tokens are never used twice                   *)
(*   serve      per process: where run() is                                *)
(*   fence      per process: the token it was given, 0 without one         *)
(*   cooling    per process: a probe was made less than the cooldown ago   *)
(*   inflight   per process: auto_compact_inflight                         *)
(*   probing    per process and spawned task: where its probe is           *)
(*   foreign    the table has a file that another engine wrote             *)
(*                                                                         *)
(* The lock is that of FencedLease, by what it promises there: acquired    *)
(* only when free, renewed and released only by its present holder.  The   *)
(* lock of LocalStore does not expire and ends with its process.           *)
(*                                                                         *)
(* Definitions called X_Wrong are seeded faults: X with a plausible bug,   *)
(* to show that the properties notice it.  No specification uses them.     *)
(***************************************************************************)
EXTENDS Naturals, FiniteSets, Sequences

CONSTANTS Process, ProbeTask, ServeSetting

ASSUME ServeAssumption ==
  \A s \in ServeSetting :
    /\ s.lease \in BOOLEAN
    /\ {s.crashes, s.failures, s.starts, s.writes} \subseteq Nat

VARIABLES serveSetting, lock, serve, fence, cooling, inflight, probing, foreign, used

process == <<serve, fence>>
repair == <<cooling, inflight, probing, foreign>>
serveVars == <<serveSetting, lock, process, repair, used>>

(* What run() does with the lock held, in order; each may fail.            *)
Stage == <<"catalog_breaker", "storage_breaker", "cache", "rate_limiter",
           "resume_index_jobs", "load_jobs", "resume_jobs", "bind">>
Starting == {"preflight", "location", "acquire"}
Held == {Stage[i] : i \in DOMAIN Stage} \cup {"serving", "draining", "release"}

ServeInit ==
  /\ serveSetting \in ServeSetting
  /\ lock = [token |-> 0, live |-> FALSE]
  /\ serve = [p \in Process |-> "off"] /\ fence = [p \in Process |-> 0]
  /\ cooling = [p \in Process |-> FALSE] /\ inflight = [p \in Process |-> FALSE]
  /\ probing = [p \in Process |-> [t \in ProbeTask |-> "idle"]]
  /\ foreign = FALSE
  /\ used = [crashes |-> 0, failures |-> 0, starts |-> 0, writes |-> 0]

Uses(what) == used[what] < serveSetting[what] /\ used' = [used EXCEPT ![what] = @ + 1]
At(p, label) == serve' = [serve EXCEPT ![p] = label]
Owns(p) == lock.live /\ fence[p] = lock.token

--------------------------------------------------------------------------------
Start(p) ==
  /\ serve[p] \in {"off", "ended"} /\ Uses("starts")
  /\ At(p, "preflight")
  /\ UNCHANGED <<serveSetting, lock, fence, repair>>

(* validate_bind_auth, load_table and validate_location: nothing is held.  *)
Checked(label) == IF label = "preflight" THEN "location" ELSE "acquire"
Preflight(p) ==
  /\ serve[p] \in {"preflight", "location"}
  /\ At(p, Checked(serve[p]))
  /\ UNCHANGED <<serveSetting, lock, fence, repair, used>>
StartFails(p) ==
  /\ serve[p] \in Starting /\ Uses("failures")
  /\ At(p, "ended")
  /\ UNCHANGED <<serveSetting, lock, fence, repair>>

Taken_Wrong == FALSE
Taken == lock.live
try_acquire_lock_fenced(p) ==
  /\ serve[p] = "acquire"
  /\ IF Taken THEN At(p, "ended") /\ UNCHANGED <<lock, fence>>
     ELSE /\ lock' = [token |-> lock.token + 1, live |-> TRUE]
          /\ fence' = [fence EXCEPT ![p] = lock.token + 1]
          /\ At(p, Stage[1])
  /\ UNCHANGED <<serveSetting, repair, used>>

(* A step of the configuration, and its failure, which gives up the lock.  *)
Configure(p) ==
  /\ \E i \in DOMAIN Stage :
       /\ serve[p] = Stage[i]
       /\ At(p, IF i = Len(Stage) THEN "serving" ELSE Stage[i + 1])
  /\ UNCHANGED <<serveSetting, lock, fence, repair, used>>
AfterFailure(label) == "release"
ConfigureFails(p) ==
  /\ serve[p] \in {Stage[i] : i \in DOMAIN Stage} \ {"resume_jobs"} /\ Uses("failures")
  /\ At(p, AfterFailure(serve[p]))
  /\ UNCHANGED <<serveSetting, lock, fence, repair>>

(* The renewal task: a lease that is no longer ours, or a request that     *)
(* fails, shuts the server down; requests under way are finished first.    *)
Renewed_Wrong(p) == "serving"
Renewed(p) == IF Owns(p) THEN "serving" ELSE "draining"
renew_lock_fenced(p) ==
  /\ serve[p] = "serving"
  /\ At(p, Renewed(p))
  /\ UNCHANGED <<serveSetting, lock, fence, repair, used>>
RenewalFails(p) ==
  /\ serve[p] = "serving" /\ Uses("failures")
  /\ At(p, "draining")
  /\ UNCHANGED <<serveSetting, lock, fence, repair>>
Drained(p) ==
  /\ serve[p] = "draining"
  /\ At(p, "release")
  /\ UNCHANGED <<serveSetting, lock, fence, repair, used>>

(* The process ends after run(), and its background tasks with it.         *)
Gone(p) ==
  /\ cooling' = [cooling EXCEPT ![p] = FALSE] /\ inflight' = [inflight EXCEPT ![p] = FALSE]
  /\ probing' = [probing EXCEPT ![p] = [t \in ProbeTask |-> "idle"]]
  /\ UNCHANGED foreign
Released(p) == IF Owns(p) THEN [lock EXCEPT !.live = FALSE] ELSE lock
release_lock_fenced(p) ==
  /\ serve[p] = "release"
  /\ lock' = Released(p)
  /\ fence' = [fence EXCEPT ![p] = 0]
  /\ At(p, "ended") /\ Gone(p)
  /\ UNCHANGED <<serveSetting, used>>

(* An OS lock ends with its process, a lease when nobody has renewed it.   *)
Crash_(p) ==
  /\ serve[p] \notin {"off", "ended"} /\ Uses("crashes")
  /\ lock' = IF serveSetting.lease THEN lock ELSE Released(p)
  /\ fence' = [fence EXCEPT ![p] = 0]
  /\ At(p, "off") /\ Gone(p)
  /\ UNCHANGED serveSetting
Expires ==
  /\ serveSetting.lease /\ lock.live
  /\ lock' = [lock EXCEPT !.live = FALSE]
  /\ UNCHANGED <<serveSetting, process, repair, used>>

--------------------------------------------------------------------------------
OthersWrite ==
  /\ ~foreign /\ Uses("writes")
  /\ foreign' = TRUE
  /\ UNCHANGED <<serveSetting, lock, process, cooling, inflight, probing>>

(* A search that was not answered from the cache.  The compare_exchange on *)
(* the time of the last check lets one of several claim the window.        *)
maybe_probe_auto_compact(p, t) ==
  /\ serve[p] = "serving" /\ ~cooling[p] /\ probing[p][t] = "idle"
  /\ cooling' = [cooling EXCEPT ![p] = TRUE]
  /\ probing' = [probing EXCEPT ![p][t] = "list"]
  /\ UNCHANGED <<serveSetting, lock, process, inflight, foreign, used>>
Cooled(p) ==
  /\ cooling[p]
  /\ cooling' = [cooling EXCEPT ![p] = FALSE]
  /\ UNCHANGED <<serveSetting, lock, process, inflight, probing, foreign, used>>
ListForeign(p, t) ==
  /\ probing[p][t] = "list"
  /\ probing' = [probing EXCEPT ![p][t] = IF foreign THEN "claim" ELSE "idle"]
  /\ UNCHANGED <<serveSetting, lock, process, cooling, inflight, foreign, used>>
ListFails(p, t) ==
  /\ probing[p][t] = "list" /\ Uses("failures")
  /\ probing' = [probing EXCEPT ![p][t] = "idle"]
  /\ UNCHANGED <<serveSetting, lock, process, cooling, inflight, foreign>>
Claim(p, t) ==
  /\ probing[p][t] = "claim"
  /\ probing' = [probing EXCEPT ![p][t] = IF inflight[p] THEN "idle" ELSE "run"]
  /\ inflight' = [inflight EXCEPT ![p] = TRUE]
  /\ UNCHANGED <<serveSetting, lock, process, cooling, foreign, used>>
(* CompactionExecutor::run, whose planner takes foreign files first; the   *)
(* flag is cleared whatever the outcome.                                   *)
Cleared(p) == [inflight EXCEPT ![p] = FALSE]
RunPass(p, t) ==
  /\ probing[p][t] = "run"
  /\ foreign' = FALSE
  /\ probing' = [probing EXCEPT ![p][t] = "idle"]
  /\ inflight' = [inflight EXCEPT ![p] = FALSE]
  /\ UNCHANGED <<serveSetting, lock, process, cooling, used>>
PassFails(p, t) ==
  /\ probing[p][t] = "run" /\ Uses("failures")
  /\ probing' = [probing EXCEPT ![p][t] = "idle"]
  /\ inflight' = Cleared(p)
  /\ UNCHANGED <<serveSetting, lock, process, cooling, foreign>>

ServeStep(p) ==
  \/ Preflight(p) \/ try_acquire_lock_fenced(p) \/ Configure(p) \/ renew_lock_fenced(p)
  \/ Drained(p) \/ release_lock_fenced(p)
ProbeStep(p, t) == ListForeign(p, t) \/ Claim(p, t) \/ RunPass(p, t)

ServeNext ==
  \/ \E p \in Process : Start(p) \/ ServeStep(p) \/ StartFails(p) \/ ConfigureFails(p)
                        \/ RenewalFails(p) \/ Crash_(p) \/ Cooled(p)
  \/ \E p \in Process, t \in ProbeTask : maybe_probe_auto_compact(p, t) \/ ProbeStep(p, t)
                                     \/ ListFails(p, t) \/ PassFails(p, t)
  \/ Expires \/ OthersWrite

(* Tasks are polled, requests under way end, the renewal timer fires, and  *)
(* searches keep coming.                                                   *)
ServeFair ==
  /\ \A p \in Process : WF_serveVars(ServeStep(p)) /\ WF_serveVars(Cooled(p))
  /\ \A p \in Process, t \in ProbeTask :
       WF_serveVars(ProbeStep(p, t)) /\ WF_serveVars(maybe_probe_auto_compact(p, t))

ServeSpec == ServeInit /\ [][ServeNext]_serveVars /\ ServeFair

--------------------------------------------------------------------------------
ServeTypeOK ==
  /\ serveSetting \in ServeSetting /\ lock.token \in Nat /\ lock.live \in BOOLEAN
  /\ serve \in [Process -> {"off", "ended"} \cup Starting \cup Held]
  /\ probing \in [Process -> [ProbeTask -> {"idle", "list", "claim", "run"}]]
  /\ {cooling, inflight} \subseteq [Process -> BOOLEAN] /\ foreign \in BOOLEAN

(* "another ailake serve instance already owns table": two processes are   *)
(* past the lock, where they recover each other's jobs and serve, only     *)
(* when a lease has run out, and then at most one of them still has it.    *)
OneInstance ==
  \A p, q \in Process :
    p # q /\ {serve[p], serve[q]} \subseteq Held =>
      serveSetting.lease /\ ~(Owns(p) /\ Owns(q))

(* However late a process releases, it never frees the lock of another:    *)
(* the lock ends with its own holder, or runs out while nobody moves.      *)
ReleasesOwnOnly ==
  [][lock.live /\ ~lock'.live =>
       \/ serveSetting.lease /\ UNCHANGED process
       \/ \E p \in Process : fence[p] = lock.token /\ fence'[p] = 0]_serveVars

(* A process whose run() has returned, on any of its paths, has left the   *)
(* lock free, or to somebody else.                                         *)
LockLeftFree ==
  lock.live => \/ \E p \in Process : serve[p] \in Held /\ fence[p] = lock.token
               \/ serveSetting.lease /\ used.crashes > 0

(* A server that has lost its lease comes to stop serving.                 *)
LostLeaseStops == \A p \in Process : serve[p] = "serving" /\ ~Owns(p) ~> serve[p] # "serving"

(* "auto_compact_inflight prevents a second probe from starting a          *)
(* concurrent pass while one is still running", and it is set for no other *)
(* reason.                                                                 *)
OnePass ==
  \A p \in Process :
    LET running == {t \in ProbeTask : probing[p][t] = "run"}
    IN  Cardinality(running) <= 1 /\ (inflight[p] <=> running # {})

(* A foreign file is repaired by a server that keeps serving searches,     *)
(* although a pass may fail.                                               *)
ForeignRepaired ==
  \A p \in Process : foreign /\ serve[p] = "serving" ~> ~foreign \/ serve[p] # "serving"

(* A server leaves no lock behind and frees none of another, stops when    *)
(* its lease is lost, and repairs foreign files, one pass at a time, while *)
(* it serves.                                                              *)
ServeSound ==
  /\ [](ServeTypeOK /\ LockLeftFree /\ OnePass) /\ ReleasesOwnOnly
  /\ LostLeaseStops /\ ForeignRepaired
================================================================================
