-------------------------- MODULE ServeInstanceProofs --------------------------
(***************************************************************************)
(* Proofs about ServeInstance, for any number of processes and tasks and   *)
(* any setting.  LockInv says whose the instance lock is: exactly the      *)
(* processes past it have a token, no two the same, and without a lease    *)
(* such a process still has the lock.                                      *)
(***************************************************************************)
EXTENDS ServeInstance, FiniteSetTheorems, TLAPS

Budget == [crashes : Nat, failures : Nat, starts : Nat, writes : Nat]
Stages == {"catalog_breaker", "storage_breaker", "cache", "rate_limiter",
           "resume_index_jobs", "load_jobs", "resume_jobs", "bind"}
Labels == {"off", "ended"} \cup Starting \cup Held

Types ==
  /\ serveSetting \in ServeSetting
  /\ lock \in [token : Nat, live : BOOLEAN]
  /\ serve \in [Process -> Labels] /\ fence \in [Process -> Nat]
  /\ used \in Budget

LockInv ==
  /\ \A p \in Process : fence[p] <= lock.token
  /\ \A p \in Process : serve[p] \in Held <=> fence[p] # 0
  /\ \A p, q \in Process : fence[p] = fence[q] /\ fence[p] # 0 => p = q
  /\ ~serveSetting.lease => \A p \in Process : serve[p] \in Held => Owns(p)

ServeInv == Types /\ LockInv /\ LockLeftFree

(* The labels with the lock held, one by one.                              *)
LEMMA HeldLabels ==
  /\ Held = Stages \cup {"serving", "draining", "release"}
  /\ {Stage[i] : i \in DOMAIN Stage} = Stages
  /\ Len(Stage) = 8 /\ DOMAIN Stage = 1 .. 8
  /\ Stage[1] = "catalog_breaker"
<1>1. Len(Stage) = 8 /\ DOMAIN Stage = 1 .. 8
  BY DEF Stage
<1>2. \A i \in 1 .. 8 : i = 1 \/ i = 2 \/ i = 3 \/ i = 4 \/ i = 5 \/ i = 6 \/ i = 7 \/ i = 8
  OBVIOUS
<1>3. /\ Stage[1] = "catalog_breaker" /\ Stage[2] = "storage_breaker" /\ Stage[3] = "cache"
      /\ Stage[4] = "rate_limiter" /\ Stage[5] = "resume_index_jobs" /\ Stage[6] = "load_jobs"
      /\ Stage[7] = "resume_jobs" /\ Stage[8] = "bind"
  BY DEF Stage
<1>4. {Stage[i] : i \in DOMAIN Stage} \subseteq Stages
  BY <1>1, <1>2, <1>3 DEF Stages
<1>5. Stages \subseteq {Stage[i] : i \in DOMAIN Stage}
  <2>1. 1 \in DOMAIN Stage /\ 2 \in DOMAIN Stage /\ 3 \in DOMAIN Stage /\ 4 \in DOMAIN Stage
        /\ 5 \in DOMAIN Stage /\ 6 \in DOMAIN Stage /\ 7 \in DOMAIN Stage /\ 8 \in DOMAIN Stage
    BY <1>1
  <2> QED
    BY <2>1, <1>3 DEF Stages
<1> QED
  BY <1>1, <1>3, <1>4, <1>5 DEF Held

(* Processes have no token before they start.                              *)
LEMMA InitServeInv == ServeInit => ServeInv
<1> SUFFICES ASSUME ServeInit PROVE ServeInv
  OBVIOUS
<1>1. "off" \notin Held
  BY HeldLabels DEF Stages
<1> QED
  BY <1>1 DEF ServeInit, ServeInv, Types, Labels, LockInv, LockLeftFree, Budget

(* A step that changes neither the lock nor a token, and takes no process  *)
(* past the lock or back.                                                  *)
Quiet ==
  /\ UNCHANGED <<serveSetting, lock, fence>>
  /\ serve' \in [Process -> Labels] /\ \A q \in Process : serve'[q] \in Held <=> serve[q] \in Held
  /\ used' \in Budget /\ used'.crashes >= used.crashes

LEMMA QuietKeeps == ASSUME ServeInv, Quiet PROVE ServeInv'
<1> USE DEF ServeInv, Quiet
<1>1. Types'
  BY DEF Types
<1>2. LockInv'
  BY DEF LockInv, Owns
<1>3. LockLeftFree'
  BY DEF Types, Budget, LockLeftFree
<1> QED
  BY <1>1, <1>2, <1>3

(* Using up a part of the budget.                                          *)
LEMMA UsesTypes ==
  ASSUME Types, NEW what \in {"crashes", "failures", "starts", "writes"}, Uses(what)
  PROVE  /\ used' \in Budget /\ used'.crashes >= used.crashes
         /\ what = "crashes" => used'.crashes > 0
BY DEF Types, Uses, Budget

(* One process goes from one label to another on the same side of the lock.*)
LEMMA MoveQuiet ==
  ASSUME Types, NEW p \in Process, NEW label \in Labels, serve' = [serve EXCEPT ![p] = label],
         serve[p] \in Held <=> label \in Held
  PROVE  /\ serve' \in [Process -> Labels]
         /\ \A q \in Process : serve'[q] \in Held <=> serve[q] \in Held
BY DEF Types

(* The steps of run() that leave the lock alone.                           *)
LEMMA RunQuiet ==
  ASSUME ServeInv, NEW p \in Process,
         \/ Start(p) \/ Preflight(p) \/ StartFails(p) \/ Configure(p) \/ ConfigureFails(p)
         \/ renew_lock_fenced(p) \/ RenewalFails(p) \/ Drained(p)
         \/ serve[p] = "acquire" /\ At(p, "ended") /\ UNCHANGED <<serveSetting, lock, fence, used>>
  PROVE  Quiet
<1> USE DEF ServeInv, At
<1>1. /\ Starting \cup {"off", "ended"} \subseteq Labels /\ Held \subseteq Labels
      /\ \A x \in Starting \cup {"off", "ended"} : x \notin Held
      /\ {"serving", "draining", "release"} \subseteq Held /\ Stages \subseteq Held
  BY HeldLabels DEF Labels, Starting, Stages
<1>2. used \in Budget /\ used.crashes >= used.crashes
  BY DEF Types, Budget
<1>3. CASE Start(p)
  BY Zenon, <1>1, <1>3, MoveQuiet, UsesTypes DEF Start, Quiet, Starting
<1>4. CASE Preflight(p)
  BY Zenon, <1>1, <1>2, <1>4, MoveQuiet DEF Preflight, Checked, Quiet, Starting
<1>5. CASE StartFails(p)
  BY Zenon, <1>1, <1>5, MoveQuiet, UsesTypes DEF StartFails, Quiet
<1>6. CASE Configure(p)
  <2>1. PICK i \in DOMAIN Stage :
          serve[p] = Stage[i] /\ At(p, IF i = Len(Stage) THEN "serving" ELSE Stage[i + 1])
    BY Zenon, <1>6 DEF Configure
  <2>2. i \in 1 .. 8 /\ (i # 8 => i + 1 \in DOMAIN Stage)
    BY HeldLabels
  <2>3. /\ serve[p] \in Held
        /\ (IF i = Len(Stage) THEN "serving" ELSE Stage[i + 1]) \in Held
    BY <1>1, <2>1, <2>2, HeldLabels
  <2> QED
    BY Zenon, <1>1, <1>2, <1>6, <2>1, <2>3, MoveQuiet DEF Configure, Quiet
<1>7. CASE ConfigureFails(p)
  BY Zenon, <1>1, <1>7, MoveQuiet, UsesTypes, HeldLabels DEF ConfigureFails, AfterFailure, Quiet
<1>8. CASE renew_lock_fenced(p)
  BY Zenon, <1>1, <1>2, <1>8, MoveQuiet DEF renew_lock_fenced, Renewed, Quiet
<1>9. CASE RenewalFails(p)
  BY Zenon, <1>1, <1>9, MoveQuiet, UsesTypes DEF RenewalFails, Quiet
<1>10. CASE Drained(p)
  BY Zenon, <1>1, <1>2, <1>10, MoveQuiet DEF Drained, Quiet
<1>11. CASE serve[p] = "acquire" /\ At(p, "ended") /\ UNCHANGED <<serveSetting, lock, fence, used>>
  BY Zenon, <1>1, <1>2, <1>11, MoveQuiet DEF Quiet, Starting
<1> QED
  BY <1>3, <1>4, <1>5, <1>6, <1>7, <1>8, <1>9, <1>10, <1>11

(* Probes, passes and the writes of others.                                *)
LEMMA RepairQuiet ==
  ASSUME ServeInv,
         \/ OthersWrite
         \/ \E p \in Process : Cooled(p)
         \/ \E p \in Process, t \in ProbeTask :
              maybe_probe_auto_compact(p, t) \/ ProbeStep(p, t) \/ ListFails(p, t) \/ PassFails(p, t)
         \/ UNCHANGED serveVars
  PROVE  Quiet
<1> USE DEF ServeInv
<1>1. UNCHANGED <<serveSetting, lock, process>> /\ (UNCHANGED used \/ Uses("writes") \/ Uses("failures"))
  BY DEF OthersWrite, Cooled, maybe_probe_auto_compact, ProbeStep, ListForeign, Claim, RunPass,
         ListFails, PassFails, serveVars
<1>2. used' \in Budget /\ used'.crashes >= used.crashes
  BY <1>1, UsesTypes DEF Types, Budget
<1> QED
  BY <1>1, <1>2 DEF Quiet, process, Types

(* The lock is taken with a token above all others.                        *)
LEMMA AcquireKeeps ==
  ASSUME ServeInv, NEW p \in Process, try_acquire_lock_fenced(p) PROVE ServeInv'
<1> USE DEF ServeInv
<1>1. CASE Taken
  BY <1>1, RunQuiet, QuietKeeps DEF try_acquire_lock_fenced
<1>2. CASE ~Taken
  <2>1. /\ ~lock.live /\ lock' = [token |-> lock.token + 1, live |-> TRUE]
        /\ fence' = [fence EXCEPT ![p] = lock.token + 1]
        /\ serve' = [serve EXCEPT ![p] = Stage[1]]
        /\ UNCHANGED <<serveSetting, used>>
    BY <1>2 DEF try_acquire_lock_fenced, Taken, At
  <2>2. Stage[1] \in Held /\ Held \subseteq Labels
    BY HeldLabels DEF Labels, Stages
  <2>3. Types'
    BY <2>1, <2>2 DEF Types
  <2>4. /\ fence'[p] = lock.token + 1 /\ serve'[p] \in Held
        /\ \A q \in Process \ {p} : fence'[q] = fence[q] /\ serve'[q] = serve[q]
    BY <2>1, <2>2 DEF Types
  <2>5. \A q \in Process : fence[q] \in Nat /\ fence[q] <= lock.token /\ lock.token \in Nat
    BY DEF Types, LockInv
  <2>6. ~serveSetting.lease => \A q \in Process : serve[q] \notin Held
    BY <2>1 DEF LockInv, Owns
  <2>7. LockInv'
    BY <2>1, <2>4, <2>5, <2>6 DEF LockInv, Owns
  <2>8. LockLeftFree'
    BY <2>1, <2>4 DEF LockLeftFree
  <2> QED
    BY <2>3, <2>7, <2>8
<1> QED
  BY <1>1, <1>2

(* A process lets go of the lock, or dies.                                 *)
LEMMA LeaveKeeps ==
  ASSUME ServeInv, NEW p \in Process, release_lock_fenced(p) \/ Crash_(p) PROVE ServeInv'
<1> USE DEF ServeInv
<1>1. PICK label \in {"off", "ended"} : serve' = [serve EXCEPT ![p] = label]
  BY DEF release_lock_fenced, Crash_, At
<1>2. label \in Labels /\ label \notin Held
  BY HeldLabels DEF Labels, Stages
<1>3. /\ fence' = [fence EXCEPT ![p] = 0] /\ UNCHANGED serveSetting
      /\ \/ lock' = Released(p) /\ used' \in Budget /\ used'.crashes >= used.crashes
         \/ lock' = lock /\ serveSetting.lease /\ used' \in Budget /\ used'.crashes > 0
  BY UsesTypes DEF release_lock_fenced, Crash_, Types, Budget
<1>4. /\ fence'[p] = 0 /\ serve'[p] \notin Held
      /\ \A q \in Process \ {p} : fence'[q] = fence[q] /\ serve'[q] = serve[q]
  BY <1>1, <1>2, <1>3 DEF Types
<1>5. lock' \in [token : Nat, live : BOOLEAN] /\ lock'.token = lock.token
  BY Zenon, <1>3 DEF Types, Released
<1>6. Types'
  BY <1>1, <1>2, <1>3, <1>5 DEF Types
<1>7. \A q \in Process \ {p} : ~serveSetting.lease /\ serve'[q] \in Held => Owns(q)'
  <2> SUFFICES ASSUME NEW q \in Process \ {p}, ~serveSetting.lease, serve'[q] \in Held
               PROVE  Owns(q)'
    OBVIOUS
  <2>1. Owns(q) /\ fence[q] # 0
    BY <1>4 DEF LockInv
  <2>2. fence[p] # lock.token
    BY <2>1 DEF LockInv, Owns
  <2> QED
    BY <1>3, <1>4, <2>1, <2>2 DEF Released, Owns
<1>8. LockInv'
  <2>1. \A q \in Process : fence'[q] <= lock'.token
    BY <1>4, <1>5 DEF LockInv, Types
  <2>2. \A q \in Process : serve'[q] \in Held <=> fence'[q] # 0
    BY <1>4 DEF LockInv
  <2>3. \A q, r \in Process : fence'[q] = fence'[r] /\ fence'[q] # 0 => q = r
    BY <1>4 DEF LockInv
  <2> QED
    BY <1>3, <1>4, <1>7, <2>1, <2>2, <2>3 DEF LockInv
<1>9. LockLeftFree'
  <2> SUFFICES ASSUME lock'.live, lock' = Released(p), used'.crashes >= used.crashes,
                      used' \in Budget
               PROVE  \/ \E q \in Process : serve'[q] \in Held /\ fence'[q] = lock'.token
                      \/ serveSetting.lease /\ used'.crashes > 0
    BY <1>3 DEF LockLeftFree
  <2>1. ~Owns(p) /\ lock' = lock
    BY DEF Released, Types
  <2>2. CASE serveSetting.lease /\ used.crashes > 0
    BY <2>2 DEF Types, Budget
  <2>3. CASE \E q \in Process : serve[q] \in Held /\ fence[q] = lock.token
    <3>1. PICK q \in Process : serve[q] \in Held /\ fence[q] = lock.token
      BY <2>3
    <3>2. q # p
      BY <2>1, <3>1 DEF Owns
    <3> QED
      BY <1>4, <2>1, <3>1, <3>2
  <2> QED
    BY <2>1, <2>2, <2>3 DEF LockLeftFree
<1> QED
  BY <1>6, <1>8, <1>9

(* A lease runs out.                                                       *)
LEMMA ExpiresKeeps == ASSUME ServeInv, Expires PROVE ServeInv'
BY Zenon DEF ServeInv, Expires, process, Types, LockInv, LockLeftFree, Owns

(* Every step keeps the invariant.                                         *)
LEMMA NextServeInv == ServeInv /\ [ServeNext]_serveVars => ServeInv'
<1> SUFFICES ASSUME ServeInv, [ServeNext]_serveVars PROVE ServeInv'
  OBVIOUS
<1>1. ASSUME NEW p \in Process,
             Start(p) \/ ServeStep(p) \/ StartFails(p) \/ ConfigureFails(p)
               \/ RenewalFails(p) \/ Crash_(p)
      PROVE  ServeInv'
  BY <1>1, RunQuiet, QuietKeeps, AcquireKeeps, LeaveKeeps DEF ServeStep
<1> QED
  BY <1>1, RepairQuiet, QuietKeeps, ExpiresKeeps DEF ServeNext

(* The invariant always holds.                                             *)
LEMMA AlwaysServeInv == ServeSpec => []ServeInv
BY InitServeInv, NextServeInv, PTL DEF ServeSpec

(* "another ailake serve instance already owns table": of any number of    *)
(* processes for one table, two are past the instance lock only after a    *)
(* lease ran out, and never do two of them have it.                        *)
THEOREM SingleInstance == ServeSpec => []OneInstance
<1>1. ServeInv => OneInstance
  BY DEF ServeInv, LockInv, OneInstance, Owns
<1> QED
  BY <1>1, AlwaysServeInv, PTL

(* Whichever way run() returns, its process does not keep the lock.        *)
THEOREM ReturnLeavesLock == ServeSpec => []LockLeftFree
<1>1. ServeInv => LockLeftFree
  BY DEF ServeInv
<1> QED
  BY <1>1, AlwaysServeInv, PTL

(* However late a process calls release_lock_fenced, it frees no lock but  *)
(* its own.                                                                *)
THEOREM ReleaseIsOwn == ServeSpec => ReleasesOwnOnly
<1> DEFINE Freed == lock.live /\ ~lock'.live =>
                      \/ serveSetting.lease /\ UNCHANGED process
                      \/ \E p \in Process : fence[p] = lock.token /\ fence'[p] = 0
<1>1. ServeInv /\ [ServeNext]_serveVars => [Freed]_serveVars
  <2> SUFFICES ASSUME ServeInv, [ServeNext]_serveVars, lock.live, ~lock'.live PROVE Freed
    OBVIOUS
  <2>1. ~Quiet
    BY DEF Quiet
  <2>2. ASSUME NEW p \in Process,
               Start(p) \/ ServeStep(p) \/ StartFails(p) \/ ConfigureFails(p)
                 \/ RenewalFails(p) \/ Crash_(p)
        PROVE  Freed
    <3>1. ~try_acquire_lock_fenced(p)
      BY DEF try_acquire_lock_fenced
    <3>2. release_lock_fenced(p) \/ Crash_(p)
      BY <2>1, <2>2, <3>1, RunQuiet DEF ServeStep
    <3>3. lock' = Released(p) /\ fence' = [fence EXCEPT ![p] = 0]
      BY <3>2 DEF release_lock_fenced, Crash_
    <3> QED
      BY <3>3 DEF Released, Owns, ServeInv, Types
  <2>3. CASE Expires
    BY <2>3 DEF Expires
  <2> QED
    BY <2>1, <2>2, <2>3, RepairQuiet DEF ServeNext
<1> QED
  BY <1>1, AlwaysServeInv, PTL DEF ServeSpec, ReleasesOwnOnly

--------------------------------------------------------------------------------
(* The flag auto_compact_inflight is set while a pass runs, and there is   *)
(* one at a time.                                                          *)
PassInv ==
  /\ probing \in [Process -> [ProbeTask -> {"idle", "list", "claim", "run"}]]
  /\ inflight \in [Process -> BOOLEAN]
  /\ \A p \in Process, t, u \in ProbeTask : probing[p][t] = "run" /\ probing[p][u] = "run" => t = u
  /\ \A p \in Process : inflight[p] = (\E t \in ProbeTask : probing[p][t] = "run")

(* Only a task that finds the flag clear, and sets it, goes on to run.     *)
LEMMA NextPassInv == PassInv /\ [ServeNext]_serveVars => PassInv'
<1> SUFFICES ASSUME PassInv, [ServeNext]_serveVars PROVE PassInv'
  OBVIOUS
<1>1. CASE UNCHANGED <<probing, inflight>>
  BY Zenon, <1>1 DEF PassInv
<1>2. ASSUME NEW p \in Process, Gone(p) PROVE PassInv'
  BY Zenon, <1>2 DEF Gone, PassInv
<1>3. ASSUME NEW p \in Process, NEW t \in ProbeTask, NEW label \in {"idle", "list", "claim"},
             probing' = [probing EXCEPT ![p][t] = label], UNCHANGED inflight,
             probing[p][t] # "run"
      PROVE  PassInv'
  BY Zenon, <1>3 DEF PassInv
<1>4. ASSUME NEW p \in Process, NEW t \in ProbeTask, Claim(p, t) PROVE PassInv'
  <2>1. CASE inflight[p]
    <3>1. inflight' = inflight /\ probing' = [probing EXCEPT ![p][t] = "idle"]
      BY <1>4, <2>1 DEF Claim, PassInv
    <3> QED
      BY Zenon, <1>3, <1>4, <3>1 DEF Claim
  <2>2. CASE ~inflight[p]
    BY Zenon, <1>4, <2>2 DEF Claim, PassInv
  <2> QED
    BY <2>1, <2>2
<1>5. ASSUME NEW p \in Process, NEW t \in ProbeTask, probing[p][t] = "run",
             probing' = [probing EXCEPT ![p][t] = "idle"],
             inflight' = [inflight EXCEPT ![p] = FALSE]
      PROVE  PassInv'
  BY Zenon, <1>5 DEF PassInv
<1>6. ASSUME NEW p \in Process, NEW t \in ProbeTask,
             maybe_probe_auto_compact(p, t) \/ ListForeign(p, t) \/ ListFails(p, t)
      PROVE  PassInv'
  BY <1>3, <1>6 DEF maybe_probe_auto_compact, ListForeign, ListFails
<1>7. ASSUME NEW p \in Process, NEW t \in ProbeTask, RunPass(p, t) \/ PassFails(p, t)
      PROVE  PassInv'
  BY <1>5, <1>7 DEF RunPass, PassFails, Cleared
<1>8. ASSUME NEW p \in Process,
             \/ Start(p) \/ Preflight(p) \/ try_acquire_lock_fenced(p) \/ Configure(p)
             \/ renew_lock_fenced(p) \/ Drained(p) \/ StartFails(p) \/ ConfigureFails(p)
             \/ RenewalFails(p) \/ Cooled(p)
      PROVE  PassInv'
  BY <1>1, <1>8 DEF Start, Preflight, try_acquire_lock_fenced, Configure, renew_lock_fenced,
                    Drained, StartFails, ConfigureFails, RenewalFails, Cooled, repair
<1>9. ASSUME NEW p \in Process, release_lock_fenced(p) \/ Crash_(p) PROVE PassInv'
  BY <1>2, <1>9 DEF release_lock_fenced, Crash_
<1>10. CASE Expires \/ OthersWrite \/ UNCHANGED serveVars
  BY <1>1, <1>10 DEF Expires, OthersWrite, serveVars, repair
<1> QED
  BY <1>4, <1>6, <1>7, <1>8, <1>9, <1>10 DEF ServeNext, ServeStep, ProbeStep

(* "auto_compact_inflight prevents a second probe from starting a          *)
(* concurrent pass while one is still running", for any number of probes.  *)
THEOREM PassesExclude == ServeSpec => []OnePass
<1>1. ServeInit => PassInv
  BY DEF ServeInit, PassInv
<1>2. PassInv => OnePass
  <2> SUFFICES ASSUME PassInv, NEW p \in Process
               PROVE  LET running == {t \in ProbeTask : probing[p][t] = "run"}
                      IN  Cardinality(running) <= 1 /\ (inflight[p] <=> running # {})
    BY DEF OnePass
  <2> DEFINE running == {t \in ProbeTask : probing[p][t] = "run"}
  <2>1. CASE running = {}
    <3>1. ~inflight[p]
      BY <2>1, Zenon DEF PassInv
    <3>2. Cardinality(running) = 0
      BY <2>1, FS_EmptySet
    <3> QED
      BY <2>1, <3>1, <3>2
  <2>2. CASE running # {}
    <3>1. PICK t \in ProbeTask : probing[p][t] = "run"
      BY <2>2
    <3>2. running = {t}
      BY <3>1 DEF PassInv
    <3>3. Cardinality(running) = 1
      BY Zenon, <3>2, FS_Singleton
    <3>4. inflight[p]
      BY <3>1, Zenon DEF PassInv
    <3> QED
      BY <2>2, <3>3, <3>4
  <2> QED
    BY <2>1, <2>2
<1> QED
  BY <1>1, <1>2, NextPassInv, PTL DEF ServeSpec
================================================================================
