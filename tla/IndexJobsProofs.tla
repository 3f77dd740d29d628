---------------------------- MODULE IndexJobsProofs ----------------------------
(***************************************************************************)
(* Proofs about IndexJobs, for any number of workers and callers and any   *)
(* setting.  The inductive invariant says, worker by worker, what its      *)
(* place in the code means for the lock, the shard and the table: past the *)
(* claim it has the lock of LocalStore (WorkerHolds), past the put of the  *)
(* shard there is an index (WorkerIndexed), past the patch the entry is    *)
(* Ready, or another's commit or list is to blame that it is not, and no   *)
(* record says so before (WorkerReady).                                    *)
(***************************************************************************)
EXTENDS IndexJobs, WellFoundedInduction, TLAPS

(* Where write_fenced goes on, and where it goes when the fence is lost.   *)
To(ok, err) == [ok |-> ok, err |-> err]
Continuation ==
  {NoAfter, To("release", "off"), To("checkpoint1", "release"), To("put_file", "error"),
   To("wait", "error"), To("succeed", "error"), To("release", "release"),
   To("release_retry", "patch_failed"), To("patch_failed", "patch_failed")}

CallLabel == {"idle", "cancel_file", "write", "delete_cancel_file", "write_resume", "resume",
              "write_spawn", "spawn"}

Types ==
  /\ setting \in Setting
  /\ record \in Record /\ cancelFile \in BOOLEAN
  /\ file \in {"parquet", "torn", "indexed"} /\ (file = "torn" => ~setting.expiring)
  /\ entry \in Listed \cup {"none"} /\ sibling \in Listed \cup {"none"}
  /\ overwritten \in BOOLEAN /\ overlooked \in BOOLEAN
  /\ lease \in [owner : Worker \cup {NoWorker}, fence : Nat, expires : Int]
  /\ now \in Nat \ {0}
  /\ wpc \in [Worker -> Label] /\ rec \in [Worker -> Record]
  /\ after \in [Worker -> Continuation]
  /\ token \in [Worker -> Nat] /\ tries \in [Worker -> 0 .. PATCH_ATTEMPTS]
  /\ seen \in [Worker -> Listed]
  /\ cpc \in [Caller -> CallLabel] /\ crec \in [Caller -> Record]
  /\ calls \in Nat /\ faults \in Nat /\ restarts \in Nat /\ storeFaults \in Nat /\ siblings \in Nat

Writes(w) == wpc[w] \in {"check", "put"}
Holds(w) == Lock!HoldsFence(w, token[w])

(* What a worker's own variables say of each other.                        *)
WorkerLocal(w) ==
  /\ Writes(w) => after[w] # NoAfter
  /\ wpc[w] \in {"off", "claim", "claimed", "unless_cancelled", "release_retry"} =>
       after[w].ok \notin Building \cup {"succeed"}
  /\ wpc[w] \in {"checkpoint1", "put_file", "finish_put"} => after[w].ok \in {"checkpoint1", "put_file"}
  /\ \/ wpc[w] \in {"off", "claim", "claimed", "unless_cancelled", "checkpoint1", "put_file",
                   "finish_put", "checkpoint2", "wait"}
     \/ Writes(w) /\ (after[w].ok \in {"checkpoint1", "put_file", "wait"} \/ after[w].err = "off")
     => tries[w] = 0
  /\ wpc[w] \in {"patch", "commit_ready"} => tries[w] < PATCH_ATTEMPTS
  /\ wpc[w] = "unless_cancelled" => rec[w].attempts < MAX_ATTEMPTS

WorkerHolds(w) == ~setting.expiring /\ wpc[w] \notin {"off", "claim"} => Holds(w)

WorkerIndexed(w) ==
  \/ wpc[w] \in {"checkpoint2", "wait", "patch", "commit_ready", "verify", "checkpoint3", "succeed"}
  \/ after[w].ok \in {"wait", "succeed"}
  \/ rec[w].status = "succeeded"
  => file = "indexed"

(* A worker that is about to say that the job has succeeded, and what is   *)
(* then so of the entry.                                                   *)
Reports(w) == Writes(w) /\ rec[w].status = "succeeded"
Settles == entry = "ready" \/ overwritten \/ overlooked

WorkerReady(w) ==
  ~setting.expiring =>
    /\ Reports(w) => after[w] = To("release", "release")
    /\ wpc[w] \notin {"off", "claim", "claimed", "release"} /\ ~Reports(w) =>
         record.status # "succeeded"
    /\ wpc[w] \in {"off", "claim", "release_retry", "checkpoint1", "put_file", "finish_put"} =>
         rec[w].status # "succeeded"
    /\ \/ wpc[w] \in {"verify", "checkpoint3", "succeed"}
       \/ Writes(w) /\ after[w].ok = "succeed"
       \/ Reports(w)
       => Settles

WorkerOK(w) == WorkerLocal(w) /\ WorkerHolds(w) /\ WorkerIndexed(w) /\ WorkerReady(w)

JobInv ==
  /\ Types
  /\ \A w \in Worker : WorkerOK(w)
  /\ \A c \in Caller : crec[c].status # "succeeded"
  /\ ClaimsAreIndexed /\ SucceededIsReady
  /\ sibling = "ready" => file # "parquet"

--------------------------------------------------------------------------------
(* The first idle worker is one of them.                                   *)
LEMMA FirstIsOne == ASSUME NEW S, S \subseteq Worker, S # {} PROVE First(S) \in S
<1>1. S \subseteq Nat
  BY JobAssumption
<1> DEFINE R == {ss \in Nat \X Nat : ss[1] < ss[2]}
<1>2. IsWellFoundedOn(R, Nat)
  BY NatLessThanWellFounded, Zenon DEF OpToRel
<1>3. PICK x \in S : \A y \in S : ~(<<y, x>> \in R)
  BY <1>1, <1>2, WFMin, Zenon
<1>4. ASSUME NEW y \in S PROVE x <= y
  <2>1. x \in Nat /\ y \in Nat /\ (x <= y \/ y < x)
    BY <1>1
  <2>2. y < x => <<y, x>> \in R
    BY <2>1
  <2> QED
    BY <1>3, <2>1, <2>2
<1> QED
  BY <1>4 DEF First

(* Each continuation, with its two fields.                                 *)
LEMMA Continuations ==
  ASSUME NEW a \in Continuation
  PROVE  /\ a = To(a.ok, a.err) /\ a.ok \in Label /\ a.err \in Label
         /\ a.err \in {"off", "release", "error", "patch_failed"}
         /\ a.ok \notin {"claim", "claimed", "unless_cancelled", "patch", "verify", "finish_put",
                         "commit_ready", "commit_failed",
                         "checkpoint2", "checkpoint3", "check", "put", "error", "fail"}
         /\ a.err = "off" => a.ok \in {"off", "release"}
         /\ a.ok = "off" => a = NoAfter
         /\ a.ok = "release_retry" => a.err = "patch_failed"
BY DEF Continuation, To, NoAfter, Label, Building

(* The job is new, and its first worker about to claim it.                 *)
LEMMA InitInv == JobInit => JobInv
<1> SUFFICES ASSUME JobInit PROVE JobInv
  OBVIOUS
<1> USE DEF JobInit
<1>0. NewRecord \in Record /\ NewRecord.status = "queued"
  BY JobAssumption DEF NewRecord, Record, Status
<1>1. Types
  <2>1. NoAfter \in Continuation /\ 0 \in 0 .. PATCH_ATTEMPTS
    BY JobAssumption DEF Continuation
  <2>2. lease \in [owner : Worker \cup {NoWorker}, fence : Nat, expires : Int] /\ now = 1
    BY DEF Lock!LeaseInit, Lock!NoLease
  <2>3. wpc \in [Worker -> Label] /\ cpc \in [Caller -> CallLabel]
    BY DEF Label, CallLabel
  <2>4. /\ rec \in [Worker -> Record] /\ crec \in [Caller -> Record]
        /\ after \in [Worker -> Continuation]
        /\ token \in [Worker -> Nat] /\ tries \in [Worker -> 0 .. PATCH_ATTEMPTS]
        /\ seen \in [Worker -> Listed]
    BY <1>0, <2>1 DEF Listed
  <2>5. /\ entry \in Listed \cup {"none"} /\ sibling \in Listed \cup {"none"} /\ now \in Nat \ {0}
        /\ file \in {"parquet", "torn", "indexed"} /\ file # "torn"
        /\ calls \in Nat /\ faults \in Nat /\ restarts \in Nat /\ storeFaults \in Nat
        /\ siblings \in Nat
    BY <2>2 DEF Listed
  <2>6. cancelFile \in BOOLEAN /\ overwritten \in BOOLEAN /\ overlooked \in BOOLEAN
    BY Zenon
  <2> QED
    BY <1>0, <2>2, <2>3, <2>4, <2>5, <2>6, Zenon DEF Types
<1>2. ASSUME NEW w \in Worker PROVE WorkerOK(w)
  BY <1>0, JobAssumption DEF WorkerOK, WorkerLocal, WorkerHolds, WorkerIndexed, WorkerReady,
     Reports, Writes, NoAfter, Building
<1> QED
  BY <1>0, <1>1, <1>2 DEF JobInv, ClaimsAreIndexed, SucceededIsReady

--------------------------------------------------------------------------------
(* What a step of one worker, or of none, may do to the rest: the shared   *)
(* state that the others rely on is changed by the holder of the lock.     *)
LeavesOthers(S) ==
  /\ setting' = setting
  /\ \A u \in Worker \ S : /\ wpc'[u] = wpc[u] /\ rec'[u] = rec[u] /\ after'[u] = after[u]
                           /\ token'[u] = token[u] /\ tries'[u] = tries[u]
  /\ \/ file = "indexed" => file' = "indexed"
     \/ ~setting.expiring /\ \E w \in S \cap Worker : Holds(w)
  /\ ~setting.expiring =>
       /\ \A u \in Worker \ S : Holds(u) => Holds(u)'
       /\ \/ Settles => Settles'
          \/ \E w \in S \cap Worker : Holds(w)
       /\ \/ record' = record
          \/ record'.status # "succeeded"
          \/ \E w \in S \cap Worker : Holds(w)

(* The other workers are as well off after such a step.                    *)
LEMMA OthersStay ==
  ASSUME JobInv, NEW S, LeavesOthers(S), NEW u \in Worker \ S
  PROVE  WorkerOK(u)'
<1>1. /\ wpc'[u] = wpc[u] /\ rec'[u] = rec[u] /\ after'[u] = after[u]
      /\ token'[u] = token[u] /\ tries'[u] = tries[u] /\ setting' = setting
  BY DEF LeavesOthers
<1>2. WorkerOK(u)
  BY DEF JobInv
<1>3. WorkerLocal(u)'
  BY <1>1, <1>2 DEF WorkerOK, WorkerLocal, Writes
<1>4. WorkerHolds(u)'
  BY <1>1, <1>2 DEF WorkerOK, WorkerHolds, LeavesOthers
<1>5. ASSUME ~setting.expiring, NEW w \in S \cap Worker, Holds(w) PROVE wpc[u] \in {"off", "claim"}
  BY <1>2, <1>5 DEF WorkerOK, WorkerHolds, Holds, Lock!HoldsFence
<1>6. WorkerIndexed(u)'
  <2>1. CASE file = "indexed" => file' = "indexed"
    BY <1>1, <1>2, <2>1 DEF WorkerOK, WorkerIndexed
  <2>2. CASE ~setting.expiring /\ \E w \in S \cap Worker : Holds(w)
    BY <1>1, <1>2, <1>5, <2>2
    DEF WorkerOK, WorkerLocal, WorkerIndexed, WorkerReady, Building
  <2> QED
    BY <2>1, <2>2 DEF LeavesOthers
<1>7. WorkerReady(u)'
  <2>2. CASE setting.expiring
    BY <1>1, <2>2 DEF WorkerReady
  <2>3. CASE ~setting.expiring /\ \E w \in S \cap Worker : Holds(w)
    BY <1>1, <1>2, <1>5, <2>3 DEF WorkerOK, WorkerReady, Reports, Writes
  <2>4. CASE ~setting.expiring /\ ~\E w \in S \cap Worker : Holds(w)
    BY <1>1, <1>2, <2>4 DEF WorkerOK, WorkerReady, Reports, Writes, LeavesOthers
  <2> QED
    BY <2>2, <2>3, <2>4
<1> QED
  BY <1>3, <1>4, <1>6, <1>7 DEF WorkerOK

--------------------------------------------------------------------------------
(* The worker's variables, one step of it later.                           *)
LocalTypes ==
  /\ wpc \in [Worker -> Label] /\ rec \in [Worker -> Record]
  /\ after \in [Worker -> Continuation]
  /\ token \in [Worker -> Nat] /\ tries \in [Worker -> 0 .. PATCH_ATTEMPTS]
  /\ seen \in [Worker -> Listed]
Moves(w) ==
  \A u \in Worker \ {w} : /\ wpc'[u] = wpc[u] /\ rec'[u] = rec[u] /\ after'[u] = after[u]
                           /\ token'[u] = token[u] /\ tries'[u] = tries[u]

(* A worker that goes to another place, and may have listed the files.     *)
Listing == UNCHANGED <<rec, after, token, tries>> /\ seen' \in [Worker -> Listed]

LEMMA LocalIsListing == ASSUME JobInv, Local PROVE Listing
BY DEF JobInv, Types, Local, Listing

LEMMA GotoMoves ==
  ASSUME JobInv, NEW w \in Worker, NEW label \in Label, WorkerTo(w, label), Local \/ Listing
  PROVE  /\ LocalTypes' /\ Moves(w) /\ wpc'[w] = label
         /\ rec'[w] = rec[w] /\ after'[w] = after[w] /\ token'[w] = token[w] /\ tries'[w] = tries[w]
BY LocalIsListing DEF JobInv, Types, WorkerTo, Listing, LocalTypes, Moves

(* A worker that begins write_fenced.                                      *)
LEMMA WriteMoves ==
  ASSUME JobInv, NEW w \in Worker, NEW r \in Record, NEW ok, NEW err,
         WriteFenced(w, r, ok, err), To(ok, err) \in Continuation
  PROVE  /\ LocalTypes' /\ Moves(w) /\ wpc'[w] = "check"
         /\ rec'[w] = r /\ after'[w] = To(ok, err) /\ token'[w] = token[w] /\ tries'[w] = tries[w]
<1>1. "check" \in Label
  BY DEF Label
<1> QED
  BY <1>1 DEF JobInv, Types, WriteFenced, WorkerTo, LocalTypes, Moves, To

(* A worker that ends.                                                     *)
LEMMA StopMoves ==
  ASSUME JobInv, NEW w \in Worker, Stop(w)
  PROVE  LocalTypes' /\ Moves(w) /\ WorkerOK(w)'
<1>1. /\ "off" \in Label /\ NoAfter \in Continuation /\ NoAfter.ok = "off"
      /\ NewRecord \in Record /\ NewRecord.status = "queued" /\ 0 \in 0 .. PATCH_ATTEMPTS
      /\ "absent" \in Listed
  BY JobAssumption DEF Label, Continuation, NoAfter, NewRecord, Record, Status, Listed
<1>2. LocalTypes' /\ Moves(w)
  BY <1>1 DEF JobInv, Types, Stop, WorkerTo, LocalTypes, Moves
<1>3. /\ wpc'[w] = "off" /\ rec'[w] = NewRecord /\ after'[w] = NoAfter /\ tries'[w] = 0
  BY DEF JobInv, Types, Stop, WorkerTo
<1> QED
  BY <1>1, <1>2, <1>3 DEF WorkerOK, WorkerLocal, WorkerHolds, WorkerIndexed, WorkerReady, Reports,
     Writes, Building

(* A step of a worker that changes its own variables only.                 *)
Quiet == UNCHANGED <<job, shard, clock, caller, setting>>
CountTypes ==
  calls \in Nat /\ faults \in Nat /\ restarts \in Nat /\ storeFaults \in Nat /\ siblings \in Nat

(* Nobody else notices a quiet step.                                       *)
LEMMA QuietKeeps ==
  ASSUME JobInv, NEW w \in Worker, Quiet, LocalTypes', CountTypes', Moves(w), WorkerOK(w)'
  PROVE  JobInv'
<1> USE DEF Quiet, job, shard, clock, caller
<1>1. Types'
  BY DEF JobInv, Types, LocalTypes, CountTypes
<1>2. LeavesOthers({w})
  BY DEF LeavesOthers, Moves, Holds, Lock!HoldsFence, Lock!Expired, Settles
<1>3. \A u \in Worker : WorkerOK(u)'
  BY <1>2, OthersStay
<1>4. ClaimsAreIndexed' /\ SucceededIsReady' /\ \A c \in Caller : crec'[c].status # "succeeded"
  BY DEF JobInv, ClaimsAreIndexed, SucceededIsReady
<1>5. sibling' = "ready" => file' # "parquet"
  BY DEF JobInv
<1> QED
  BY <1>1, <1>3, <1>4, <1>5 DEF JobInv

--------------------------------------------------------------------------------
(* The shared state that a quiet step leaves alone, for its worker.        *)
LEMMA QuietHolds ==
  ASSUME Quiet, NEW w \in Worker, token'[w] = token[w]
  PROVE  Holds(w)' = Holds(w) /\ Settles' = Settles
BY DEF Quiet, clock, shard, Holds, Lock!HoldsFence, Lock!Expired, Settles

(* A record, with what the code changes in it.                             *)
LEMMA RecordUpdates ==
  ASSUME NEW r \in Record, NEW status \in Status
  PROVE  /\ [r EXCEPT !.status = status] \in Record
         /\ [r EXCEPT !.status = status].status = status
         /\ [r EXCEPT !.status = status, !.cancel_requested = TRUE] \in Record
         /\ [r EXCEPT !.status = status, !.cancel_requested = TRUE].status = status
         /\ [r EXCEPT !.cancel_requested = TRUE] \in Record
         /\ [r EXCEPT !.cancel_requested = TRUE].status = r.status
BY Zenon DEF Record

(* The record that try_claim writes.                                       *)
LEMMA ClaimedRecord ==
  ASSUME NEW r \in Record, NEW n \in 0 .. MAX_ATTEMPTS
  PROVE  /\ [r EXCEPT !.status = "running", !.attempts = n] \in Record
         /\ [r EXCEPT !.status = "running", !.attempts = n].status = "running"
BY Zenon DEF Record, Status

(* The fence is checked, and without an expiring lease it is still there.  *)
LEMMA CheckFenceKeeps == ASSUME JobInv, NEW w \in Worker, CheckFence(w) PROVE JobInv'
<1> DEFINE label == IF check_lock_fence(w) THEN "put" ELSE after[w].err
<1>1. /\ after[w] \in Continuation /\ WorkerOK(w) /\ wpc[w] = "check"
      /\ WorkerTo(w, label) /\ Local /\ Quiet /\ CountTypes'
  BY DEF JobInv, Types, CheckFence, Quiet, CountTypes, bounds
<1>2. label \in Label /\ (~setting.expiring => label = "put")
  BY <1>1, Continuations DEF Label, check_lock_fence
<1> HIDE DEF label
<1>3. /\ LocalTypes' /\ Moves(w) /\ wpc'[w] = label
      /\ rec'[w] = rec[w] /\ after'[w] = after[w] /\ token'[w] = token[w] /\ tries'[w] = tries[w]
  BY <1>1, <1>2, GotoMoves
<1>4. label \in {"put", after[w].err}
  BY DEF label
<1>5. WorkerLocal(w)'
  BY <1>1, <1>3, <1>4, Continuations DEF WorkerOK, WorkerLocal, Writes, Building
<1>6. WorkerHolds(w)' /\ WorkerIndexed(w)' /\ WorkerReady(w)'
  BY Zenon, <1>1, <1>2, <1>3, <1>4, QuietHolds, Continuations
     DEF WorkerOK, WorkerHolds, WorkerIndexed, WorkerReady, Reports, Writes, Quiet, job, shard
<1> QED
  BY <1>1, <1>3, <1>5, <1>6, QuietKeeps DEF WorkerOK

(* The record that is read under the lock is not over.                     *)
LEMMA ReadClaimKeeps == ASSUME JobInv, NEW w \in Worker, ReadClaim(w) PROVE JobInv'
<1> DEFINE label == IF Over THEN "release" ELSE "unless_cancelled"
<1>1. /\ WorkerOK(w) /\ wpc[w] = "claimed" /\ Quiet /\ CountTypes'
      /\ record \in Record /\ ClaimsAreIndexed
  BY DEF JobInv, Types, ReadClaim, Quiet, CountTypes, bounds
<1>2. /\ LocalTypes' /\ Moves(w) /\ wpc'[w] = label /\ rec'[w] = record
      /\ after'[w] = after[w] /\ token'[w] = token[w] /\ tries'[w] = tries[w]
  BY <1>1 DEF JobInv, Types, ReadClaim, WorkerTo, LocalTypes, Moves, Label
<1>3. \/ label = "release"
      \/ label = "unless_cancelled" /\ record.attempts < MAX_ATTEMPTS /\ record.status # "succeeded"
  BY SMTT(40), <1>1, JobAssumption DEF Over, Record
<1> HIDE DEF label
<1>4. WorkerLocal(w)'
  BY Zenon, <1>1, <1>2, <1>3 DEF WorkerOK, WorkerLocal, Writes
<1>5. WorkerHolds(w)' /\ WorkerIndexed(w)' /\ WorkerReady(w)'
  BY <1>1, <1>2, <1>3, QuietHolds
     DEF WorkerOK, WorkerHolds, WorkerIndexed, WorkerReady, Reports, Writes, Quiet, job, shard,
         ClaimsAreIndexed
<1> QED
  BY <1>1, <1>2, <1>4, <1>5, QuietKeeps DEF WorkerOK

(* A claim that fails ends the worker.                                     *)
LEMMA ClaimFailsKeeps == ASSUME JobInv, NEW w \in Worker, ClaimFails(w) PROVE JobInv'
<1>1. Quiet /\ CountTypes' /\ Stop(w)
  BY DEF JobInv, Types, ClaimFails, StoreFault, Quiet, CountTypes
<1> QED
  BY <1>1, StopMoves, QuietKeeps

--------------------------------------------------------------------------------
(* A worker that goes on to a place whose meaning holds.                   *)
Means(w, label) ==
  /\ label \in Label \ {"off", "claim", "claimed", "unless_cancelled", "release_retry", "check", "put"}
  /\ wpc[w] \notin {"off", "claim"}
  /\ label \in {"checkpoint1", "put_file", "finish_put"} => wpc[w] = "checkpoint1"
  /\ label \in {"checkpoint1", "put_file", "finish_put", "checkpoint2", "wait"} => tries[w] = 0
  /\ label \in {"patch", "commit_ready"} => tries[w] < PATCH_ATTEMPTS
  /\ label \in {"checkpoint2", "wait", "patch", "commit_ready", "verify", "checkpoint3", "succeed"} =>
       file = "indexed"
  /\ ~setting.expiring =>
       /\ label # "release" => record.status # "succeeded"
       /\ label \in {"verify", "checkpoint3", "succeed"} => Settles

(* It keeps the invariant.                                                 *)
LEMMA GotoKeeps ==
  ASSUME JobInv, NEW w \in Worker, NEW label, WorkerTo(w, label), Local \/ Listing, Quiet,
         CountTypes', Means(w, label)
  PROVE  JobInv'
<1>1. WorkerOK(w) /\ label \in Label
  BY DEF JobInv, Means
<1>2. /\ LocalTypes' /\ Moves(w) /\ wpc'[w] = label
      /\ rec'[w] = rec[w] /\ after'[w] = after[w] /\ token'[w] = token[w] /\ tries'[w] = tries[w]
  BY <1>1, GotoMoves
<1>3. WorkerLocal(w)'
  BY <1>1, <1>2 DEF WorkerOK, WorkerLocal, Writes, Means
<1>4. WorkerHolds(w)' /\ WorkerIndexed(w)' /\ WorkerReady(w)'
  BY <1>1, <1>2, QuietHolds
     DEF Means, WorkerOK, WorkerHolds, WorkerIndexed, WorkerReady, Reports, Writes, Quiet, job, shard
<1> QED
  BY <1>2, <1>3, <1>4, QuietKeeps DEF WorkerOK

(* A worker that begins to write a record that is true, or will be.        *)
MeansWrite(w, r, ok, err) ==
  /\ r \in Record /\ To(ok, err) \in Continuation \ {NoAfter}
  /\ wpc[w] \notin {"off", "claim"}
  /\ ok \in {"checkpoint1", "put_file", "wait"} \/ err = "off" => tries[w] = 0
  /\ ok \in {"wait", "succeed"} \/ r.status = "succeeded" => file = "indexed"
  /\ ~setting.expiring =>
       /\ r.status = "succeeded" => ok = "release" /\ err = "release"
       /\ r.status # "succeeded" => record.status # "succeeded"
       /\ ok = "succeed" \/ r.status = "succeeded" => Settles

(* It keeps the invariant, whatever becomes of the write.                  *)
LEMMA WriteKeeps ==
  ASSUME JobInv, NEW w \in Worker, NEW r, NEW ok, NEW err, WriteFenced(w, r, ok, err), Quiet,
         CountTypes', MeansWrite(w, r, ok, err)
  PROVE  JobInv'
<1>1. WorkerOK(w) /\ r \in Record /\ To(ok, err) \in Continuation
  BY DEF JobInv, MeansWrite
<1>2. /\ LocalTypes' /\ Moves(w) /\ wpc'[w] = "check" /\ rec'[w] = r /\ after'[w] = To(ok, err)
      /\ token'[w] = token[w] /\ tries'[w] = tries[w]
  BY <1>1, WriteMoves
<1>3. after'[w].ok = ok /\ after'[w].err = err /\ after'[w] # NoAfter
  BY <1>2 DEF To, MeansWrite
<1>4. WorkerLocal(w)'
  BY Zenon, <1>2, <1>3 DEF WorkerLocal, Writes, MeansWrite
<1>5. WorkerHolds(w)' /\ WorkerIndexed(w)' /\ WorkerReady(w)'
  BY <1>1, <1>2, <1>3, QuietHolds
     DEF MeansWrite, WorkerOK, WorkerHolds, WorkerIndexed, WorkerReady, Reports, Writes, Quiet,
         job, shard
<1> QED
  BY <1>2, <1>4, <1>5, QuietKeeps DEF WorkerOK

--------------------------------------------------------------------------------
(* What every step of a worker starts from.                                *)
LEMMA WorkerFacts ==
  ASSUME JobInv, NEW w \in Worker
  PROVE  /\ WorkerOK(w) /\ record \in Record /\ rec[w] \in Record /\ setting \in Setting
         /\ tries[w] \in 0 .. PATCH_ATTEMPTS /\ CountTypes /\ ClaimsAreIndexed
         /\ entry \in Listed \cup {"none"} /\ seen \in [Worker -> Listed]
BY DEF JobInv, Types, CountTypes

(* The statuses the workers write.                                         *)
LEMMA Statuses ==
  /\ "cancelled" \in Status /\ "running" \in Status /\ "queued" \in Status
  /\ "failed" \in Status /\ "succeeded" \in Status
  /\ "cancelled" # "succeeded" /\ "running" # "succeeded" /\ "queued" # "succeeded"
  /\ "failed" # "succeeded"
BY DEF Status

(* The claim is written, or the cancellation.                              *)
LEMMA ClaimKeeps == ASSUME JobInv, NEW w \in Worker, Claim(w) PROVE JobInv'
<1> DEFINE r1 == [rec[w] EXCEPT !.status = "cancelled", !.cancel_requested = TRUE]
           r2 == [rec[w] EXCEPT !.status = "running", !.attempts = @ + 1]
<1>1. /\ wpc[w] = "unless_cancelled" /\ Quiet /\ CountTypes'
      /\ rec[w].attempts < MAX_ATTEMPTS /\ tries[w] = 0
      /\ ~setting.expiring => record.status # "succeeded"
  BY WorkerFacts DEF Claim, Quiet, CountTypes, bounds, WorkerOK, WorkerLocal, WorkerReady, Reports,
     Writes
<1>2. rec[w].attempts + 1 \in 0 .. MAX_ATTEMPTS
  BY <1>1, WorkerFacts, JobAssumption DEF Record
<1>3. r1 \in Record /\ r1.status # "succeeded" /\ r2 \in Record /\ r2.status # "succeeded"
  <2>1. rec[w] \in Record
    BY WorkerFacts
  <2>2. r1 \in Record /\ r1.status = "cancelled"
    BY <2>1, RecordUpdates, Statuses, Zenon
  <2>3. r2 \in Record /\ r2.status = "running"
    BY <1>2, <2>1, ClaimedRecord, Zenon
  <2> QED
    BY <2>2, <2>3, Statuses, Zenon
<1>4. WriteFenced(w, r1, "release", "off") \/ WriteFenced(w, r2, "checkpoint1", "release")
  BY DEF Claim
<1> HIDE DEF r1, r2
<1>5. MeansWrite(w, r1, "release", "off") /\ MeansWrite(w, r2, "checkpoint1", "release")
  BY <1>1, <1>3 DEF MeansWrite, Continuation, To, NoAfter
<1> QED
  BY <1>1, <1>4, <1>5, WriteKeeps

(* A checkpoint goes on, gives up or writes the progress.                  *)
LEMMA CheckpointKeeps == ASSUME JobInv, NEW w \in Worker, checkpoint_index_job(w) PROVE JobInv'
<1> DEFINE to == NextStage[wpc[w]]
<1>1. /\ wpc[w] \in {"checkpoint1", "checkpoint2", "checkpoint3"} /\ Quiet /\ CountTypes'
  BY WorkerFacts DEF checkpoint_index_job, NextStage, Quiet, CountTypes, bounds
<1>2. \/ wpc[w] = "checkpoint1" /\ to = "put_file" /\ tries[w] = 0
      \/ wpc[w] = "checkpoint2" /\ to = "wait" /\ tries[w] = 0 /\ file = "indexed"
      \/ wpc[w] = "checkpoint3" /\ to = "succeed" /\ file = "indexed"
          /\ (~setting.expiring => Settles)
  BY <1>1, WorkerFacts DEF NextStage, WorkerOK, WorkerLocal, WorkerIndexed, WorkerReady
<1>3. ~setting.expiring => record.status # "succeeded"
  BY <1>1, WorkerFacts DEF WorkerOK, WorkerReady, Reports, Writes
<1>4. \/ WorkerTo(w, "error") /\ Local
      \/ WriteFenced(w, record, to, "error") /\ record.status = "running"
      \/ WorkerTo(w, to) /\ Local
  BY DEF checkpoint_index_job
<1> HIDE DEF to
<1>5. Means(w, "error") /\ Means(w, to)
  BY <1>1, <1>2, <1>3 DEF Means, Label, Building
<1>6. record.status = "running" => MeansWrite(w, record, to, "error")
  BY <1>1, <1>2, <1>3, WorkerFacts DEF MeansWrite, Continuation, To, NoAfter
<1> QED
  BY <1>1, <1>4, <1>5, <1>6, GotoKeeps, WriteKeeps

(* The wait for a snapshot ends, or goes on.                               *)
LEMMA WaitKeeps == ASSUME JobInv, NEW w \in Worker, WaitForSnapshot(w) PROVE JobInv'
<1>1. /\ wpc[w] = "wait" /\ Local /\ Quiet /\ CountTypes' /\ tries[w] = 0 /\ file = "indexed"
      /\ ~setting.expiring => record.status # "succeeded"
  BY WorkerFacts DEF WaitForSnapshot, Quiet, CountTypes, bounds, WorkerOK, WorkerLocal,
     WorkerIndexed, WorkerReady, Reports, Writes
<1>2. PICK label \in {"patch", "checkpoint2", "error"} : WorkerTo(w, label)
  BY DEF WaitForSnapshot
<1>3. Means(w, label)
  BY <1>1, <1>2, JobAssumption DEF Means, Label, Building
<1> QED
  BY <1>1, <1>2, <1>3, GotoKeeps

(* The patch is verified.                                                  *)
LEMMA VerifyKeeps == ASSUME JobInv, NEW w \in Worker, VerifyReady(w) PROVE JobInv'
<1>1. /\ wpc[w] = "verify" /\ Local /\ Quiet /\ CountTypes' /\ file = "indexed"
      /\ ~setting.expiring => record.status # "succeeded" /\ Settles
  BY WorkerFacts DEF VerifyReady, Quiet, CountTypes, bounds, WorkerOK, WorkerIndexed, WorkerReady,
     Reports, Writes
<1>2. PICK label \in {"checkpoint3", "patch"} :
        WorkerTo(w, label) /\ (label = "patch" => tries[w] # PATCH_ATTEMPTS)
  BY DEF VerifyReady
<1>3. Means(w, label)
  BY <1>1, <1>2, WorkerFacts, JobAssumption DEF Means, Label, Building
<1> QED
  BY <1>1, <1>2, <1>3, GotoKeeps

(* Success is written after the patch.                                     *)
LEMMA SucceedKeeps == ASSUME JobInv, NEW w \in Worker, succeed(w) PROVE JobInv'
<1> DEFINE r == [record EXCEPT !.status = "succeeded"]
<1>1. /\ wpc[w] = "succeed" /\ Quiet /\ CountTypes' /\ file = "indexed"
      /\ ~setting.expiring => Settles
      /\ WriteFenced(w, r, "release", "release")
  BY WorkerFacts DEF succeed, Quiet, CountTypes, bounds, WorkerOK, WorkerIndexed, WorkerReady
<1>2. r \in Record /\ r.status = "succeeded"
  <2>1. record \in Record
    BY WorkerFacts
  <2> QED
    BY <2>1, RecordUpdates, Statuses, Zenon
<1> HIDE DEF r
<1>3. MeansWrite(w, r, "release", "release")
  BY <1>1, <1>2 DEF MeansWrite, Continuation, To, NoAfter
<1> QED
  BY <1>1, <1>3, WriteKeeps

(* A build that fails.                                                     *)
LEMMA BuildFailsKeeps == ASSUME JobInv, NEW w \in Worker, BuildFails(w) PROVE JobInv'
<1>1. /\ wpc[w] \in Building /\ Quiet /\ CountTypes' /\ WorkerTo(w, "error") /\ Local
  BY WorkerFacts DEF BuildFails, Quiet, CountTypes
<1>2. ~setting.expiring => record.status # "succeeded"
  BY <1>1, WorkerFacts DEF WorkerOK, WorkerReady, Reports, Writes, Building
<1>3. Means(w, "error")
  BY <1>1, <1>2 DEF Means, Label, Building
<1> QED
  BY <1>1, <1>3, GotoKeeps

(* The error of a build, and a failing request after it.                   *)
LEMMA AfterErrorKeeps == ASSUME JobInv, NEW w \in Worker, AfterError(w) PROVE JobInv'
<1> DEFINE r == [record EXCEPT !.status = "cancelled", !.cancel_requested = TRUE]
<1>1. /\ wpc[w] = "error" /\ Quiet /\ CountTypes'
      /\ ~setting.expiring => record.status # "succeeded"
  BY WorkerFacts DEF AfterError, Quiet, CountTypes, bounds, WorkerOK, WorkerReady, Reports, Writes
<1>2. r \in Record /\ r.status = "cancelled"
  <2>1. record \in Record
    BY WorkerFacts
  <2> QED
    BY <2>1, RecordUpdates, Statuses, Zenon
<1>3. WriteFenced(w, r, "release", "release") \/ (WorkerTo(w, "fail") /\ Local)
  BY DEF AfterError
<1> HIDE DEF r
<1>4. MeansWrite(w, r, "release", "release") /\ Means(w, "fail")
  BY <1>1, <1>2 DEF Means, MeansWrite, Continuation, To, NoAfter, Label
<1> QED
  BY <1>1, <1>3, <1>4, WriteKeeps, GotoKeeps

(* A request that fails counts as "no", or as "do not retry".              *)
LEMMA AfterErrorFailsKeeps == ASSUME JobInv, NEW w \in Worker, AfterErrorFails(w) PROVE JobInv'
<1>1. /\ wpc[w] \in {"error", "fail"} /\ Quiet /\ CountTypes' /\ Local
      /\ ~setting.expiring => record.status # "succeeded"
  BY WorkerFacts DEF AfterErrorFails, StoreFault, Quiet, CountTypes, WorkerOK, WorkerReady, Reports,
     Writes
<1>2. PICK label \in {"fail", "patch_failed"} : WorkerTo(w, label)
  BY DEF AfterErrorFails
<1>3. Means(w, label)
  BY <1>1, <1>2 DEF Means, Label
<1> QED
  BY <1>1, <1>2, <1>3, GotoKeeps

(* The job is queued again, or has failed.                                 *)
LEMMA FailOrRetryKeeps == ASSUME JobInv, NEW w \in Worker, fail_or_retry(w) PROVE JobInv'
<1> DEFINE r1 == [record EXCEPT !.status = "queued"]
           r2 == [record EXCEPT !.status = "failed"]
<1>1. /\ wpc[w] = "fail" /\ Quiet /\ CountTypes'
      /\ ~setting.expiring => record.status # "succeeded"
  BY WorkerFacts DEF fail_or_retry, Quiet, CountTypes, bounds, WorkerOK, WorkerReady, Reports,
     Writes
<1>2. r1 \in Record /\ r1.status = "queued" /\ r2 \in Record /\ r2.status = "failed"
  <2>1. record \in Record
    BY WorkerFacts
  <2>2. r1 \in Record /\ r1.status = "queued"
    BY <2>1, RecordUpdates, Statuses, Zenon
  <2>3. r2 \in Record /\ r2.status = "failed"
    BY <2>1, RecordUpdates, Statuses, Zenon
  <2> QED
    BY <2>2, <2>3
<1>3. \/ WriteFenced(w, r1, "release_retry", "patch_failed")
      \/ WriteFenced(w, r2, "patch_failed", "patch_failed")
  BY DEF fail_or_retry
<1> HIDE DEF r1, r2
<1>4. /\ MeansWrite(w, r1, "release_retry", "patch_failed")
      /\ MeansWrite(w, r2, "patch_failed", "patch_failed")
  BY <1>1, <1>2 DEF MeansWrite, Continuation, To, NoAfter
<1> QED
  BY <1>1, <1>3, <1>4, WriteKeeps

--------------------------------------------------------------------------------
(* The steps of workers that change what is shared.                        *)
LEMMA WorkerStepKeeps ==
  ASSUME JobInv, NEW w \in Worker, LeavesOthers({w}), Types', WorkerOK(w)', caller' = caller,
         ClaimsAreIndexed', SucceededIsReady', sibling' = sibling, file' = "parquet" => file = "parquet"
  PROVE  JobInv'
<1>1. \A u \in Worker : WorkerOK(u)'
  BY OthersStay
<1>2. \A c \in Caller : crec'[c].status # "succeeded"
  BY DEF JobInv, caller
<1> QED
  BY <1>1, <1>2 DEF JobInv

(* The record is put; or the put, or the check before it, fails.           *)
LEMMA PutKeeps ==
  ASSUME JobInv, NEW w \in Worker, Writes(w), NEW label, WorkerTo(w, label), Local,
         record' \in {record, rec[w]}, UNCHANGED <<cancelFile, shard, clock, caller, setting>>,
         CountTypes', label \in {after[w].ok, after[w].err}
  PROVE  JobInv'
<1> USE DEF shard, clock, caller
<1>1. /\ WorkerOK(w) /\ after[w] \in Continuation /\ after[w] # NoAfter
      /\ record \in Record /\ rec[w] \in Record
  BY Zenon DEF JobInv, Types, WorkerOK, WorkerLocal
<1>2. /\ label \in Label /\ label \notin {"claim", "claimed", "unless_cancelled", "patch",
              "finish_put", "commit_ready", "commit_failed", "verify", "checkpoint2", "checkpoint3", "check", "put", "fail"}
      /\ label = "off" => after[w].err = "off" /\ after[w].ok = "release"
      /\ label = "release_retry" => label = after[w].ok
      /\ label \in {"checkpoint1", "put_file", "wait", "succeed"} => label = after[w].ok
  BY Zenon, <1>1, Continuations
<1>3. /\ LocalTypes' /\ Moves(w) /\ wpc'[w] = label
      /\ rec'[w] = rec[w] /\ after'[w] = after[w] /\ token'[w] = token[w] /\ tries'[w] = tries[w]
  BY Zenon, <1>2, GotoMoves
<1>4. Types'
  BY Zenon, <1>1, <1>3 DEF JobInv, Types, LocalTypes, CountTypes
<1>5. LeavesOthers({w})
  BY Zenon, <1>1, <1>3 DEF LeavesOthers, Moves, WorkerOK, WorkerHolds, Writes, Holds, Lock!HoldsFence,
     Lock!Expired, Settles
<1>6. WorkerLocal(w)'
  BY Zenon, <1>1, <1>2, <1>3 DEF WorkerOK, WorkerLocal, Writes, Building
<1>7. WorkerHolds(w)' /\ WorkerIndexed(w)'
  BY ZenonT(40), <1>1, <1>2, <1>3 DEF WorkerOK, WorkerHolds, WorkerIndexed, Writes, Holds, Lock!HoldsFence,
     Lock!Expired
<1>8. WorkerReady(w)'
  BY SMTT(40), <1>1, <1>2, <1>3 DEF WorkerOK, WorkerReady, Reports, Writes, To, Settles
<1>9. ClaimsAreIndexed' /\ SucceededIsReady'
  BY <1>1 DEF JobInv, ClaimsAreIndexed, SucceededIsReady, WorkerOK, WorkerIndexed, WorkerReady,
     Reports, Settles
<1> QED
  BY <1>4, <1>5, <1>6, <1>7, <1>8, <1>9, WorkerStepKeeps DEF WorkerOK

(* The put of write_fenced.                                                *)
LEMMA PutRecordKeeps == ASSUME JobInv, NEW w \in Worker, PutRecord(w) PROVE JobInv'
<1>1. CountTypes' /\ setting' = setting
  BY WorkerFacts DEF PutRecord, CountTypes, bounds
<1> QED
  BY <1>1, PutKeeps DEF PutRecord, Writes

(* Its check or its put fails.                                             *)
LEMMA WriteFailsKeeps == ASSUME JobInv, NEW w \in Worker, WriteFails(w) PROVE JobInv'
<1>1. CountTypes' /\ setting' = setting
  BY WorkerFacts DEF WriteFails, StoreFault, CountTypes
<1>2. record' \in {record, rec[w]}
  BY DEF WriteFails
<1> QED
  BY <1>1, <1>2, PutKeeps DEF WriteFails, Writes

(* The lock is granted when nobody has it.                                 *)
LEMMA AcquireKeeps == ASSUME JobInv, NEW w \in Worker, try_acquire_lock_fenced(w) PROVE JobInv'
<1>1. /\ WorkerOK(w) /\ wpc[w] = "claim" /\ UNCHANGED <<job, shard, caller, setting>> /\ CountTypes'
  BY WorkerFacts DEF try_acquire_lock_fenced, CountTypes, bounds
<1>2. CASE ~LockFree
  <2>1. Quiet /\ Stop(w)
    BY <1>1, <1>2 DEF try_acquire_lock_fenced, Quiet
  <2> QED
    BY <1>1, <2>1, StopMoves, QuietKeeps
<1>3. CASE LockFree
  <2> USE DEF job, shard, caller
  <2>1. /\ lease' = [owner |-> w, fence |-> lease.fence + 1, expires |-> now + LOCK_LEASE_MS]
        /\ token' = [token EXCEPT ![w] = lease.fence + 1] /\ WorkerTo(w, "claimed")
        /\ UNCHANGED <<now, rec, after, tries, seen>>
    BY Zenon, <1>3 DEF try_acquire_lock_fenced
  <2>2. /\ lease.fence + 1 \in Nat /\ now + LOCK_LEASE_MS \in Int /\ now + LOCK_LEASE_MS > now
        /\ now \in Nat /\ lease.expires <= now
    BY <1>3, JobAssumption DEF JobInv, Types, LockFree, Lock!Expired
  <2>3. /\ LocalTypes' /\ Moves(w) /\ wpc'[w] = "claimed" /\ rec'[w] = rec[w]
        /\ after'[w] = after[w] /\ token'[w] = lease.fence + 1 /\ tries'[w] = tries[w]
    BY <2>1, <2>2 DEF JobInv, Types, WorkerTo, LocalTypes, Moves, Label
  <2>4. lease' \in [owner : Worker \cup {NoWorker}, fence : Nat, expires : Int]
    BY <2>1, <2>2
  <2>5. Types'
    BY Zenon, <1>1, <2>1, <2>3, <2>4 DEF JobInv, Types, LocalTypes, CountTypes
  <2>6. Holds(w)'
    BY SMTT(40), <2>1, <2>2, <2>3 DEF Holds, Lock!HoldsFence, Lock!Expired
  <2>7. LeavesOthers({w})
    <3>1. \A u \in Worker : ~Holds(u)
      BY ZenonT(40), <2>2, <1>3 DEF Holds, Lock!HoldsFence, LockFree
    <3> QED
      BY <1>1, <2>3, <3>1 DEF LeavesOthers, Moves, Settles
  <2>8. WorkerOK(w)'
    BY <1>1, <2>3, <2>6 DEF WorkerOK, WorkerLocal, WorkerHolds, WorkerIndexed, WorkerReady, Reports,
       Writes, Settles
  <2>9. ClaimsAreIndexed' /\ SucceededIsReady'
    BY <1>1 DEF JobInv, ClaimsAreIndexed, SucceededIsReady
  <2> QED
    BY Zenon, <1>1, <2>5, <2>7, <2>8, <2>9, WorkerStepKeeps
<1> QED
  BY <1>2, <1>3

(* A release gives back the lease of the caller only.                      *)
LEMMA ReleasedLease ==
  ASSUME JobInv, NEW w \in Worker
  PROVE  /\ Released(w) \in [owner : Worker \cup {NoWorker}, fence : Nat, expires : Int]
         /\ Released(w) # lease => lease.owner = w
<1>1. now - 1 \in Int /\ lease \in [owner : Worker \cup {NoWorker}, fence : Nat, expires : Int]
  BY SMTT(40) DEF JobInv, Types
<1> QED
  BY <1>1 DEF Released

(* So the lock of another worker stays.                                    *)
LEMMA ReleaseLeaves ==
  ASSUME JobInv, NEW w \in Worker, lease' \in {lease, Released(w)}, now' = now, Moves(w),
         UNCHANGED <<setting, file, entry, overwritten, overlooked, record>>
  PROVE  LeavesOthers({w})
<1>1. \A u \in Worker \ {w} : Holds(u) => Holds(u)'
  BY ReleasedLease DEF Moves, Holds, Lock!HoldsFence, Lock!Expired
<1> QED
  BY <1>1 DEF LeavesOthers, Moves, Settles

(* The worker ends, or claims the job again.                               *)
LEMMA ReleaseKeeps == ASSUME JobInv, NEW w \in Worker, release_claim(w) PROVE JobInv'
<1> USE DEF job, shard, caller
<1>1. /\ WorkerOK(w) /\ UNCHANGED <<job, shard, now, caller, setting>> /\ CountTypes'
      /\ lease' = Released(w)
  BY WorkerFacts DEF release_claim, CountTypes, bounds
<1>2. LocalTypes' /\ Moves(w) /\ WorkerOK(w)'
  <2>1. CASE Stop(w)
    BY ZenonT(40), <2>1, StopMoves
  <2>2. CASE ~Stop(w)
    <3>1. /\ wpc[w] = "release_retry" /\ WorkerTo(w, "claim") /\ UNCHANGED <<rec, after>>
          /\ token' = [token EXCEPT ![w] = 0] /\ tries' = [tries EXCEPT ![w] = 0]
          /\ seen' = [seen EXCEPT ![w] = "absent"]
      BY Zenon, <2>2 DEF release_claim
    <3>2. /\ LocalTypes' /\ Moves(w) /\ wpc'[w] = "claim" /\ rec'[w] = rec[w]
          /\ after'[w] = after[w] /\ tries'[w] = 0
      BY <3>1, JobAssumption DEF JobInv, Types, WorkerTo, LocalTypes, Moves, Label, Listed
    <3> QED
      BY <1>1, <3>1, <3>2 DEF WorkerOK, WorkerLocal, WorkerHolds, WorkerIndexed, WorkerReady,
         Reports, Writes
  <2> QED
    BY <2>1, <2>2
<1>3. LeavesOthers({w})
  BY <1>1, <1>2, ReleaseLeaves
<1>4. Types'
  BY Zenon, <1>1, <1>2, ReleasedLease DEF JobInv, Types, LocalTypes, CountTypes
<1>5. ClaimsAreIndexed' /\ SucceededIsReady'
  BY <1>1 DEF JobInv, ClaimsAreIndexed, SucceededIsReady
<1> QED
  BY <1>1, <1>2, <1>3, <1>4, <1>5, WorkerStepKeeps

(* A crash frees the lock of LocalStore, if it was the worker's.           *)
LEMMA CrashKeeps == ASSUME JobInv, NEW w \in Worker, Crash(w) PROVE JobInv'
<1> USE DEF job, shard, caller
<1>1. /\ UNCHANGED <<job, shard, now, caller, setting>> /\ CountTypes' /\ Stop(w)
      /\ lease' \in {lease, Released(w)}
  BY WorkerFacts DEF Crash, CountTypes
<1>2. LocalTypes' /\ Moves(w) /\ WorkerOK(w)'
  BY <1>1, StopMoves
<1>3. LeavesOthers({w})
  BY <1>1, <1>2, ReleaseLeaves
<1>4. Types'
  BY Zenon, <1>1, <1>2, ReleasedLease DEF JobInv, Types, LocalTypes, CountTypes
<1>5. ClaimsAreIndexed' /\ SucceededIsReady'
  BY <1>1 DEF JobInv, ClaimsAreIndexed, SucceededIsReady
<1> QED
  BY <1>1, <1>2, <1>3, <1>4, <1>5, WorkerStepKeeps

(* The shard is put with its index, by a worker that has the lock when the *)
(* file is torn meanwhile.                                                 *)
LEMMA PutFileKeeps == ASSUME JobInv, NEW w \in Worker, PutFile(w) PROVE JobInv'
<1> USE DEF job, clock, caller
<1> DEFINE label == IF file' = "torn" THEN "finish_put" ELSE "checkpoint2"
<1>1. /\ WorkerOK(w) /\ wpc[w] \in {"put_file", "finish_put"} /\ CountTypes' /\ Local
      /\ UNCHANGED <<job, entry, sibling, overwritten, overlooked, clock, caller, setting>>
  BY Zenon, WorkerFacts DEF PutFile, CountTypes, bounds
<1>2. /\ WorkerTo(w, label) /\ file' \in {"torn", "indexed"} /\ (file' = "torn" => ~setting.expiring)
  BY DEF PutFile
<1>3. label \in {"finish_put", "checkpoint2"} /\ (label = "checkpoint2" => file' = "indexed")
  BY <1>2
<1> HIDE DEF label
<1>4. /\ LocalTypes' /\ Moves(w) /\ wpc'[w] = label
      /\ rec'[w] = rec[w] /\ after'[w] = after[w] /\ token'[w] = token[w] /\ tries'[w] = tries[w]
  <2>1. label \in Label
    BY Zenon, <1>3 DEF Label, Building
  <2> QED
    BY <1>1, <1>2, <2>1, GotoMoves
<1>5. /\ tries[w] = 0
      /\ ~setting.expiring => Holds(w) /\ record.status # "succeeded"
  BY <1>1 DEF WorkerOK, WorkerLocal, WorkerHolds, WorkerReady, Reports, Writes
<1>6. LeavesOthers({w})
  BY <1>1, <1>2, <1>4, <1>5 DEF LeavesOthers, Moves, Holds, Lock!HoldsFence, Lock!Expired, Settles
<1>7. Types'
  BY Zenon, <1>1, <1>2, <1>4 DEF JobInv, Types, LocalTypes, CountTypes
<1>8. WorkerLocal(w)' /\ WorkerHolds(w)' /\ WorkerReady(w)'
  BY <1>1, <1>3, <1>4, <1>5 DEF WorkerOK, WorkerLocal, WorkerHolds, WorkerReady, Reports, Writes,
     Holds, Lock!HoldsFence, Lock!Expired
<1>9. WorkerIndexed(w)'
  <2>1. ~setting.expiring => rec[w].status # "succeeded" /\ after[w].ok \notin {"wait", "succeed"}
    BY <1>1 DEF WorkerOK, WorkerLocal, WorkerReady
  <2> QED
    BY <1>1, <1>2, <1>3, <1>4, <2>1 DEF WorkerIndexed
<1>10. ClaimsAreIndexed' /\ SucceededIsReady'
  BY <1>1, <1>2, <1>5 DEF JobInv, ClaimsAreIndexed, SucceededIsReady
<1> QED
  BY <1>1, <1>2, <1>6, <1>7, <1>8, <1>9, <1>10, WorkerStepKeeps DEF WorkerOK

(* The files are listed, for the status Ready or for Failed.               *)
LEMMA ListKeeps ==
  ASSUME JobInv, NEW w \in Worker, ListForPatch(w) \/ patch_index_failed(w) PROVE JobInv'
<1>1. /\ WorkerOK(w) /\ wpc[w] \in {"patch", "patch_failed"} /\ Quiet /\ CountTypes'
      /\ UNCHANGED <<rec, after, token, tries>> /\ seen' = [seen EXCEPT ![w] = InList]
  BY WorkerFacts DEF ListForPatch, patch_index_failed, Quiet, CountTypes, bounds
<1>2. Listing
  <2>1. InList \in Listed
    BY WorkerFacts DEF InList, Listed
  <2> QED
    BY <1>1, <2>1, WorkerFacts DEF Listing
<1>3. PICK label \in {"checkpoint3", "commit_ready", "commit_failed"} :
        /\ WorkerTo(w, label)
        /\ label = "checkpoint3" => entry = "ready"
        /\ label = "commit_failed" \/ wpc[w] = "patch"
  BY DEF ListForPatch, patch_index_failed
<1>4. Means(w, label)
  BY <1>1, <1>3 DEF Means, Label, Building, WorkerOK, WorkerLocal, WorkerIndexed, WorkerReady, Reports,
     Writes, Settles
<1> QED
  BY <1>1, <1>2, <1>3, <1>4, GotoKeeps

(* What a Replace makes of the entry.                                      *)
LEMMA ReplacedEntry ==
  ASSUME NEW status \in Listed \cup {"none"}
  PROVE  Replaced(status) \in {status, "dropped"} /\ Replaced(status) \in Listed \cup {"none"}
BY DEF Replaced, Listed

(* Whether a listed status stands for a missing shard is a truth value,    *)
(* which is what the history variable overlooked records.                  *)
LEMMA MissingOrNot == ASSUME NEW status PROVE (status \in Missing) \in BOOLEAN
BY SMT

(* The list is committed with this shard Ready, if it is there, by a       *)
(* worker that has put the index.                                          *)
LEMMA CommitReadyKeeps == ASSUME JobInv, NEW w \in Worker, CommitReady(w) PROVE JobInv'
<1> USE DEF job, clock, caller
<1>1. /\ WorkerOK(w) /\ wpc[w] = "commit_ready" /\ CountTypes'
      /\ UNCHANGED <<file, sibling, job, clock, caller, setting, rec, after, token, seen>>
      /\ WorkerTo(w, "verify") /\ tries' = [tries EXCEPT ![w] = @ + 1]
      /\ entry' = Replaced(Patched(w, "ready"))
      /\ overwritten' = FALSE /\ overlooked' = (seen[w] \in Missing)
  BY WorkerFacts DEF CommitReady, CountTypes, bounds
<1>2. /\ file = "indexed" /\ tries[w] + 1 \in 0 .. PATCH_ATTEMPTS
      /\ ~setting.expiring => Holds(w) /\ record.status # "succeeded"
  BY <1>1, WorkerFacts, JobAssumption DEF WorkerOK, WorkerLocal, WorkerHolds, WorkerIndexed,
     WorkerReady, Reports, Writes
<1>3. Patched(w, "ready") \in Listed \cup {"none"} /\ (seen[w] \notin Missing => entry' = "ready")
  BY <1>1, WorkerFacts DEF Patched, Listed, Replaced
<1>4. Settles'
  BY <1>1, <1>3 DEF Settles
<1>5. /\ LocalTypes' /\ Moves(w) /\ wpc'[w] = "verify"
      /\ rec'[w] = rec[w] /\ after'[w] = after[w] /\ token'[w] = token[w]
  BY <1>1, <1>2 DEF JobInv, Types, WorkerTo, LocalTypes, Moves, Label, Building
<1>6. LeavesOthers({w})
  BY <1>1, <1>4, <1>5 DEF LeavesOthers, Moves, Holds, Lock!HoldsFence, Lock!Expired
<1>7. Types'
  <2>1. overwritten' \in BOOLEAN /\ overlooked' \in BOOLEAN
    <3>1. overwritten' = FALSE /\ overlooked' = (seen[w] \in Missing)
      BY Zenon, <1>1
    <3> QED
      BY Zenon, <3>1, MissingOrNot
  <2>2. entry' \in Listed \cup {"none"}
    BY <1>1, <1>3, ReplacedEntry
  <2> QED
    BY Zenon, <1>1, <1>5, <2>1, <2>2 DEF JobInv, Types, LocalTypes, CountTypes
<1>8. WorkerOK(w)'
  BY <1>1, <1>2, <1>4, <1>5 DEF WorkerOK, WorkerLocal, WorkerHolds, WorkerIndexed, WorkerReady, Reports,
     Writes, Holds, Lock!HoldsFence, Lock!Expired
<1>9. ClaimsAreIndexed' /\ SucceededIsReady'
  BY <1>1, <1>2 DEF JobInv, ClaimsAreIndexed, SucceededIsReady
<1> QED
  BY <1>1, <1>6, <1>7, <1>8, <1>9, WorkerStepKeeps

(* The list is committed with this shard Failed, when no record says that  *)
(* the job succeeded.                                                      *)
LEMMA CommitFailedKeeps == ASSUME JobInv, NEW w \in Worker, CommitFailed(w) PROVE JobInv'
<1> USE DEF job, clock, caller
<1>1. /\ WorkerOK(w) /\ wpc[w] = "commit_failed" /\ CountTypes' /\ WorkerTo(w, "release") /\ Local
      /\ UNCHANGED <<file, sibling, overwritten, overlooked, job, clock, caller, setting>>
      /\ entry' = Replaced(Patched(w, "failed"))
  BY WorkerFacts DEF CommitFailed, CountTypes, bounds
<1>2. ~setting.expiring => Holds(w) /\ record.status # "succeeded"
  BY <1>1 DEF WorkerOK, WorkerHolds, WorkerReady, Reports, Writes
<1>3. entry' \in Listed \cup {"none"} /\ entry' # "ready"
  <2>1. Patched(w, "failed") \in Listed \cup {"none"} /\ Patched(w, "failed") # "ready"
    BY WorkerFacts DEF Patched, Listed, Missing
  <2> QED
    BY <1>1, <2>1, ReplacedEntry
<1>4. /\ LocalTypes' /\ Moves(w) /\ wpc'[w] = "release"
      /\ rec'[w] = rec[w] /\ after'[w] = after[w] /\ token'[w] = token[w] /\ tries'[w] = tries[w]
  <2>1. "release" \in Label
    BY Zenon DEF Label
  <2> QED
    BY <1>1, <2>1, GotoMoves
<1>5. LeavesOthers({w})
  BY <1>1, <1>2, <1>4 DEF LeavesOthers, Moves, Holds, Lock!HoldsFence, Lock!Expired
<1>6. Types'
  BY Zenon, <1>1, <1>3, <1>4 DEF JobInv, Types, LocalTypes, CountTypes
<1>7. WorkerOK(w)'
  BY Zenon, <1>1, <1>4 DEF WorkerOK, WorkerLocal, WorkerHolds, WorkerIndexed, WorkerReady, Reports, Writes,
     Holds, Lock!HoldsFence, Lock!Expired
<1>8. ClaimsAreIndexed' /\ SucceededIsReady'
  BY <1>1, <1>2, <1>3 DEF JobInv, ClaimsAreIndexed, SucceededIsReady
<1> QED
  BY <1>1, <1>5, <1>6, <1>7, <1>8, WorkerStepKeeps

(* A request for either fails.                                             *)
LEMMA PatchFailedFailsKeeps == ASSUME JobInv, NEW w \in Worker, PatchFailedFails(w) PROVE JobInv'
<1>1. /\ wpc[w] \in {"patch_failed", "commit_failed"} /\ Quiet /\ CountTypes' /\ Local
      /\ WorkerTo(w, "release")
  BY WorkerFacts DEF PatchFailedFails, Quiet, CountTypes
<1>2. Means(w, "release")
  BY <1>1 DEF Means, Label
<1> QED
  BY <1>1, <1>2, GotoKeeps

--------------------------------------------------------------------------------
(* Steps of no worker.                                                     *)
LEMMA OtherStepKeeps ==
  ASSUME JobInv, LeavesOthers({}), Types', \A c \in Caller : crec'[c].status # "succeeded",
         ClaimsAreIndexed', SucceededIsReady', sibling' = "ready" => file' # "parquet"
  PROVE  JobInv'
<1>1. \A u \in Worker : WorkerOK(u)'
  BY SMTT(40), OthersStay
<1> QED
  BY <1>1 DEF JobInv

(* The heartbeat and the clock, which there are with an expiring lease.    *)
LEMMA LeaseMovesKeeps ==
  ASSUME JobInv, setting.expiring, UNCHANGED <<job, shard, worker, caller, bounds>>,
         lease' \in [owner : Worker \cup {NoWorker}, fence : Nat, expires : Int],
         now' \in Nat \ {0}
  PROVE  JobInv'
<1> USE DEF job, shard, worker, caller, bounds
<1>1. LeavesOthers({})
  BY DEF LeavesOthers, Settles
<1>2. Types'
  BY DEF JobInv, Types
<1>3. ClaimsAreIndexed' /\ SucceededIsReady' /\ \A c \in Caller : crec'[c].status # "succeeded"
  BY DEF JobInv, ClaimsAreIndexed, SucceededIsReady
<1>4. sibling' = "ready" => file' # "parquet"
  BY DEF JobInv
<1> QED
  BY <1>1, <1>2, <1>3, <1>4, OtherStepKeeps

(* The heartbeat.                                                          *)
LEMMA RenewKeeps == ASSUME JobInv, NEW w \in Worker, renew_claim(w) PROVE JobInv'
<1>1. /\ now \in Nat \ {0} /\ now + LOCK_LEASE_MS \in Int
      /\ lease \in [owner : Worker \cup {NoWorker}, fence : Nat, expires : Int]
  BY JobAssumption DEF JobInv, Types
<1>2. /\ lease' \in [owner : Worker \cup {NoWorker}, fence : Nat, expires : Int]
      /\ now' \in Nat \ {0}
  BY <1>1 DEF renew_claim
<1> QED
  BY <1>2, LeaseMovesKeeps DEF renew_claim

(* The clock.                                                              *)
LEMMA TickKeeps == ASSUME JobInv, Tick PROVE JobInv'
<1>1. /\ lease' \in [owner : Worker \cup {NoWorker}, fence : Nat, expires : Int]
      /\ now' \in Nat \ {0}
  BY DEF Tick, Lock!Tick, JobInv, Types
<1> QED
  BY <1>1, LeaseMovesKeeps DEF Tick

(* The writer commits the shard.                                           *)
LEMMA CommitKeeps == ASSUME JobInv, CommitShard PROVE JobInv'
<1> USE DEF job, clock, worker, caller, bounds
<1>1. LeavesOthers({})
  BY DEF CommitShard, LeavesOthers, Holds, Lock!HoldsFence, Lock!Expired, Settles
<1>2. Types'
  <2>1. entry' \in Listed \cup {"none"}
    BY DEF CommitShard, Listed
  <2> QED
    BY Zenon, <2>1 DEF JobInv, Types, CommitShard
<1>3. ClaimsAreIndexed' /\ SucceededIsReady' /\ \A c \in Caller : crec'[c].status # "succeeded"
  BY DEF JobInv, ClaimsAreIndexed, SucceededIsReady, CommitShard
<1>4. sibling' = "ready" => file' # "parquet"
  BY DEF JobInv, CommitShard
<1> QED
  BY ZenonT(40), <1>1, <1>2, <1>3, <1>4, OtherStepKeeps

(* Another task lists the files, and commits its Replace.                  *)
LEMMA SiblingKeeps == ASSUME JobInv, SiblingLists \/ SiblingCommits PROVE JobInv'
<1> USE DEF job, clock, worker, caller, bounds
<1>1. /\ UNCHANGED <<file, overlooked, job, clock, worker, caller, setting>> /\ CountTypes'
  BY DEF JobInv, Types, CountTypes, SiblingLists, SiblingCommits
<1>2. /\ sibling' \in {entry, "none"} /\ entry' \in {entry, Replaced(sibling)}
      /\ overwritten' \in BOOLEAN
      /\ overwritten \/ entry' # entry => overwritten'
  BY DEF JobInv, Types, SiblingLists, SiblingCommits
<1>3. /\ entry' \in Listed \cup {"none"} /\ sibling' \in Listed \cup {"none"}
      /\ entry' = "ready" => "ready" \in {entry, sibling}
  BY <1>2, ReplacedEntry DEF JobInv, Types, Listed
<1>4. LeavesOthers({})
  BY <1>1, <1>2 DEF LeavesOthers, Holds, Lock!HoldsFence, Lock!Expired, Settles
<1>5. Types'
  BY <1>1, <1>2, <1>3 DEF JobInv, Types, CountTypes
<1>6. (entry = "ready" \/ sibling = "ready" => file # "parquet") /\ file \in {"parquet", "torn", "indexed"}
      /\ (file = "torn" => ~setting.expiring)
  BY DEF JobInv, Types, ClaimsAreIndexed
<1>7. ClaimsAreIndexed' /\ (sibling' = "ready" => file' # "parquet")
  BY <1>1, <1>2, <1>3, <1>6 DEF JobInv, ClaimsAreIndexed
<1>8. SucceededIsReady' /\ \A c \in Caller : crec'[c].status # "succeeded"
  BY <1>1, <1>2 DEF JobInv, SucceededIsReady
<1> QED
  BY <1>4, <1>5, <1>7, <1>8, OtherStepKeeps

(* The calls write records that do not say that the job has succeeded.     *)
LEMMA CallKeeps ==
  ASSUME JobInv, UNCHANGED <<shard, clock, worker, setting>>, CountTypes',
         record' = record \/ (record' \in Record /\ record'.status # "succeeded"),
         cancelFile' \in BOOLEAN, cpc' \in [Caller -> CallLabel], crec' \in [Caller -> Record],
         \A c \in Caller : crec'[c].status # "succeeded"
  PROVE  JobInv'
<1> USE DEF shard, clock, worker
<1>1. LeavesOthers({})
  BY DEF LeavesOthers, Holds, Lock!HoldsFence, Lock!Expired, Settles
<1>2. Types'
  BY DEF JobInv, Types, CountTypes
<1>3. ClaimsAreIndexed' /\ SucceededIsReady' /\ (sibling' = "ready" => file' # "parquet")
  BY DEF JobInv, ClaimsAreIndexed, SucceededIsReady
<1> QED
  BY <1>1, <1>2, <1>3, OtherStepKeeps

(* A call that begins reads the record and makes its own.                  *)
LEMMA CallBegins ==
  ASSUME JobInv, NEW c \in Caller, NEW r \in Record, r.status # "succeeded",
         NEW label \in CallLabel, CallTo(c, label), crec' = [crec EXCEPT ![c] = r], CountTypes',
         UNCHANGED <<job, shard, clock, worker, setting>>
  PROVE  JobInv'
<1>1. /\ cpc' \in [Caller -> CallLabel] /\ crec' \in [Caller -> Record]
      /\ \A d \in Caller : crec'[d].status # "succeeded"
  BY DEF JobInv, Types, CallTo
<1>2. cancelFile' \in BOOLEAN /\ record' = record
  BY DEF JobInv, Types, job
<1> QED
  BY <1>1, <1>2, CallKeeps

(* A call that goes on with the record it has.                             *)
LEMMA CallGoesOn ==
  ASSUME JobInv, NEW c \in Caller, NEW label \in CallLabel, CallTo(c, label), crec' = crec,
         CountTypes', UNCHANGED <<shard, clock, worker, setting>>,
         record' \in {record, crec[c]}, cancelFile' \in BOOLEAN
  PROVE  JobInv'
<1>1. /\ cpc' \in [Caller -> CallLabel] /\ crec' \in [Caller -> Record]
      /\ \A d \in Caller : crec'[d].status # "succeeded"
  BY DEF JobInv, Types, CallTo
<1>2. record' = record \/ (record' \in Record /\ record'.status # "succeeded")
  BY DEF JobInv, Types
<1> QED
  BY <1>1, <1>2, CallKeeps

(* request_cancel and retry.                                               *)
LEMMA CancelKeeps == ASSUME JobInv, NEW c \in Caller, request_cancel(c) \/ retry(c) PROVE JobInv'
<1>1. record \in Record /\ CountTypes
  BY DEF JobInv, Types, CountTypes
<1>2. CASE request_cancel(c)
  <2> DEFINE r == [record EXCEPT !.cancel_requested = TRUE]
  <2>1. r \in Record /\ r.status = record.status
    BY <1>1, RecordUpdates, Statuses, Zenon
  <2>2. /\ CallTo(c, "cancel_file") /\ crec' = [crec EXCEPT ![c] = r] /\ CountTypes'
        /\ UNCHANGED <<job, shard, clock, worker, setting>> /\ record.status # "succeeded"
    BY <1>1, <1>2 DEF request_cancel, CountTypes
  <2> HIDE DEF r
  <2> QED
    BY Zenon, <2>1, <2>2, CallBegins DEF CallLabel
<1>3. CASE retry(c)
  <2>1. NewRecord \in Record /\ NewRecord.status # "succeeded"
    BY JobAssumption DEF NewRecord, Record, Status
  <2>2. /\ CallTo(c, "delete_cancel_file") /\ crec' = [crec EXCEPT ![c] = NewRecord] /\ CountTypes'
        /\ UNCHANGED <<job, shard, clock, worker, setting>>
    BY <1>1, <1>3 DEF retry, CountTypes
  <2> QED
    BY Zenon, <2>1, <2>2, CallBegins DEF CallLabel
<1> QED
  BY <1>2, <1>3

(* The cancel file is put or deleted, a call fails, a record is written.   *)
LEMMA CallStepKeeps ==
  ASSUME JobInv, NEW c \in Caller,
         PutCancelFile(c) \/ DeleteCancelFile(c) \/ CallFails(c) \/ WriteUnfenced(c)
  PROVE  JobInv'
<1>1. CountTypes' /\ setting' = setting /\ crec' = crec /\ UNCHANGED <<shard, clock, worker>>
  BY DEF JobInv, Types, CountTypes, PutCancelFile, DeleteCancelFile, CallFails, WriteUnfenced,
     bounds, StoreFault
<1>2. cancelFile' \in {cancelFile, TRUE, FALSE}
  BY Zenon DEF PutCancelFile, DeleteCancelFile, CallFails, WriteUnfenced, job
<1>3. cancelFile' \in BOOLEAN
  <2>1. cancelFile \in BOOLEAN
    BY DEF JobInv, Types
  <2> QED
    BY <1>2, <2>1, Zenon
<1>4. record' \in {record, crec[c]}
  BY DEF PutCancelFile, DeleteCancelFile, CallFails, WriteUnfenced, job
<1>5. PICK label \in CallLabel : CallTo(c, label)
  BY DEF PutCancelFile, DeleteCancelFile, CallFails, WriteUnfenced, CallLabel
<1> QED
  BY <1>1, <1>3, <1>4, <1>5, CallGoesOn

(* recover_after_restart.                                                  *)
LEMMA ResumeKeeps == ASSUME JobInv, NEW c \in Caller, resume_index_jobs(c) PROVE JobInv'
<1> DEFINE recovered == IF record.attempts >= MAX_ATTEMPTS THEN "failed"
                        ELSE IF is_cancel_requested THEN "cancelled" ELSE "queued"
           r == [record EXCEPT !.status = recovered,
                               !.cancel_requested = @ \/ recovered = "cancelled"]
           label == CASE record.status = "running" -> "write_spawn"
                      [] record.status = "queued" -> "spawn"
                      [] OTHER -> "idle"
<1>1. record \in Record /\ CountTypes
  BY DEF JobInv, Types, CountTypes
<1>2. recover_after_restart(c)
  BY DEF resume_index_jobs
<1>3. CountTypes' /\ setting' = setting
  BY <1>1 DEF resume_index_jobs, CountTypes, bounds, Called
<1>4. crec' = [crec EXCEPT ![c] = r] /\ CallTo(c, label) /\ UNCHANGED <<job, shard, clock, worker>>
  BY <1>2 DEF recover_after_restart
<1>5. label \in CallLabel
  BY DEF CallLabel
<1>6. recovered \in Status /\ recovered # "succeeded"
  BY DEF Status
<1>7. r \in Record /\ r.status # "succeeded"
  <2> HIDE DEF recovered
  <2>1. (record.cancel_requested \/ recovered = "cancelled") \in BOOLEAN
    BY Zenon
  <2>2. ASSUME NEW b \in BOOLEAN
        PROVE  /\ [record EXCEPT !.status = recovered, !.cancel_requested = b] \in Record
               /\ [record EXCEPT !.status = recovered, !.cancel_requested = b].status = recovered
    BY ZenonT(40), <1>1, <1>6 DEF Record
  <2>3. r \in Record /\ r.status = recovered
    BY <2>1, <2>2, Zenon
  <2> QED
    BY <1>6, <2>3, Zenon
<1> HIDE DEF r, label
<1> QED
  BY Zenon, <1>3, <1>4, <1>5, <1>7, CallBegins

(* A worker is started.                                                    *)
LEMMA SpawnKeeps == ASSUME JobInv, NEW c \in Caller, spawn_index_job(c) PROVE JobInv'
<1>1. CallTo(c, "idle") /\ Local
  BY DEF spawn_index_job
<1>2. PICK w \in Worker : wpc[w] = "off" /\ WorkerTo(w, "claim")
  <2> DEFINE idle == {w \in Worker : wpc[w] = "off"}
  <2>1. idle \subseteq Worker /\ idle # {} /\ WorkerTo(First(idle), "claim")
    BY DEF spawn_index_job
  <2>2. First(idle) \in idle
    BY <2>1, FirstIsOne
  <2> QED
    BY <2>1, <2>2
<1>3. /\ WorkerOK(w) /\ UNCHANGED <<job, shard, clock, crec, setting>> /\ CountTypes'
  BY <1>2, WorkerFacts DEF spawn_index_job, CountTypes, bounds
<1>4. /\ LocalTypes' /\ Moves(w) /\ wpc'[w] = "claim"
      /\ rec'[w] = rec[w] /\ after'[w] = after[w] /\ token'[w] = token[w] /\ tries'[w] = tries[w]
  <2>1. "claim" \in Label
    BY Zenon DEF Label
  <2> QED
    BY <1>1, <1>2, <2>1, GotoMoves
<1>5. WorkerOK(w)'
  BY ZenonT(40), <1>2, <1>3, <1>4 DEF WorkerOK, WorkerLocal, WorkerHolds, WorkerIndexed, WorkerReady, Reports,
     Writes, shard, Settles
<1>6. LeavesOthers({w})
  BY Zenon, <1>3, <1>4 DEF LeavesOthers, Moves, Holds, Lock!HoldsFence, Lock!Expired, job, shard, clock, Settles
<1>7. \A u \in Worker : WorkerOK(u)'
  BY <1>5, <1>6, OthersStay
<1>8. cpc' \in [Caller -> CallLabel]
  BY <1>1 DEF JobInv, Types, CallTo, CallLabel
<1>9. Types'
  BY ZenonT(40), <1>3, <1>4, <1>8 DEF JobInv, Types, LocalTypes, CountTypes, job, shard, clock
<1>10. ClaimsAreIndexed' /\ SucceededIsReady' /\ \A d \in Caller : crec'[d].status # "succeeded"
  BY <1>3 DEF JobInv, ClaimsAreIndexed, SucceededIsReady, job, shard
<1>11. sibling' = "ready" => file' # "parquet"
  BY <1>3 DEF JobInv, shard
<1> QED
  BY <1>7, <1>9, <1>10, <1>11 DEF JobInv

--------------------------------------------------------------------------------
(* Every step keeps the invariant.                                         *)
LEMMA NextInv == JobInv /\ [JobNext]_jobVars => JobInv'
<1> SUFFICES ASSUME JobInv, [JobNext]_jobVars PROVE JobInv'
  OBVIOUS
<1>1. ASSUME NEW w \in Worker, WorkerStep(w) PROVE JobInv'
  BY ZenonT(40), <1>1, CheckFenceKeeps, PutRecordKeeps, AcquireKeeps, ReadClaimKeeps, ClaimKeeps, ReleaseKeeps,
     CheckpointKeeps, PutFileKeeps, WaitKeeps, ListKeeps, CommitReadyKeeps, VerifyKeeps,
     SucceedKeeps, AfterErrorKeeps, FailOrRetryKeeps, CommitFailedKeeps DEF WorkerStep
<1>2. ASSUME NEW w \in Worker,
             \/ renew_claim(w) \/ BuildFails(w) \/ Crash(w) \/ WriteFails(w) \/ ClaimFails(w)
             \/ AfterErrorFails(w) \/ PatchFailedFails(w)
      PROVE  JobInv'
  BY <1>2, RenewKeeps, BuildFailsKeeps, CrashKeeps, WriteFailsKeeps, ClaimFailsKeeps,
     AfterErrorFailsKeeps, PatchFailedFailsKeeps
<1>3. ASSUME NEW c \in Caller,
             \/ request_cancel(c) \/ retry(c) \/ resume_index_jobs(c) \/ CallerStep(c)
             \/ CallFails(c)
      PROVE  JobInv'
  BY Zenon, <1>3, CancelKeeps, ResumeKeeps, CallStepKeeps, SpawnKeeps DEF CallerStep
<1>4. CASE UNCHANGED jobVars
  <2> USE <1>4 DEF jobVars, job, shard, clock, worker, caller, bounds
  <2>1. LeavesOthers({})
    BY DEF LeavesOthers, Holds, Lock!HoldsFence, Lock!Expired, Settles
  <2>2. Types'
    BY Zenon DEF JobInv, Types
  <2>3. ClaimsAreIndexed' /\ SucceededIsReady' /\ \A c \in Caller : crec'[c].status # "succeeded"
    BY Zenon DEF JobInv, ClaimsAreIndexed, SucceededIsReady
  <2>4. sibling' = "ready" => file' # "parquet"
    BY Zenon DEF JobInv
  <2> QED
    BY ZenonT(40), <2>1, <2>2, <2>3, <2>4, OtherStepKeeps
<1> QED
  BY <1>1, <1>2, <1>3, <1>4, CommitKeeps, SiblingKeeps, TickKeeps DEF JobNext

(* It holds always.                                                        *)
LEMMA SpecInv == JobSpec => []JobInv
BY InitInv, NextInv, PTL DEF JobSpec

--------------------------------------------------------------------------------
(* The variables keep their types: attempts stay within MAX_ATTEMPTS and   *)
(* patches within their bound, through retries, restarts and resumptions.  *)
THEOREM JobTypes == JobSpec => []JobTypeOK
<1>1. JobInv => JobTypeOK
  <2> SUFFICES ASSUME JobInv PROVE JobTypeOK
    OBVIOUS
  <2>1. after \in [Worker -> [ok : Label, err : Label]]
    <3>1. \A a \in Continuation : a \in [ok : Label, err : Label]
      BY Continuations DEF To
    <3> QED
      BY <3>1 DEF JobInv, Types
  <2>2. /\ lease.owner \in Worker \cup {NoWorker} /\ lease.fence \in Nat /\ lease.expires \in Int
        /\ now \in Nat
    BY Zenon DEF JobInv, Types
  <2> QED
    BY <2>1, <2>2 DEF JobInv, Types, JobTypeOK, CallLabel
<1> QED
  BY <1>1, SpecInv, PTL

(* "two processes cannot build the same file concurrently on LocalStore"   *)
(* (try_claim): with a lock that does not expire, a worker that builds has *)
(* it, and nobody else.                                                    *)
THEOREM BuildersExclude == JobSpec => []OneBuilder
<1>1. JobInv => OneBuilder
  <2> SUFFICES ASSUME JobInv, ~setting.expiring, NEW v \in Worker, NEW w \in Worker,
                      Builds(v), Builds(w)
               PROVE  v = w
    BY Zenon DEF OneBuilder
  <2>1. ASSUME NEW u \in Worker, Builds(u) PROVE Holds(u)
    BY <2>1 DEF JobInv, WorkerOK, WorkerLocal, WorkerHolds, Builds, Building
  <2> QED
    BY <2>1 DEF Holds, Lock!HoldsFence
<1> QED
  BY <1>1, SpecInv, PTL

(* With a lock that does not expire, a job that reports success has left   *)
(* its shard Ready in the table; and it is Ready still, unless a sibling's *)
(* Replace has changed the entry since, or the shard was missing from the  *)
(* list the job patched.                                                   *)
THEOREM SuccessIsReady == JobSpec => []SucceededIsReady
BY SpecInv, PTL DEF JobInv

(* Whoever sees the job succeeded finds the index in the file, also when   *)
(* leases expire under the workers; and so does whoever sees the entry     *)
(* Ready, but for a file that LocalStore is writing over.                  *)
THEOREM ReadyIsIndexed == JobSpec => []ClaimsAreIndexed
BY SpecInv, PTL DEF JobInv

(* A step that changes the lease is one of its grants, renewals or         *)
(* releases.                                                               *)
LEMMA LeaseStep == JobInv /\ [JobNext]_jobVars => [Lock!LeaseNext]_<<lease, now>>
<1> SUFFICES ASSUME JobInv, [JobNext]_jobVars PROVE Lock!LeaseNext \/ UNCHANGED <<lease, now>>
  OBVIOUS
<1>1. /\ now \in Nat \ {0} /\ LOCK_LEASE_MS \in Nat \ {0}
      /\ lease \in [owner : Worker \cup {NoWorker}, fence : Nat, expires : Int]
  BY JobAssumption DEF JobInv, Types
<1>2. ASSUME NEW w \in Worker, lease' \in {lease, Released(w)}, now' = now
      PROVE  Lock!LeaseNext \/ UNCHANGED <<lease, now>>
  <2>1. now - 1 \in 0 .. now + LOCK_LEASE_MS /\ now - 1 < now
    BY <1>1
  <2>2. CASE lease' = lease
    BY <1>2, <2>2
  <2>3. CASE lease' # lease
    <3>1. lease.owner = w /\ lease' = [lease EXCEPT !.expires = now - 1]
      BY Zenon, <1>2, <2>3 DEF Released
    <3> QED
      BY <1>2, <2>1, <3>1 DEF Lock!LeaseNext, Lock!Release
  <2> QED
    BY <2>2, <2>3
<1>3. ASSUME NEW w \in Worker, try_acquire_lock_fenced(w)
      PROVE  Lock!LeaseNext \/ UNCHANGED <<lease, now>>
  <2>1. now + LOCK_LEASE_MS \in 0 .. now + LOCK_LEASE_MS
    BY <1>1
  <2> QED
    BY <1>3, <2>1 DEF try_acquire_lock_fenced, LockFree, clock, Lock!LeaseNext, Lock!Grant
<1>4. ASSUME NEW w \in Worker, renew_claim(w)
      PROVE  Lock!LeaseNext \/ UNCHANGED <<lease, now>>
  <2>1. /\ now + LOCK_LEASE_MS \in 0 .. now + LOCK_LEASE_MS
        /\ lease.expires <= now + LOCK_LEASE_MS
    BY <1>1, <1>4 DEF renew_claim
  <2> QED
    BY <1>4, <2>1 DEF renew_claim, Lock!HoldsFence, Lock!LeaseNext, Lock!Renew
<1>5. ASSUME NEW w \in Worker, release_claim(w) \/ Crash(w)
      PROVE  Lock!LeaseNext \/ UNCHANGED <<lease, now>>
  BY <1>2, <1>5 DEF release_claim, Crash
<1>6. ASSUME NEW w \in Worker,
             \/ WorkerStep(w) /\ ~try_acquire_lock_fenced(w) /\ ~release_claim(w)
             \/ BuildFails(w) \/ WriteFails(w) \/ ClaimFails(w) \/ AfterErrorFails(w)
             \/ PatchFailedFails(w)
      PROVE  UNCHANGED <<lease, now>>
  BY <1>6 DEF WorkerStep, CheckFence, PutRecord, ReadClaim, Claim, checkpoint_index_job, PutFile,
     WaitForSnapshot, ListForPatch, CommitReady, VerifyReady, succeed, AfterError, fail_or_retry,
     patch_index_failed, CommitFailed, BuildFails, WriteFails, ClaimFails, AfterErrorFails,
     PatchFailedFails, clock
<1>7. ASSUME NEW c \in Caller,
             \/ request_cancel(c) \/ retry(c) \/ resume_index_jobs(c) \/ CallerStep(c)
             \/ CallFails(c)
      PROVE  UNCHANGED <<lease, now>>
  BY <1>7 DEF request_cancel, retry, resume_index_jobs, recover_after_restart, CallerStep,
     PutCancelFile, DeleteCancelFile, WriteUnfenced, spawn_index_job, CallFails, clock
<1>8. CASE Tick
  BY <1>8 DEF Tick, Lock!LeaseNext
<1>9. CASE CommitShard \/ SiblingLists \/ SiblingCommits \/ UNCHANGED jobVars
  BY <1>9 DEF CommitShard, SiblingLists, SiblingCommits, jobVars, clock
<1> QED
  BY <1>3, <1>4, <1>5, <1>6, <1>7, <1>8, <1>9 DEF JobNext

(* The run lock, as the workers take, renew, give back and lose it, is the *)
(* abstract lease, for any number of workers: one that the object store's  *)
(* protocol implements.                                                    *)
THEOREM RunLockIsLease == JobSpec => LockIsLease
<1>1. JobInit => Lock!LeaseInit
  BY DEF JobInit
<1> QED
  BY <1>1, LeaseStep, SpecInv, PTL DEF JobSpec, LockIsLease, Lock!LeaseSpec
================================================================================
