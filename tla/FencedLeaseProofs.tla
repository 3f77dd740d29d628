--------------------------- MODULE FencedLeaseProofs ---------------------------
(***************************************************************************)
(* Proofs about FencedLease for every set of clients and processes, every  *)
(* lease length and every bound.                                           *)
(***************************************************************************)
EXTENDS FencedLease, TLAPS

(* What a conditional put may still do to the object.  If the ETag it      *)
(* names is the object's, then the lease its sender read is the one that   *)
(* is there now, and the decision taken on it is still right.              *)
StillRight(r) ==
  /\ r.data.owner \in Holder
  /\ r.data.expires <= now + LOCK_LEASE_MS
  /\ r.op = "acquire" =>
       /\ lease_is_expired(lease.data)
       /\ r.data.fence = lease.data.fence + 1
  /\ r.op # "acquire" =>
       /\ lease.data.owner = r.data.owner
       /\ lease.data.fence = r.data.fence
  /\ r.op = "renew" => lease.data.expires <= r.data.expires
  /\ r.op = "release" => r.data.expires < now /\ confirmed[r.data.owner] = 0

RequestInv(r) ==
  /\ r.etag <= lease.etag
  /\ Matches(r) => StillRight(r)

(* What a client's own state says while its operation is under way.        *)
CallInv(c) ==
  /\ token[c] = 0 => confirmed[c] = 0
  /\ token[c] <= lease.data.fence
  /\ hpc[c] # "idle" => (call[c].op = "acquire") <=> (token[c] = 0)
  /\ hpc[c] # "idle" /\ call[c].op = "release" => confirmed[c] = 0
  /\ hpc[c] \in {"get", "put"} => call[c].etag <= lease.etag
  /\ hpc[c] = "put" =>
       /\ RequestInv(call[c])
       /\ call[c].data.owner = c
       /\ call[c].op # "acquire" => call[c].data.fence = token[c]

LeaseInv ==
  /\ now > 0
  /\ lease.etag = 0 => lease.data = Absent
  /\ lease.data.expires <= now + LOCK_LEASE_MS
  /\ \A c \in Holder : CallInv(c)
  /\ \A r \in orphans : RequestInv(r)

LockInv == LockTypeOK /\ LeaseInv /\ ConfirmedLeaseIsCurrent /\ TokensDiffer

--------------------------------------------------------------------------------
(* A payload a client writes is a lock.                                    *)
LEMMA PayloadType ==
  ASSUME LockTypeOK, NEW c \in Holder, NEW number \in Nat
  PROVE  lease_payload(c, number) \in Lock
BY LeaseAssumption DEF LockTypeOK, lease_payload, Lock

(* Sending a put keeps the client's call a well-formed request.            *)
LEMMA SendPutType ==
  ASSUME LockTypeOK, NEW c \in Holder, NEW etag \in Nat, NEW data \in Lock,
         SendPut(c, etag, data)
  PROVE  /\ call' \in [Holder -> LockRequest]
         /\ hpc' \in [Holder -> {"idle", "head", "get", "put"}]
<1>1. [op |-> call[c].op, etag |-> etag, data |-> data] \in LockRequest
  BY DEF LockTypeOK, LockRequest
<1> QED
  BY <1>1 DEF LockTypeOK, SendPut, HolderTo

(* Returning clears the call.                                              *)
LEMMA LockReturnType ==
  ASSUME LockTypeOK, NEW c \in Holder, LockReturn(c)
  PROVE  /\ call' \in [Holder -> LockRequest]
         /\ hpc' \in [Holder -> {"idle", "head", "get", "put"}]
<1>1. NoCall \in LockRequest
  BY DEF NoCall, LockRequest, Ops, Lock, Absent
<1> QED
  BY <1>1 DEF LockTypeOK, LockReturn, HolderTo

(* Remembering and forgetting a lock keep the map of tokens well typed.    *)
LEMMA TokenMapType ==
  ASSUME LockTypeOK, NEW c \in Holder, NEW number \in Nat,
         forget_lock(c) \/ remember_lock(c, number)
  PROVE  lock_tokens' \in [Backend -> Nat]
BY DEF LockTypeOK, forget_lock, remember_lock

(* Every step keeps the types of the lock object, the clients' calls and   *)
(* the requests under way.                                                 *)
LEMMA LockTypeStep == LockTypeOK /\ LeaseInv /\ [LockNext]_lockVars => LockTypeOK'
<1> SUFFICES ASSUME LockTypeOK, LeaseInv, [LockNext]_lockVars PROVE LockTypeOK'
  OBVIOUS
<1> USE DEF LockTypeOK
<1>1. ASSUME NEW c \in Holder, NEW o \in Ops, BeginLock(c, o) PROVE LockTypeOK'
  <2>1. [NoCall EXCEPT !.op = o] \in LockRequest
    BY DEF NoCall, Absent, LockRequest, Lock
  <2> QED
    BY <1>1, <2>1 DEF BeginLock, HolderTo
<1>2. ASSUME NEW c \in Holder, ReleaseUnremembered(c) PROVE LockTypeOK'
  BY <1>2 DEF ReleaseUnremembered
<1>3. ASSUME NEW c \in Holder, HeadLock(c) PROVE LockTypeOK'
  <2>1. lease_payload(c, 1) \in Lock
    BY PayloadType
  <2>2. CASE lease.etag = 0
    BY <1>3, <2>1, <2>2, SendPutType DEF HeadLock
  <2>3. CASE lease.etag # 0
    BY <1>3, <2>3 DEF HeadLock, HolderTo, LockRequest
  <2> QED
    BY <2>2, <2>3
<1>4. ASSUME NEW c \in Holder, GetForAcquire(c) PROVE LockTypeOK'
  <2>1. call[c].etag \in Nat /\ next_fence \in Nat
    BY DEF LockRequest, Lock, next_fence
  <2>2. lease_payload(c, next_fence) \in Lock
    BY <2>1, PayloadType
  <2>3. CASE lease_is_expired(lease.data)
    BY <1>4, <2>1, <2>2, <2>3, SendPutType DEF GetForAcquire
  <2>4. CASE ~lease_is_expired(lease.data)
    BY <1>4, <2>4, LockReturnType DEF GetForAcquire
  <2> QED
    BY <2>3, <2>4
<1>5. ASSUME NEW c \in Holder, GetForRenew(c) PROVE LockTypeOK'
  <2>1. call[c].etag \in Nat
    BY DEF LockRequest
  <2>2. lease_payload(c, token[c]) \in Lock
    BY PayloadType
  <2>3. CASE SendPut(c, call[c].etag, lease_payload(c, token[c])) /\ UNCHANGED lock_tokens
    BY <1>5, <2>1, <2>2, <2>3, SendPutType DEF GetForRenew
  <2>4. CASE LockReturn(c) /\ forget_lock(c)
    BY <1>5, <2>4, LockReturnType, TokenMapType DEF GetForRenew
  <2> QED
    BY <1>5, <2>3, <2>4 DEF GetForRenew
<1>6. ASSUME NEW c \in Holder, GetForRelease(c) PROVE LockTypeOK'
  <2>1. call[c].etag \in Nat /\ released_payload(c) \in Lock
    BY DEF LeaseInv, LockRequest, Lock, released_payload
  <2>2. CASE /\ SendPut(c, call[c].etag, released_payload(c))
             /\ UNCHANGED <<lock_tokens, token>>
    BY <1>6, <2>1, <2>2, SendPutType DEF GetForRelease
  <2>3. CASE LockReturn(c) /\ forget_lock(c) /\ token' = [token EXCEPT ![c] = 0]
    BY <1>6, <2>3, LockReturnType, TokenMapType DEF GetForRelease
  <2> QED
    BY <1>6, <2>2, <2>3 DEF GetForRelease
<1>7. ASSUME NEW c \in Holder, PutAcknowledged(c) PROVE LockTypeOK'
  <2>1. /\ call[c].data \in Lock
        /\ call[c].data.fence \in Nat /\ call[c].data.expires \in Nat
    BY DEF LockRequest, Lock
  <2>2. lease' \in [etag : Nat, data : Lock]
    BY <1>7, <2>1 DEF PutAcknowledged, Lands
  <2>3. lock_tokens' \in [Backend -> Nat]
    BY <1>7, <2>1, TokenMapType DEF PutAcknowledged
  <2> QED
    BY <1>7, <2>1, <2>2, <2>3, LockReturnType DEF PutAcknowledged
<1>8. ASSUME NEW c \in Holder, PutPrecondition(c) PROVE LockTypeOK'
  <2>1. lock_tokens' \in [Backend -> Nat] /\ token' \in [Holder -> Nat]
    BY <1>8, TokenMapType DEF PutPrecondition, AfterPrecondition
  <2> QED
    BY <1>8, <2>1, LockReturnType DEF PutPrecondition
<1>9. ASSUME NEW c \in Holder, PutAbandoned(c) PROVE LockTypeOK'
  BY <1>9, LockReturnType DEF PutAbandoned
<1>10. ASSUME NEW r \in orphans, OrphanArrives(r) PROVE LockTypeOK'
  <2>1. r.data \in Lock
    BY DEF LockRequest
  <2>2. lease' \in [etag : Nat, data : Lock]
    BY <1>10, <2>1 DEF OrphanArrives, Lands
  <2> QED
    BY <1>10, <2>2 DEF OrphanArrives
<1>11. ASSUME NEW b \in Backend, Crash(b) PROVE LockTypeOK'
  <2>1. NoCall \in LockRequest
    BY DEF NoCall, LockRequest, Ops, Lock, Absent
  <2> QED
    BY <1>11, <2>1 DEF Crash
<1>12. CASE Tick
  BY <1>12 DEF Tick
<1>13. CASE UNCHANGED lockVars
  BY <1>13 DEF lockVars
<1> QED
  BY <1>1, <1>2, <1>3, <1>4, <1>5, <1>6, <1>7, <1>8, <1>9, <1>10, <1>11,
     <1>12, <1>13 DEF LockNext

--------------------------------------------------------------------------------
(* Two ways a step treats the object: it leaves it alone while the clock   *)
(* may advance, or it lands a put, which gives the object a fresh ETag.    *)
Quiet ==
  /\ lease' = lease
  /\ now' \in {now, now + 1}
  /\ \A c \in Holder : confirmed[c] = 0 => confirmed'[c] = 0

Written ==
  /\ lease'.etag = lease.etag + 1
  /\ lease'.data.fence >= lease.data.fence
  /\ now' = now

(* A request's fate under either kind of step: what was still right stays  *)
(* right while the object does not change, and once the object has a new   *)
(* ETag no earlier request can land.                                       *)
LEMMA RequestKept ==
  ASSUME LockTypeOK, LockTypeOK', NEW r \in LockRequest, RequestInv(r), Quiet \/ Written
  PROVE  RequestInv(r)'
<1>1. CASE Written
  BY <1>1 DEF Written, RequestInv, Matches, LockTypeOK, LockRequest
<1>2. CASE Quiet
  <2>1. ASSUME Matches(r)' PROVE StillRight(r)'
    <3>1. Matches(r) /\ StillRight(r)
      BY <1>2, <2>1 DEF Quiet, RequestInv, Matches
    <3>2. /\ lease'.data = lease.data
          /\ lease.data.expires \in Nat /\ r.data.expires \in Nat
          /\ now \in Nat /\ now' \in Nat /\ now' >= now
      BY <1>2 DEF Quiet, LockTypeOK, LockRequest, Lock
    <3> QED
      BY <1>2, <3>1, <3>2, LeaseAssumption DEF StillRight, lease_is_expired, Quiet
  <2> QED
    BY <1>2, <2>1 DEF Quiet, RequestInv
<1> QED
  BY <1>1, <1>2

(* A client that takes no part in a step keeps its part of the invariant.  *)
LEMMA BystanderKept ==
  ASSUME LockTypeOK, LockTypeOK', NEW d \in Holder, CallInv(d), Quiet \/ Written,
         hpc'[d] = hpc[d], call'[d] = call[d], token'[d] = token[d],
         confirmed'[d] = confirmed[d]
  PROVE  CallInv(d)'
<1>1. PICK r \in LockRequest : r = call[d]
  BY DEF LockTypeOK
<1>2. hpc[d] = "put" => RequestInv(r)'
  BY <1>1, RequestKept DEF CallInv
<1>3. lease.etag <= lease'.etag /\ lease.data.fence <= lease'.data.fence
  BY DEF Quiet, Written, LockTypeOK, Lock
<1>4. /\ lease.etag \in Nat /\ lease'.etag \in Nat /\ call[d].etag \in Nat
      /\ lease.data.fence \in Nat /\ lease'.data.fence \in Nat /\ token[d] \in Nat
  BY DEF LockTypeOK, LockRequest, Lock
<1>5. call'[d] = r
  BY <1>1
<1>6. hpc'[d] = "put" => RequestInv(call[d])'
  BY <1>2, <1>5
<1> QED
  BY <1>3, <1>4, <1>6 DEF CallInv

(* A client whose operation has returned keeps its part of the invariant,  *)
(* with the token it had or without one.                                   *)
LEMMA ReturnedKept ==
  ASSUME LockTypeOK, LockTypeOK', NEW c \in Holder, CallInv(c), Quiet,
         hpc'[c] = "idle",
         \/ token'[c] = token[c] /\ confirmed'[c] = confirmed[c]
         \/ token'[c] = 0 /\ confirmed'[c] = 0
  PROVE  CallInv(c)'
BY DEF CallInv, Quiet, LockTypeOK, Lock

(* Orphans of a step that makes none.                                      *)
LEMMA OrphansKept ==
  ASSUME LockTypeOK, LockTypeOK', \A r \in orphans : RequestInv(r),
         orphans' \subseteq orphans, Quiet \/ Written
  PROVE  \A r \in orphans' : RequestInv(r)'
<1> TAKE r \in orphans'
<1>1. r \in LockRequest /\ RequestInv(r)
  BY DEF LockTypeOK
<1> QED
  BY <1>1, RequestKept

(* The whole of LeaseInv, from its parts, for a step of one client c.      *)
LEMMA ClientStep ==
  ASSUME LockTypeOK, LockTypeOK', LeaseInv, NEW c \in Holder, CallInv(c)',
         Quiet \/ Written, now' > 0, lease'.etag = 0 => lease'.data = Absent,
         Written => lease'.data.expires <= now' + LOCK_LEASE_MS,
         \A r \in orphans' : RequestInv(r)',
         \A d \in Holder \ {c} :
           /\ hpc'[d] = hpc[d] /\ call'[d] = call[d]
           /\ token'[d] = token[d] /\ confirmed'[d] = confirmed[d]
  PROVE  LeaseInv'
<1>1. ASSUME NEW d \in Holder, d # c PROVE CallInv(d)'
  <2>1. CallInv(d)
    BY DEF LeaseInv
  <2> QED
    BY <1>1, <2>1, BystanderKept
<1>2. \A d \in Holder : CallInv(d)'
  BY <1>1
<1>3. lease'.data.expires <= now' + LOCK_LEASE_MS
  BY LeaseAssumption DEF Quiet, LeaseInv, LockTypeOK, Lock
<1> QED
  BY <1>2, <1>3 DEF LeaseInv

(* Every step keeps what the invariant says of calls, tokens and requests. *)
LEMMA LeaseInvStep == LockTypeOK /\ LockTypeOK' /\ LeaseInv /\ [LockNext]_lockVars => LeaseInv'
<1> SUFFICES ASSUME LockTypeOK, LockTypeOK', LeaseInv, [LockNext]_lockVars PROVE LeaseInv'
  OBVIOUS
<1>a. ASSUME NEW c \in Holder
      PROVE  /\ CallInv(c)
             /\ call[c].op \in Ops /\ call[c].etag \in Nat /\ call[c].data \in Lock
             /\ token[c] \in Nat /\ confirmed[c] \in Nat
  BY DEF LeaseInv, LockTypeOK, LockRequest
<1>b. /\ now \in Nat /\ now > 0 /\ lease.etag \in Nat /\ lease.data.fence \in Nat
      /\ lease.data.expires \in Nat /\ LOCK_LEASE_MS \in Nat
  BY LeaseAssumption DEF LeaseInv, LockTypeOK, Lock
<1>c. lease.etag = 0 => lease.data = Absent
  BY DEF LeaseInv
<1>f. lease.data.expires <= now + LOCK_LEASE_MS
  BY DEF LeaseInv
<1>g. Quiet => ~Written /\ lease'.data.expires <= now' + LOCK_LEASE_MS
  BY <1>b, <1>f DEF Quiet, Written
<1>d. UNCHANGED lease /\ now' = now
        /\ (\A d \in Holder : confirmed[d] = 0 => confirmed'[d] = 0) => Quiet
  BY DEF Quiet
<1>e. Quiet \/ Written => (orphans' \subseteq orphans => \A r \in orphans' : RequestInv(r)')
  BY OrphansKept DEF LeaseInv
<1>1. ASSUME NEW c \in Holder, NEW o \in Ops, BeginLock(c, o) PROVE LeaseInv'
  <2>1. Quiet /\ now' > 0
    BY <1>1, <1>b, <1>d DEF BeginLock, LockTypeOK
  <2>2. /\ hpc'[c] = "head" /\ call'[c].op = o /\ token'[c] = token[c]
        /\ confirmed'[c] = IF o = "release" THEN 0 ELSE confirmed[c]
    BY <1>1 DEF BeginLock, HolderTo, LockTypeOK, NoCall
  <2>3. CallInv(c)'
    BY <1>1, <1>a, <2>1, <2>2 DEF BeginLock, CallInv, Quiet
  <2> QED
    BY <1>1, <1>c, <1>e, <1>g, <2>1, <2>3, ClientStep DEF BeginLock, HolderTo, LockTypeOK, Quiet
<1>2. ASSUME NEW c \in Holder, ReleaseUnremembered(c) PROVE LeaseInv'
  <2>1. Quiet /\ now' > 0
    BY <1>2, <1>b, <1>d DEF ReleaseUnremembered, LockTypeOK
  <2>2. hpc'[c] = "idle" /\ token'[c] = 0 /\ confirmed'[c] = 0
    BY <1>2 DEF ReleaseUnremembered, LockTypeOK
  <2>3. CallInv(c)'
    BY <1>a, <2>1, <2>2, ReturnedKept
  <2> QED
    BY <1>2, <1>c, <1>e, <1>g, <2>1, <2>3, ClientStep DEF ReleaseUnremembered, LockTypeOK, Quiet
<1>3. ASSUME NEW c \in Holder, HeadLock(c) PROVE LeaseInv'
  <2>1. Quiet /\ now' > 0
    BY <1>3, <1>b, <1>d DEF HeadLock
  <2>2. token'[c] = token[c] /\ confirmed'[c] = confirmed[c] /\ lease' = lease
    BY <1>3 DEF HeadLock
  <2>3. CASE lease.etag = 0
    <3>1. /\ hpc'[c] = "put"
          /\ call'[c] = [op |-> call[c].op, etag |-> 0, data |-> lease_payload(c, 1)]
      BY <1>3, <2>3 DEF HeadLock, SendPut, HolderTo, LockTypeOK
    <3>2. call[c].op = "acquire"
      BY <1>3, <1>a, <1>c, <2>3 DEF CallInv, HeadLock, Absent
    <3>3. CallInv(c)'
      BY <1>a, <1>b, <1>c, <2>1, <2>2, <2>3, <3>1, <3>2
      DEF CallInv, RequestInv, Matches, StillRight, lease_is_expired, Absent,
          lease_payload, Quiet
    <3> QED
      BY <1>3, <1>c, <1>e, <1>g, <2>1, <2>3, <3>3, ClientStep
      DEF HeadLock, SendPut, HolderTo, LockTypeOK, Quiet
  <2>4. CASE lease.etag # 0
    <3>1. /\ hpc'[c] = "get" /\ call'[c].op = call[c].op
          /\ call'[c].etag = lease.etag
      BY <1>3, <2>4 DEF HeadLock, HolderTo, LockTypeOK, LockRequest
    <3>2. CallInv(c)'
      BY <1>3, <1>a, <1>b, <2>1, <2>2, <3>1 DEF CallInv, HeadLock
    <3> QED
      BY <1>3, <1>c, <1>e, <1>g, <2>1, <2>4, <3>2, ClientStep DEF HeadLock, HolderTo, LockTypeOK, Quiet
  <2> QED
    BY <2>3, <2>4
<1>4. ASSUME NEW c \in Holder, GetForAcquire(c) PROVE LeaseInv'
  <2>1. Quiet /\ now' > 0
    BY <1>4, <1>b, <1>d DEF GetForAcquire
  <2>2. confirmed'[c] = confirmed[c] /\ lease' = lease
    BY <1>4 DEF GetForAcquire
  <2>3. CASE lease_is_expired(lease.data)
    <3>1. /\ hpc'[c] = "put" /\ token'[c] = token[c]
          /\ call'[c] = [op |-> "acquire", etag |-> call[c].etag, data |-> lease_payload(c, next_fence)]
      BY <1>4, <2>3 DEF GetForAcquire, SendPut, HolderTo, LockTypeOK
    <3>2. CallInv(c)'
      BY <1>4, <1>a, <1>b, <2>1, <2>2, <2>3, <3>1
      DEF GetForAcquire, next_fence, CallInv, RequestInv, Matches, StillRight, lease_is_expired,
          lease_payload, Quiet
    <3> QED
      BY <1>4, <1>c, <1>e, <1>g, <2>1, <2>3, <3>2, ClientStep
      DEF GetForAcquire, SendPut, HolderTo, LockTypeOK, Quiet
  <2>4. CASE ~(lease_is_expired(lease.data))
    <3>1. /\ hpc'[c] = "idle"
          /\ \/ token'[c] = token[c]
             \/ token'[c] = 0 /\ call[c].op = "release"
      BY <1>4, <2>4 DEF GetForAcquire, LockReturn, HolderTo, LockTypeOK
    <3>2. CallInv(c)'
      BY <1>4, <1>a, <2>1, <2>2, <3>1, ReturnedKept DEF GetForAcquire, CallInv
    <3> QED
      BY <1>4, <1>c, <1>e, <1>g, <2>1, <2>4, <3>2, ClientStep
      DEF GetForAcquire, LockReturn, HolderTo, LockTypeOK, Quiet
  <2> QED
    BY <2>3, <2>4
<1>5. ASSUME NEW c \in Holder, GetForRenew(c) PROVE LeaseInv'
  <2>1. Quiet /\ now' > 0
    BY <1>5, <1>b, <1>d DEF GetForRenew
  <2>2. confirmed'[c] = confirmed[c] /\ lease' = lease
    BY <1>5 DEF GetForRenew
  <2>3. CASE lease.data.owner = c /\ lease.data.fence = token[c]
             /\ ~lease_is_expired(lease.data)
    <3>1. /\ hpc'[c] = "put" /\ token'[c] = token[c]
          /\ call'[c] = [op |-> "renew", etag |-> call[c].etag, data |-> lease_payload(c, token[c])]
      BY <1>5, <2>3 DEF GetForRenew, SendPut, HolderTo, LockTypeOK
    <3>2. CallInv(c)'
      BY <1>5, <1>a, <1>b, <1>f, <2>1, <2>2, <2>3, <3>1
      DEF GetForRenew, CallInv, RequestInv, Matches, StillRight, lease_is_expired,
          lease_payload, Quiet
    <3> QED
      BY <1>5, <1>c, <1>e, <1>g, <2>1, <2>3, <3>2, ClientStep
      DEF GetForRenew, SendPut, HolderTo, LockTypeOK, Quiet
  <2>4. CASE ~(lease.data.owner = c /\ lease.data.fence = token[c]
             /\ ~lease_is_expired(lease.data))
    <3>1. /\ hpc'[c] = "idle"
          /\ \/ token'[c] = token[c]
             \/ token'[c] = 0 /\ call[c].op = "release"
      BY ZenonT(40), <1>5, <2>4 DEF GetForRenew, LockReturn, HolderTo, LockTypeOK
    <3>2. CallInv(c)'
      BY <1>5, <1>a, <2>1, <2>2, <3>1, ReturnedKept DEF GetForRenew, CallInv
    <3> QED
      BY <1>5, <1>c, <1>e, <1>g, <2>1, <2>4, <3>2, ClientStep
      DEF GetForRenew, LockReturn, HolderTo, LockTypeOK, Quiet
  <2> QED
    BY <2>3, <2>4
<1>6. ASSUME NEW c \in Holder, GetForRelease(c) PROVE LeaseInv'
  <2>1. Quiet /\ now' > 0
    BY <1>6, <1>b, <1>d DEF GetForRelease
  <2>2. confirmed'[c] = confirmed[c] /\ lease' = lease
    BY <1>6 DEF GetForRelease
  <2>3. CASE lease.data.owner = c /\ lease.data.fence = token[c]
    <3>1. /\ hpc'[c] = "put" /\ token'[c] = token[c]
          /\ call'[c] = [op |-> "release", etag |-> call[c].etag, data |-> released_payload(c)]
      BY <1>6, <2>3 DEF GetForRelease, SendPut, HolderTo, LockTypeOK
    <3>2. CallInv(c)'
      BY <1>6, <1>a, <1>b, <2>1, <2>2, <2>3, <3>1, SMTT(30)
      DEF GetForRelease, released_payload, CallInv, RequestInv, Matches, StillRight, lease_is_expired,
          lease_payload, Quiet
    <3> QED
      BY <1>6, <1>c, <1>e, <1>g, <2>1, <2>3, <3>2, ClientStep
      DEF GetForRelease, SendPut, HolderTo, LockTypeOK, Quiet
  <2>4. CASE ~(lease.data.owner = c /\ lease.data.fence = token[c])
    <3>1. /\ hpc'[c] = "idle"
          /\ \/ token'[c] = token[c]
             \/ token'[c] = 0 /\ call[c].op = "release"
      BY ZenonT(40), <1>6, <2>4 DEF GetForRelease, LockReturn, HolderTo, LockTypeOK
    <3>2. CallInv(c)'
      BY <1>6, <1>a, <2>1, <2>2, <3>1, ReturnedKept DEF GetForRelease, CallInv
    <3> QED
      BY <1>6, <1>c, <1>e, <1>g, <2>1, <2>4, <3>2, ClientStep
      DEF GetForRelease, LockReturn, HolderTo, LockTypeOK, Quiet
  <2> QED
    BY <2>3, <2>4
<1>7. ASSUME NEW c \in Holder, PutAcknowledged(c) PROVE LeaseInv'
  <2>1. StillRight(call[c]) /\ call[c].data.owner = c
    BY <1>7, <1>a DEF PutAcknowledged, CallInv, RequestInv
  <2>2. lease' = [etag |-> lease.etag + 1, data |-> call[c].data]
    BY <1>7 DEF PutAcknowledged, Lands
  <2>3. call[c].data.fence \in Nat /\ lease.data.fence <= call[c].data.fence
    BY <1>a, <1>b, <2>1 DEF StillRight, Lock, Ops
  <2>4. /\ Written /\ now' > 0 /\ lease'.etag # 0
        /\ lease'.data.expires <= now' + LOCK_LEASE_MS
    BY <1>7, <1>b, <2>1, <2>2, <2>3 DEF Written, PutAcknowledged, StillRight
  <2>5. /\ hpc'[c] = "idle"
        /\ \/ token'[c] = 0 /\ call[c].op = "release" /\ confirmed'[c] = confirmed[c]
           \/ token'[c] = call[c].data.fence
    BY <1>7 DEF PutAcknowledged, LockReturn, HolderTo, LockTypeOK
  <2>6. call[c].op = "release" => confirmed[c] = 0
    BY <1>7, <1>a DEF PutAcknowledged, CallInv
  <2>7. call[c].data.fence # 0
    BY <1>7, <1>a, <1>b, <2>1 DEF PutAcknowledged, CallInv, StillRight
  <2>8. CallInv(c)'
    BY <2>2, <2>3, <2>5, <2>6, <2>7 DEF CallInv
  <2> QED
    BY <1>7, <1>e, <2>4, <2>8, ClientStep
    DEF PutAcknowledged, LockReturn, HolderTo, LockTypeOK
<1>8. ASSUME NEW c \in Holder, PutPrecondition(c) PROVE LeaseInv'
  <2>1. Quiet /\ now' > 0
    BY <1>8, <1>b, <1>d DEF PutPrecondition
  <2>2. /\ hpc'[c] = "idle" /\ confirmed'[c] = confirmed[c]
        /\ \/ token'[c] = token[c]
           \/ token'[c] = 0 /\ call[c].op = "release"
    BY <1>8 DEF PutPrecondition, AfterPrecondition, LockReturn, HolderTo, LockTypeOK
  <2>3. CallInv(c)'
    BY <1>8, <1>a, <2>1, <2>2, ReturnedKept DEF PutPrecondition, CallInv
  <2> QED
    BY <1>8, <1>c, <1>e, <1>g, <2>1, <2>3, ClientStep
    DEF PutPrecondition, AfterPrecondition, LockReturn, HolderTo, LockTypeOK, Quiet
<1>9. ASSUME NEW c \in Holder, PutAbandoned(c) PROVE LeaseInv'
  <2>1. Quiet /\ now' > 0
    BY <1>9, <1>b, <1>d DEF PutAbandoned
  <2>2. /\ hpc'[c] = "idle" /\ confirmed'[c] = confirmed[c]
        /\ \/ token'[c] = token[c]
           \/ token'[c] = 0 /\ call[c].op = "release"
    BY Zenon, <1>9 DEF PutAbandoned, LockReturn, HolderTo, LockTypeOK
  <2>3. CallInv(c)'
    BY <1>9, <1>a, <2>1, <2>2, ReturnedKept DEF PutAbandoned, CallInv
  <2>4. ASSUME NEW r \in orphans' PROVE RequestInv(r)'
    <3>1. r \in LockRequest /\ RequestInv(r)
      BY <1>9, <1>a, <2>4 DEF PutAbandoned, CallInv, LeaseInv, LockTypeOK
    <3> QED
      BY <2>1, <3>1, RequestKept
  <2> QED
    BY <1>9, <1>c, <1>g, <2>1, <2>3, <2>4, ClientStep
    DEF PutAbandoned, LockReturn, HolderTo, LockTypeOK, Quiet
<1>10. ASSUME NEW r \in orphans, OrphanArrives(r) PROVE LeaseInv'
  <2>1. RequestInv(r) /\ r \in LockRequest
    BY DEF LeaseInv, LockTypeOK
  <2>2. \/ Quiet
        \/ /\ Written /\ lease'.etag # 0
           /\ lease'.data.expires <= now' + LOCK_LEASE_MS
    <3>1. CASE Matches(r)
      <4>1. lease' = [etag |-> lease.etag + 1, data |-> r.data] /\ now' = now
        BY <1>10, <3>1 DEF OrphanArrives, Lands
      <4>2. r.data.fence >= lease.data.fence
        BY <1>b, <2>1, <3>1 DEF RequestInv, StillRight, LockRequest, Ops
      <4>3. r.data.expires <= now + LOCK_LEASE_MS
        BY <2>1, <3>1 DEF RequestInv, StillRight
      <4> QED
        BY <1>b, <4>1, <4>2, <4>3 DEF Written
    <3>2. CASE ~Matches(r)
      BY <1>10, <1>d, <3>2 DEF OrphanArrives
    <3> QED
      BY <3>1, <3>2
  <2>3. /\ now' > 0 /\ (lease'.etag = 0 => lease'.data = Absent)
        /\ lease'.data.expires <= now' + LOCK_LEASE_MS
    BY <1>10, <1>b, <1>c, <1>g, <2>2 DEF OrphanArrives, Quiet
  <2>4. \A d \in Holder : CallInv(d)'
    BY <1>10, <1>a, <2>2, BystanderKept DEF OrphanArrives
  <2>5. \A q \in orphans' : RequestInv(q)'
    BY <1>10, <1>e, <2>2 DEF OrphanArrives
  <2> QED
    BY <2>3, <2>4, <2>5 DEF LeaseInv
<1>11. ASSUME NEW b \in Backend, Crash(b) PROVE LeaseInv'
  <2>1. Quiet /\ now' > 0
    BY <1>11, <1>b, <1>d DEF Crash
  <2>2. ASSUME NEW d \in Holder PROVE CallInv(d)'
    <3>1. CASE backendOf[d] = b
      <4>1. hpc'[d] = "idle" /\ token'[d] = 0 /\ confirmed'[d] = 0
        BY <1>11, <3>1 DEF Crash
      <4> QED
        BY <1>a, <2>1, <4>1, ReturnedKept
    <3>2. CASE backendOf[d] # b
      <4>1. /\ hpc'[d] = hpc[d] /\ call'[d] = call[d]
            /\ token'[d] = token[d] /\ confirmed'[d] = confirmed[d]
        BY <1>11, <3>2 DEF Crash
      <4> QED
        BY <1>a, <2>1, <4>1, BystanderKept
    <3> QED
      BY <3>1, <3>2
  <2>3. ASSUME NEW r \in orphans' PROVE RequestInv(r)'
    <3>1. r \in LockRequest /\ RequestInv(r)
      BY <1>11, <1>a, <2>3 DEF Crash, CallInv, LeaseInv, LockTypeOK
    <3> QED
      BY <2>1, <3>1, RequestKept
  <2> QED
    BY <1>c, <1>g, <2>1, <2>2, <2>3 DEF LeaseInv, Quiet
<1>12. CASE Tick
  <2>1. Quiet /\ now' > 0
    BY <1>12, <1>b DEF Tick, Quiet
  <2>2. \A d \in Holder : CallInv(d)'
    BY Zenon, <1>12, <1>a, <2>1, BystanderKept DEF Tick
  <2> QED
    BY Zenon, <1>12, <1>c, <1>e, <1>g, <2>1, <2>2 DEF LeaseInv, Quiet, Tick
<1>13. CASE UNCHANGED lockVars
  <2>1. Quiet /\ now' > 0
    BY Zenon, <1>13, <1>b, <1>d DEF lockVars
  <2>2. \A d \in Holder : CallInv(d)'
    BY Zenon, <1>13, <1>a, <2>1, BystanderKept DEF lockVars
  <2> QED
    BY <1>13, <1>c, <1>e, <1>g, <2>1, <2>2 DEF LeaseInv, Quiet, lockVars
<1> QED
  BY <1>1, <1>2, <1>3, <1>4, <1>5, <1>6, <1>7, <1>8, <1>9, <1>10, <1>11,
     <1>12, <1>13 DEF LockNext

--------------------------------------------------------------------------------
(* What a step does to the object, to the tokens and to what clients       *)
(* believe: a put of client c lands, with c learning of it or not, or the  *)
(* object stays and clients can only lose a token or a belief.             *)
LandsKnown(c) ==
  /\ hpc[c] = "put" /\ StillRight(call[c])
  /\ lease'.data = call[c].data /\ now' = now
  /\ \A d \in Holder \ {c} : token'[d] = token[d] /\ confirmed'[d] = confirmed[d]
  /\ \/ /\ call[c].op # "release"
        /\ token'[c] = call[c].data.fence /\ confirmed'[c] = call[c].data.expires
     \/ call[c].op = "release" /\ token'[c] = 0 /\ confirmed'[c] = confirmed[c]

LandsUnknown(r) ==
  /\ StillRight(r)
  /\ lease'.data = r.data /\ now' = now
  /\ UNCHANGED <<token, confirmed>>

NothingLands ==
  /\ lease' = lease /\ now' \in {now, now + 1}
  /\ \A c \in Holder :
       \/ token'[c] = token[c] /\ confirmed'[c] = confirmed[c]
       \/ confirmed'[c] = 0 /\ (token'[c] = 0 \/ token'[c] = token[c])

(* Every step is of one of these three kinds.                              *)
LEMMA StepKinds ==
  LockTypeOK /\ LeaseInv /\ [LockNext]_lockVars =>
    \/ \E c \in Holder : LandsKnown(c)
    \/ \E r \in orphans : LandsUnknown(r)
    \/ NothingLands
<1> SUFFICES ASSUME LockTypeOK, LeaseInv, [LockNext]_lockVars
             PROVE  \/ \E c \in Holder : LandsKnown(c)
                    \/ \E r \in orphans : LandsUnknown(r)
                    \/ NothingLands
  OBVIOUS
<1>a. ASSUME NEW c \in Holder, hpc[c] # "idle", call[c].op = "release"
      PROVE  confirmed[c] = 0
  BY <1>a DEF LeaseInv, CallInv
<1> USE DEF LockTypeOK, NothingLands
<1>1. ASSUME NEW c \in Holder, NEW o \in Ops, BeginLock(c, o) PROVE NothingLands
  BY <1>1 DEF BeginLock
<1>2. ASSUME NEW c \in Holder, ReleaseUnremembered(c) PROVE NothingLands
  BY <1>2 DEF ReleaseUnremembered
<1>3. ASSUME NEW c \in Holder, HeadLock(c) PROVE NothingLands
  BY <1>3 DEF HeadLock
<1>4. ASSUME NEW c \in Holder, GetForAcquire(c) PROVE NothingLands
  BY <1>4 DEF GetForAcquire
<1>5. ASSUME NEW c \in Holder, GetForRenew(c) PROVE NothingLands
  BY <1>5 DEF GetForRenew
<1>6. ASSUME NEW c \in Holder, GetForRelease(c) PROVE NothingLands
  BY Zenon, <1>6, <1>a DEF GetForRelease
<1>7. ASSUME NEW c \in Holder, PutAcknowledged(c) PROVE LandsKnown(c)
  <2>1. StillRight(call[c])
    BY <1>7 DEF PutAcknowledged, LeaseInv, CallInv, RequestInv
  <2> QED
    BY <1>7, <2>1 DEF PutAcknowledged, Lands, LandsKnown
<1>8. ASSUME NEW c \in Holder, PutPrecondition(c) PROVE NothingLands
  BY <1>8, <1>a DEF PutPrecondition, AfterPrecondition
<1>9. ASSUME NEW c \in Holder, PutAbandoned(c) PROVE NothingLands
  BY <1>9, <1>a DEF PutAbandoned
<1>10. ASSUME NEW r \in orphans, OrphanArrives(r)
       PROVE  LandsUnknown(r) \/ NothingLands
  BY <1>10 DEF OrphanArrives, Lands, LandsUnknown, LeaseInv, RequestInv
<1>11. ASSUME NEW b \in Backend, Crash(b) PROVE NothingLands
  BY <1>11 DEF Crash
<1>12. CASE Tick
  BY <1>12 DEF Tick
<1>13. CASE UNCHANGED lockVars
  BY <1>13 DEF lockVars
<1> QED
  BY Zenon, <1>1, <1>2, <1>3, <1>4, <1>5, <1>6, <1>7, <1>8, <1>9, <1>10, <1>11,
     <1>12, <1>13 DEF LockNext

(* No step takes an unexpired, confirmed lease from its holder.            *)
LEMMA ConfirmedStep ==
  LockInv /\ LockTypeOK' /\ [LockNext]_lockVars => ConfirmedLeaseIsCurrent'
<1> SUFFICES ASSUME LockInv, LockTypeOK', [LockNext]_lockVars, NEW d \in Holder, confirmed'[d] > now'
             PROVE  /\ lease'.data.owner = d
                    /\ lease'.data.fence = token'[d]
                    /\ lease'.data.expires >= confirmed'[d]
  BY DEF ConfirmedLeaseIsCurrent
<1>1. /\ confirmed[d] > now =>
           /\ lease.data.owner = d /\ lease.data.fence = token[d]
           /\ lease.data.expires >= confirmed[d]
      /\ LockTypeOK /\ LeaseInv
  BY DEF LockInv, ConfirmedLeaseIsCurrent
<1>2. /\ now \in Nat /\ now' \in Nat /\ confirmed[d] \in Nat /\ confirmed'[d] \in Nat
      /\ lease.data.expires \in Nat /\ lease'.data.expires \in Nat
  BY <1>1 DEF LockTypeOK, Lock
<1>3. ASSUME NEW c \in Holder, LandsKnown(c)
      PROVE  /\ lease'.data.owner = d
             /\ lease'.data.fence = token'[d]
             /\ lease'.data.expires >= confirmed'[d]
  <2>1. /\ call[c].data.owner = c /\ call[c].op \in Ops
        /\ call[c].op # "acquire" => call[c].data.fence = token[c]
        /\ call[c].op = "release" => confirmed[c] = 0
    BY ZenonT(40), <1>1, <1>3 DEF LandsKnown, LeaseInv, CallInv, LockTypeOK, LockRequest
  <2>2. CASE d = c
    BY <1>2, <1>3, <2>1, <2>2, SMTT(30) DEF LandsKnown
  <2>3. CASE d # c
    BY <1>1, <1>2, <1>3, <2>1, <2>3, SMTT(30) DEF LandsKnown, StillRight, lease_is_expired, Ops
  <2> QED
    BY <2>2, <2>3
<1>4. ASSUME NEW r \in orphans, LandsUnknown(r)
      PROVE  /\ lease'.data.owner = d
             /\ lease'.data.fence = token'[d]
             /\ lease'.data.expires >= confirmed'[d]
  <2>1. r \in LockRequest
    BY <1>1 DEF LockTypeOK
  <2>2. r.data.expires \in Nat /\ r.op \in Ops
    BY <2>1 DEF LockRequest, Lock
  <2> QED
    BY <1>1, <1>2, <1>4, <2>2 DEF LandsUnknown, StillRight, lease_is_expired, Ops
<1>5. CASE NothingLands
  BY <1>1, <1>2, <1>5 DEF NothingLands
<1> QED
  BY <1>1, <1>3, <1>4, <1>5, StepKinds

(* No step gives a client a fencing token that another client has.         *)
LEMMA TokensStep == LockInv /\ LockTypeOK' /\ [LockNext]_lockVars => TokensDiffer'
<1> SUFFICES ASSUME LockInv, LockTypeOK', [LockNext]_lockVars PROVE TokensDiffer'
  OBVIOUS
<1>1. LockTypeOK /\ LeaseInv /\ TokensDiffer
  BY DEF LockInv
<1>2. \A d \in Holder : token[d] \in Nat /\ token[d] <= lease.data.fence
  BY <1>1 DEF LeaseInv, CallInv, LockTypeOK
<1>3. ASSUME NEW c \in Holder, LandsKnown(c) PROVE TokensDiffer'
  <2>1. call[c].op \in Ops /\ call[c].data.fence \in Nat /\ lease.data.fence \in Nat
    BY Zenon, <1>1 DEF LockTypeOK, LockRequest, Lock
  <2>2. \/ token'[c] = 0
        \/ token'[c] = token[c]
        \/ token'[c] = lease.data.fence + 1
    BY <1>1, <1>3, <2>1 DEF LandsKnown, LeaseInv, CallInv, StillRight
  <2>3. \A d \in Holder \ {c} : token'[d] = token[d]
    BY <1>3 DEF LandsKnown
  <2> QED
    BY <1>1, <1>2, <2>1, <2>2, <2>3 DEF TokensDiffer
<1>4. ASSUME NEW r \in orphans, LandsUnknown(r) PROVE TokensDiffer'
  BY <1>1, <1>4 DEF LandsUnknown, TokensDiffer
<1>5. CASE NothingLands
  BY <1>1, <1>5 DEF NothingLands, TokensDiffer
<1> QED
  BY <1>1, <1>3, <1>4, <1>5, StepKinds

(* The inductive invariant of the lease protocol.                          *)
THEOREM LeaseInductive == LockSpec => []LockInv
<1>1. LockInit => LockInv
  BY LeaseAssumption
  DEF LockInit, LockInv, LockTypeOK, LeaseInv, CallInv, ConfirmedLeaseIsCurrent, TokensDiffer,
      Lock, LockRequest, Ops, NoCall, Absent
<1>2. LockInv /\ [LockNext]_lockVars => LockInv'
  <2> SUFFICES ASSUME LockInv, [LockNext]_lockVars PROVE LockInv'
    OBVIOUS
  <2>1. LockTypeOK /\ LeaseInv
    BY DEF LockInv
  <2>2. LockTypeOK'
    BY <2>1, LockTypeStep
  <2>3. LeaseInv'
    BY <2>1, <2>2, LeaseInvStep
  <2> QED
    BY <2>2, <2>3, ConfirmedStep, TokensStep DEF LockInv
<1> QED
  BY <1>1, <1>2, PTL DEF LockSpec

(* Type correctness of the protocol's state.                               *)
THEOREM LeaseTypes == LockSpec => []LockTypeOK
<1>1. LockInv => LockTypeOK
  BY DEF LockInv
<1> QED
  BY <1>1, LeaseInductive, PTL

(* For any number of clients, processes and lost requests, an acknowledged *)
(* and unexpired lease is never taken from its holder (the conditional     *)
(* puts of try_acquire, renew and release_lock_fenced).                    *)
THEOREM LeaseExclusion == LockSpec => []ConfirmedLeaseIsCurrent
<1>1. LockInv => ConfirmedLeaseIsCurrent
  BY DEF LockInv
<1> QED
  BY <1>1, LeaseInductive, PTL

(* No two clients ever hold the same fencing token.                        *)
THEOREM FencingTokensDiffer == LockSpec => []TokensDiffer
<1>1. LockInv => TokensDiffer
  BY DEF LockInv
<1> QED
  BY <1>1, LeaseInductive, PTL

(* The HEAD, GET and conditional PUT protocol implements the atomic lease: *)
(* a put lands only where the abstract lease may be granted, renewed or    *)
(* released, and every other step leaves the lease as it is.               *)
THEOREM ProtocolImplementsLease == LockSpec => ImplementsLease
<1>1. LockInit => AbstractLease!LeaseInit
  BY DEF LockInit, AbstractLease!LeaseInit, AbstractLease!NoLease, Absent
<1>2. LockInv /\ [LockNext]_lockVars => [AbstractLease!LeaseNext]_<<lease.data, now>>
  <2> SUFFICES ASSUME LockInv, [LockNext]_lockVars
               PROVE  [AbstractLease!LeaseNext]_<<lease.data, now>>
    OBVIOUS
  <2>1. LockTypeOK /\ LeaseInv
    BY DEF LockInv
  <2>2. /\ lease.data \in Lock /\ now \in Nat /\ LOCK_LEASE_MS \in Nat
        /\ lease.data.expires \in Nat /\ lease.data.fence \in Nat
    BY <2>1, LeaseAssumption DEF LockTypeOK, Lock
  <2>3. ASSUME NEW r \in LockRequest, StillRight(r), lease'.data = r.data, now' = now
        PROVE  AbstractLease!LeaseNext
    <3>1. /\ r.data \in Lock /\ r.op \in Ops /\ r.data.expires \in Nat
          /\ r.data.owner \in Holder /\ r.data.expires \in 0 .. now + LOCK_LEASE_MS
      BY <2>2, <2>3 DEF StillRight, LockRequest, Lock
    <3>2. r.data = [owner |-> r.data.owner, fence |-> r.data.fence,
                    expires |-> r.data.expires]
      BY <3>1 DEF Lock
    <3>3. CASE r.op = "acquire"
      BY <2>3, <3>1, <3>2, <3>3
      DEF StillRight, lease_is_expired, AbstractLease!LeaseNext, AbstractLease!Grant, AbstractLease!Expired
    <3>4. CASE r.op # "acquire"
      <4>1. r.data = [lease.data EXCEPT !.expires = r.data.expires]
        BY <2>2, <2>3, <3>2, <3>4 DEF StillRight, Lock
      <4>2. AbstractLease!Renew(r.data.owner, r.data.expires)
              \/ AbstractLease!Release(r.data.owner, r.data.expires)
        BY <2>3, <3>1, <3>4, <4>1 DEF StillRight, AbstractLease!Renew, AbstractLease!Release, Ops
      <4> QED
        BY <3>1, <4>2 DEF AbstractLease!LeaseNext
    <3> QED
      BY <3>3, <3>4
  <2>4. ASSUME NEW c \in Holder, LandsKnown(c) PROVE AbstractLease!LeaseNext
    BY <2>1, <2>3, <2>4 DEF LandsKnown, LockTypeOK
  <2>5. ASSUME NEW r \in orphans, LandsUnknown(r) PROVE AbstractLease!LeaseNext
    BY <2>1, <2>3, <2>5 DEF LandsUnknown, LockTypeOK
  <2>6. CASE NothingLands
    BY <2>6 DEF NothingLands, AbstractLease!LeaseNext, AbstractLease!Tick
  <2> QED
    BY <2>1, <2>4, <2>5, <2>6, StepKinds
<1> QED
  BY <1>1, <1>2, LeaseInductive, PTL DEF LockSpec, ImplementsLease, AbstractLease!LeaseSpec

(* A step of another process leaves the record of a client that is alone   *)
(* in its own.                                                             *)
LEMMA OthersKeepRecord ==
  ASSUME LockTypeOK, NEW d \in Holder, Alone(d), NEW c \in Holder \ {d}, NEW f \in Nat,
         lock_tokens' = [lock_tokens EXCEPT ![backendOf[c]] = f]
  PROVE  lock_tokens'[backendOf[d]] = lock_tokens[backendOf[d]]
BY ZenonT(40), LeaseAssumption DEF LockTypeOK, Alone

(* No step makes a process forget the lease that its only client still has.*)
LEMMA RecordStep ==
  LockInv /\ HolderKeepsRecord /\ [LockNext]_lockVars => HolderKeepsRecord'
<1> SUFFICES ASSUME LockInv, HolderKeepsRecord, [LockNext]_lockVars, NEW d \in Holder, Alone(d),
                    confirmed'[d] > now'
             PROVE  lock_tokens'[backendOf[d]] = token'[d]
  BY DEF HolderKeepsRecord, Remembers, Alone
<1>1. LockTypeOK /\ LeaseInv /\ backendOf \in [Holder -> Backend]
  BY LeaseAssumption DEF LockInv
<1>2. confirmed[d] > now => lock_tokens[backendOf[d]] = token[d]
  BY DEF HolderKeepsRecord, Remembers
<1>3. /\ now \in Nat /\ now > 0 /\ confirmed[d] \in Nat
      /\ hpc[d] # "idle" /\ call[d].op = "release" => confirmed[d] = 0
  BY <1>1 DEF LockTypeOK, LeaseInv, CallInv
<1>4. confirmed[d] > now =>
        lease.data.owner = d /\ lease.data.fence = token[d] /\ ~lease_is_expired(lease.data)
  <2>1. lease.data.expires \in Nat
    BY <1>1 DEF LockTypeOK, Lock
  <2> QED
    BY <1>3, <2>1 DEF LockInv, ConfirmedLeaseIsCurrent, lease_is_expired
<1>5. ASSUME lock_tokens' = lock_tokens, now' = now,
             \/ token'[d] = token[d] /\ confirmed'[d] = confirmed[d]
             \/ confirmed'[d] = 0
      PROVE  lock_tokens'[backendOf[d]] = token'[d]
  BY <1>2, <1>3, <1>5
<1>6. ASSUME NEW c \in Holder, NEW o \in Ops, BeginLock(c, o)
      PROVE  lock_tokens'[backendOf[d]] = token'[d]
  BY <1>1, <1>5, <1>6 DEF BeginLock, LockTypeOK
<1>7. ASSUME NEW c \in Holder, ReleaseUnremembered(c)
      PROVE  lock_tokens'[backendOf[d]] = token'[d]
  BY <1>1, <1>5, <1>7 DEF ReleaseUnremembered, LockTypeOK
<1>8. ASSUME NEW c \in Holder, HeadLock(c) \/ GetForAcquire(c)
      PROVE  lock_tokens'[backendOf[d]] = token'[d]
  BY <1>5, <1>8 DEF HeadLock, GetForAcquire
<1>9. ASSUME NEW c \in Holder, GetForRenew(c)
      PROVE  lock_tokens'[backendOf[d]] = token'[d]
  <2>1. UNCHANGED <<now, token, confirmed>>
    BY <1>9 DEF GetForRenew
  <2>2. CASE UNCHANGED lock_tokens
    BY <1>5, <2>1, <2>2
  <2>3. CASE c # d /\ forget_lock(c)
    BY Zenon, <1>1, <1>2, <2>1, <2>3, OthersKeepRecord DEF forget_lock
  <2>4. CASE c = d
    BY Zenon, <1>4, <1>9, <2>1, <2>2, <2>4 DEF GetForRenew
  <2> QED
    BY <1>9, <2>2, <2>3, <2>4 DEF GetForRenew
<1>10. ASSUME NEW c \in Holder, GetForRelease(c) \/ PutPrecondition(c)
       PROVE  lock_tokens'[backendOf[d]] = token'[d]
  <2>1. UNCHANGED <<now, confirmed>> /\ hpc[c] # "idle"
    BY <1>10 DEF GetForRelease, PutPrecondition
  <2>2. CASE UNCHANGED <<lock_tokens, token>>
    BY <1>5, <2>1, <2>2
  <2>3. CASE call[c].op = "release" /\ forget_lock(c) /\ token' = [token EXCEPT ![c] = 0]
    <3>1. c # d
      BY <1>3, <2>1, <2>3
    <3> QED
      BY ZenonT(40), <1>1, <1>2, <2>1, <2>3, <3>1, OthersKeepRecord DEF forget_lock, LockTypeOK
  <2> QED
    BY <1>10, <2>2, <2>3 DEF GetForRelease, PutPrecondition, AfterPrecondition
<1>11. ASSUME NEW c \in Holder, PutAcknowledged(c)
       PROVE  lock_tokens'[backendOf[d]] = token'[d]
  <2>1. now' = now /\ hpc[c] # "idle" /\ call[c].data.fence \in Nat
    BY Zenon, <1>1, <1>11 DEF PutAcknowledged, LockTypeOK, LockRequest, Lock
  <2>2. CASE c # d
    <3>1. token'[d] = token[d] /\ confirmed'[d] = confirmed[d]
      BY <1>1, <1>11, <2>2 DEF PutAcknowledged, LockTypeOK
    <3>2. lock_tokens'[backendOf[d]] = lock_tokens[backendOf[d]]
      BY ZenonT(40), <1>1, <1>11, <2>1, <2>2, OthersKeepRecord
      DEF PutAcknowledged, forget_lock, remember_lock
    <3> QED
      BY <1>2, <2>1, <3>1, <3>2
  <2>3. CASE c = d
    BY <1>1, <1>3, <1>11, <2>1, <2>3 DEF PutAcknowledged, remember_lock, LockTypeOK
  <2> QED
    BY <2>2, <2>3
<1>12. ASSUME NEW c \in Holder, PutAbandoned(c)
       PROVE  lock_tokens'[backendOf[d]] = token'[d]
  <2>1. UNCHANGED <<lock_tokens, now, confirmed>>
    BY <1>12 DEF PutAbandoned
  <2>2. token'[d] = token[d]
    BY <1>1, <1>3, <1>12, <2>1 DEF PutAbandoned, LockTypeOK
  <2> QED
    BY <1>5, <2>1, <2>2
<1>13. ASSUME NEW r \in orphans, OrphanArrives(r)
       PROVE  lock_tokens'[backendOf[d]] = token'[d]
  BY <1>5, <1>13 DEF OrphanArrives
<1>14. ASSUME NEW b \in Backend, Crash(b) PROVE lock_tokens'[backendOf[d]] = token'[d]
  <2>1. backendOf[d] # b
    BY <1>3, <1>14 DEF Crash
  <2> QED
    BY <1>1, <1>2, <1>14, <2>1 DEF Crash, LockTypeOK
<1>15. CASE Tick
  BY <1>2, <1>3, <1>15 DEF Tick
<1>16. CASE UNCHANGED lockVars
  BY <1>5, <1>16 DEF lockVars
<1> QED
  BY <1>6, <1>7, <1>8, <1>9, <1>10, <1>11, <1>12, <1>13, <1>14, <1>15, <1>16 DEF LockNext

(* A process keeps the token that renew, check and release_lock_fenced     *)
(* look up for as long as the confirmed lease of its only client lasts.    *)
THEOREM HoldersKeepRecords == LockSpec => []HolderKeepsRecord
<1>1. LockInit => HolderKeepsRecord
  BY DEF LockInit, HolderKeepsRecord
<1> QED
  BY <1>1, RecordStep, LeaseInductive, PTL DEF LockSpec
================================================================================
