------------------------------ MODULE FencedLease ------------------------------
(***************************************************************************)
(* The lease that ObjectStoreBackend keeps in one object per lock path     *)
(* (ailake-store/src/object_store_backend.rs): every operation is a HEAD,  *)
(* a GET, and a PUT conditional on the ETag that the HEAD returned, with   *)
(* other processes free to act between them.                               *)
(*                                                                         *)
(*   lease        the lock object; etag = 0 while it does not exist        *)
(*   now          the wall clock, shared by all hosts                      *)
(*   lock_tokens  per backend, the fencing token remembered for the path   *)
(*                (0 = none); all tasks of a process share it              *)
(*   hpc, call    per client (a task): where its operation is, and which   *)
(*                one it is with the ETag and the payload it carries       *)
(*   token        the fencing token the client was given                   *)
(*   confirmed    the expiry of the client's last acknowledged write: what *)
(*                it believes about its own lease (history)                *)
(*   orphans      conditional puts whose caller has gone: aborted, timed   *)
(*                out or crashed while the request was under way           *)
(*                                                                         *)
(* An owner string is unique to its acquisition; here it is the client,    *)
(* and two acquisitions of one client differ in the fence.  The code never *)
(* deletes a lock object, so the NotFound branches after a successful HEAD *)
(* cannot be taken and are left out.                                       *)
(***************************************************************************)
EXTENDS Integers, FiniteSets

CONSTANTS Holder, NoClient, Backend, backendOf, LOCK_LEASE_MS,
          MaxTime,     \* bound on the clock
          MaxWrites,   \* bound on the number of ETags the object goes through
          MaxOrphans   \* bound on requests under way without a caller

ASSUME LeaseAssumption ==
  /\ NoClient \notin Holder
  /\ backendOf \in [Holder -> Backend]
  /\ LOCK_LEASE_MS \in Nat \ {0}
  /\ MaxTime \in Nat /\ MaxWrites \in Nat /\ MaxOrphans \in Nat

VARIABLES lease, now, lock_tokens, hpc, call, token, confirmed, orphans

lockVars == <<lease, now, lock_tokens, hpc, call, token, confirmed, orphans>>

Lock == [owner : Holder \cup {NoClient}, fence : Nat, expires : Nat]
Ops == {"acquire", "renew", "release"}
LockRequest == [op : Ops, etag : Nat, data : Lock]

Absent == [owner |-> NoClient, fence |-> 0, expires |-> 0]
NoCall == [op |-> "acquire", etag |-> 0, data |-> Absent]

LockTypeOK ==
  /\ lease \in [etag : Nat, data : Lock]
  /\ now \in Nat
  /\ lock_tokens \in [Backend -> Nat]
  /\ hpc \in [Holder -> {"idle", "head", "get", "put"}]
  /\ call \in [Holder -> LockRequest]
  /\ token \in [Holder -> Nat]
  /\ confirmed \in [Holder -> Nat]
  /\ orphans \subseteq LockRequest

LockInit ==
  /\ lease = [etag |-> 0, data |-> Absent]
  /\ now = 1
  /\ lock_tokens = [b \in Backend |-> 0]
  /\ hpc = [c \in Holder |-> "idle"]
  /\ call = [c \in Holder |-> NoCall]
  /\ token = [c \in Holder |-> 0]
  /\ confirmed = [c \in Holder |-> 0]
  /\ orphans = {}

--------------------------------------------------------------------------------
(* A definition named "...Wrong" is a seeded fault: the definition after   *)
(* it with the mistake a change to that code could make.  It is used only  *)
(* to confirm that a property notices the mistake.                         *)

lease_is_expired_Wrong(data) == data.expires <= now + 1
lease_is_expired(data) == data.expires <= now

lease_payload(c, fence) ==
  [owner |-> c, fence |-> fence, expires |-> now + LOCK_LEASE_MS]

released_payload(c) ==
  [owner |-> c, fence |-> token[c], expires |-> now - 1]

next_fence == lease.data.fence + 1

Remembers(c) == lock_tokens[backendOf[c]] = token[c]
remember_lock(c, fence) == lock_tokens' = [lock_tokens EXCEPT ![backendOf[c]] = fence]
forget_lock(c) == lock_tokens' = [lock_tokens EXCEPT ![backendOf[c]] = 0]

HolderTo(c, step) == hpc' = [hpc EXCEPT ![c] = step]

(* The client's call goes on to its conditional put.                       *)
SendPut(c, etag, data) ==
  /\ call' = [call EXCEPT ![c] = [op |-> @.op, etag |-> etag, data |-> data]]
  /\ HolderTo(c, "put")

(* The operation returns to its caller.                                    *)
LockReturn(c) ==
  /\ HolderTo(c, "idle")
  /\ call' = [call EXCEPT ![c] = NoCall]

(* A client without a token tries to acquire; one with a token renews or   *)
(* releases it, if the backend still remembers that token for the path.    *)
(* Callers give the token up when they ask for its release.                *)
BeginLock(c, o) ==
  /\ hpc[c] = "idle"
  /\ (o = "acquire") <=> (token[c] = 0)
  /\ o # "acquire" => Remembers(c)
  /\ call' = [call EXCEPT ![c] = [NoCall EXCEPT !.op = o]]
  /\ HolderTo(c, "head")
  /\ confirmed' = IF o = "release" THEN [confirmed EXCEPT ![c] = 0] ELSE confirmed
  /\ UNCHANGED <<lease, now, lock_tokens, token, orphans>>

(* release_lock_fenced for a token the backend no longer remembers: Ok.    *)
ReleaseUnremembered(c) ==
  /\ hpc[c] = "idle" /\ token[c] # 0 /\ ~Remembers(c)
  /\ token' = [token EXCEPT ![c] = 0]
  /\ confirmed' = [confirmed EXCEPT ![c] = 0]
  /\ UNCHANGED <<lease, now, lock_tokens, hpc, call, orphans>>

(* HEAD of the lock object: NotFound sends an acquirer straight to a       *)
(* PutMode::Create of fence 1.                                             *)
HeadLock(c) ==
  /\ hpc[c] = "head"
  /\ IF lease.etag = 0
     THEN SendPut(c, 0, lease_payload(c, 1))
     ELSE /\ call' = [call EXCEPT ![c].etag = lease.etag]
          /\ HolderTo(c, "get")
  /\ UNCHANGED <<lease, now, lock_tokens, token, confirmed, orphans>>

(* GET of an acquirer: refused while the lease it reads is in force.       *)
GetForAcquire(c) ==
  /\ hpc[c] = "get" /\ call[c].op = "acquire"
  /\ IF lease_is_expired(lease.data)
     THEN SendPut(c, call[c].etag, lease_payload(c, next_fence))
     ELSE LockReturn(c)
  /\ UNCHANGED <<lease, now, lock_tokens, token, confirmed, orphans>>

(* GET of a renewal: a lease that is another's, or expired, is forgotten.  *)
GetForRenew(c) ==
  /\ hpc[c] = "get" /\ call[c].op = "renew"
  /\ IF lease.data.owner = c /\ lease.data.fence = token[c]
           /\ ~lease_is_expired(lease.data)
     THEN /\ SendPut(c, call[c].etag, lease_payload(c, token[c]))
          /\ UNCHANGED lock_tokens
     ELSE LockReturn(c) /\ forget_lock(c)
  /\ UNCHANGED <<lease, now, token, confirmed, orphans>>

(* GET of a release: another's lease is left alone; the caller's own is    *)
(* overwritten by one that expired a moment ago.                           *)
GetForRelease(c) ==
  /\ hpc[c] = "get" /\ call[c].op = "release"
  /\ IF lease.data.owner = c /\ lease.data.fence = token[c]
     THEN /\ SendPut(c, call[c].etag, released_payload(c))
          /\ UNCHANGED <<lock_tokens, token>>
     ELSE /\ LockReturn(c)
          /\ forget_lock(c)
          /\ token' = [token EXCEPT ![c] = 0]
  /\ UNCHANGED <<lease, now, confirmed, orphans>>

(* The store's conditional put: it lands only on the ETag it names.        *)
Matches_Wrong(r) == r.etag <= lease.etag
Matches(r) == r.etag = lease.etag
Lands(r) == lease' = [etag |-> lease.etag + 1, data |-> r.data]

(* The put succeeds and the client learns of it.                           *)
PutAcknowledged(c) ==
  /\ hpc[c] = "put" /\ Matches(call[c])
  /\ lease.etag < MaxWrites
  /\ Lands(call[c])
  /\ IF call[c].op = "release"
     THEN /\ forget_lock(c)
          /\ token' = [token EXCEPT ![c] = 0]
          /\ UNCHANGED confirmed
     ELSE /\ remember_lock(c, call[c].data.fence)
          /\ token' = [token EXCEPT ![c] = call[c].data.fence]
          /\ confirmed' = [confirmed EXCEPT ![c] = call[c].data.expires]
  /\ LockReturn(c)
  /\ UNCHANGED <<now, orphans>>

(* Precondition or AlreadyExists: acquire answers None, renew false (and   *)
(* remembers its token still), release Ok.                                 *)
AfterPrecondition(c) ==
  IF call[c].op = "release"
  THEN forget_lock(c) /\ token' = [token EXCEPT ![c] = 0]
  ELSE UNCHANGED <<lock_tokens, token>>

PutPrecondition(c) ==
  /\ hpc[c] = "put" /\ ~Matches(call[c])
  /\ AfterPrecondition(c)
  /\ LockReturn(c)
  /\ UNCHANGED <<lease, now, confirmed, orphans>>

(* The caller stops waiting for its put (the request failed or timed out,  *)
(* or its task was aborted); the request itself may still arrive.          *)
PutAbandoned(c) ==
  /\ hpc[c] = "put"
  /\ Cardinality(orphans) < MaxOrphans
  /\ orphans' = orphans \cup {call[c]}
  /\ token' = IF call[c].op = "release" THEN [token EXCEPT ![c] = 0] ELSE token
  /\ LockReturn(c)
  /\ UNCHANGED <<lease, now, lock_tokens, confirmed>>

OrphanArrives(r) ==
  /\ orphans' = orphans \ {r}
  /\ IF Matches(r)
     THEN lease.etag < MaxWrites /\ Lands(r)
     ELSE UNCHANGED lease
  /\ UNCHANGED <<now, lock_tokens, hpc, call, token, confirmed>>

(* The process of backend b dies; what its tasks had sent may yet arrive.  *)
Crash(b) ==
  LET gone == {c \in Holder : backendOf[c] = b} IN
  /\ orphans' = orphans \cup {call[c] : c \in {d \in gone : hpc[d] = "put"}}
  /\ Cardinality(orphans') <= MaxOrphans
  /\ lock_tokens' = [lock_tokens EXCEPT ![b] = 0]
  /\ hpc' = [c \in Holder |-> IF c \in gone THEN "idle" ELSE hpc[c]]
  /\ call' = [c \in Holder |-> IF c \in gone THEN NoCall ELSE call[c]]
  /\ token' = [c \in Holder |-> IF c \in gone THEN 0 ELSE token[c]]
  /\ confirmed' = [c \in Holder |-> IF c \in gone THEN 0 ELSE confirmed[c]]
  /\ UNCHANGED <<lease, now>>

Tick ==
  /\ now < MaxTime
  /\ now' = now + 1
  /\ UNCHANGED <<lease, lock_tokens, hpc, call, token, confirmed, orphans>>

LockNext ==
  \/ \E c \in Holder :
       \/ \E o \in Ops : BeginLock(c, o)
       \/ ReleaseUnremembered(c)
       \/ HeadLock(c)
       \/ GetForAcquire(c) \/ GetForRenew(c) \/ GetForRelease(c)
       \/ PutAcknowledged(c) \/ PutPrecondition(c) \/ PutAbandoned(c)
  \/ \E r \in orphans : OrphanArrives(r)
  \/ \E b \in Backend : Crash(b)
  \/ Tick

LockSpec == LockInit /\ [][LockNext]_lockVars

--------------------------------------------------------------------------------
(* A holder that has seen its write acknowledged, and whose lease has not  *)
(* run out since, is still the one the object names: no other process, no  *)
(* late request and no stale release takes an unexpired lease away.        *)
ConfirmedLeaseIsCurrent ==
  \A c \in Holder :
    confirmed[c] > now =>
      /\ lease.data.owner = c
      /\ lease.data.fence = token[c]
      /\ lease.data.expires >= confirmed[c]

(* No two clients are ever given the same fencing token by acknowledged    *)
(* acquisitions, however their heads, gets and puts interleave.            *)
TokensDiffer ==
  \A c, d \in Holder : token[c] = token[d] /\ token[c] # 0 => c = d

(* A holder's process keeps the record that renew, check and release need  *)
(* for as long as its confirmed lease lasts, if it is the only task of the *)
(* process that uses the path.                                             *)
Alone(c) == \A d \in Holder \ {c} : backendOf[d] # backendOf[c]
HolderKeepsRecord ==
  \A c \in Holder : Alone(c) /\ confirmed[c] > now => Remembers(c)

(* The protocol implements the abstract lease.                             *)
AbstractLease == INSTANCE Lease WITH Client <- Holder, lease <- lease.data
ImplementsLease == AbstractLease!LeaseSpec
================================================================================
