--------------------------------- MODULE Lease ---------------------------------
(***************************************************************************)
(* What a fenced, expiring lock promises to the code that takes it: the    *)
(* abstract specification of Store::try_acquire_lock_fenced,               *)
(* renew_lock_fenced and release_lock_fenced.  One lock path, one clock.   *)
(* The lease is granted only when nobody's is in force, every grant gets a *)
(* larger fencing token than all grants before it, and a renewal or a      *)
(* release never changes whose lease it is.                                *)
(*                                                                         *)
(* FencedLease shows that the object-store protocol implements this;       *)
(* the run lock of IndexJobs is one of these.                              *)
(***************************************************************************)
EXTENDS Integers

CONSTANTS Client, NoClient, LOCK_LEASE_MS

VARIABLES lease, now

NoLease == [owner |-> NoClient, fence |-> 0, expires |-> 0]

Expired == lease.expires <= now

(* The lease is in force and was granted to c with this fencing token:     *)
(* the answer of check_lock_fence.                                         *)
HoldsFence(c, fence) == lease.owner = c /\ lease.fence = fence /\ ~Expired

LeaseInit == lease = NoLease /\ now = 1

Grant(c, expires) ==
  /\ Expired
  /\ lease' = [owner |-> c, fence |-> lease.fence + 1, expires |-> expires]
  /\ UNCHANGED now

Renew(c, expires) ==
  /\ lease.owner = c
  /\ lease.expires <= expires
  /\ lease' = [lease EXCEPT !.expires = expires]
  /\ UNCHANGED now

Release(c, expires) ==
  /\ lease.owner = c
  /\ expires < now
  /\ lease' = [lease EXCEPT !.expires = expires]
  /\ UNCHANGED now

Tick == now' = now + 1 /\ UNCHANGED lease

LeaseNext ==
  \/ \E c \in Client, expires \in 0 .. now + LOCK_LEASE_MS :
       Grant(c, expires) \/ Renew(c, expires) \/ Release(c, expires)
  \/ Tick

LeaseSpec == LeaseInit /\ [][LeaseNext]_<<lease, now>>
================================================================================
