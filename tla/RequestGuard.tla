----------------------------- MODULE RequestGuard -----------------------------
(***************************************************************************)
(* How a request gets into `ailake serve`: guard_request, check_rate_limit *)
(* and the RequestMetricGuard of every handler (ailake-cli/src/serve.rs),  *)
(* and RateLimiter::check (ailake-cache/src/lib.rs).  Servers that share a *)
(* Redis count together, a server without one counts for itself.           *)
(*                                                                         *)
(*   now       the clock, in ticks                                         *)
(*   window    per server, or for Redis: the counter of each dimension,    *)
(*             [started, count]; count 0 stands for no counter             *)
(*   request   per request: [pc, server, class, dims, denied, epoch]; dims *)
(*             are those not yet counted                                   *)
(*   permits   per server: what is left of the inflight semaphore          *)
(*   metrics   requests_total, requests_failed and, for the properties,    *)
(*             how many were let in and answered well                      *)
(*   passed    history: the requests allowed, per counter, start of its    *)
(*             window and class                                            *)
(*                                                                         *)
(* There is one token and one client address: the counters of others are   *)
(* separate.  A request is one that passes authentication.                 *)
(***************************************************************************)
EXTENDS Naturals, FiniteSets

CONSTANTS Request, Server, limit, length, MAX_INFLIGHT_REQUESTS, MaxClock, GuardSetting

Class == {"search", "write"}
Dimension == {"token", "ip"}

ASSUME GuardAssumption ==
  /\ IsFiniteSet(Request)
  /\ limit \in [Class -> [Dimension -> Nat]]
  /\ length \in Nat \ {0} /\ MAX_INFLIGHT_REQUESTS \in Nat \ {0} /\ MaxClock \in Nat
  /\ \A s \in GuardSetting :
       /\ s.class \subseteq Class /\ s.dims \subseteq Dimension
       /\ {s.redis, s.fail_closed} \subseteq BOOLEAN
       /\ {s.calls, s.errors} \subseteq Nat

VARIABLES guardSetting, now, window, request, permits, metrics, passed, arrivals, errors

guardVars == <<guardSetting, now, window, request, permits, metrics, passed, arrivals, errors>>

(* The counters: Redis has one set of them, and else every server.         *)
Owner == Server \cup {"redis"}
owner(s) == IF guardSetting.redis THEN "redis" ELSE s
Counter == Owner \X Dimension
NoWindow == [started |-> 0, count |-> 0]
NoRequest == [pc |-> "idle", server |-> CHOOSE s \in Server : TRUE, class |-> "search",
              dims |-> {}, denied |-> FALSE, epoch |-> [d \in Dimension |-> 0]]

GuardInit ==
  /\ guardSetting \in GuardSetting
  /\ now = 0
  /\ window = [c \in Counter |-> NoWindow]
  /\ request = [q \in Request |-> NoRequest]
  /\ permits = [s \in Server |-> MAX_INFLIGHT_REQUESTS]
  /\ metrics = [total |-> 0, failed |-> 0, entered |-> 0, succeeded |-> 0]
  /\ passed = [c \in Counter |-> [e \in 0 .. MaxClock |-> [k \in Class |-> 0]]]
  /\ arrivals = 0 /\ errors = 0

--------------------------------------------------------------------------------
(* guard_request: reserve capacity, or answer 429.  The handler that runs  *)
(* next starts with its RequestMetricGuard.                                *)
Reserved(s) == [permits EXCEPT ![s] = @ - 1]
guard_request(q, s) ==
  /\ request[q].pc = "idle" /\ arrivals < guardSetting.calls
  /\ arrivals' = arrivals + 1
  /\ permits[s] > 0
  /\ permits' = Reserved(s)
  /\ metrics' = [metrics EXCEPT !.entered = @ + 1]
  /\ \E class \in guardSetting.class :
       request' = [request EXCEPT ![q] = [NoRequest EXCEPT !.pc = "check", !.server = s,
                     !.class = class, !.dims = {d \in guardSetting.dims : limit[class][d] > 0}]]
  /\ UNCHANGED <<guardSetting, now, window, passed, errors>>

(* The handler ends: its guards are dropped.                               *)
RequestEnded(q, succeeded) ==
  /\ permits' = [permits EXCEPT ![request[q].server] = @ + 1]
  /\ metrics' = [metrics EXCEPT !.total = @ + 1, !.failed = IF succeeded THEN @ ELSE @ + 1,
                                !.succeeded = IF succeeded THEN @ + 1 ELSE @]

(* One dimension is counted, in a new window if the last one has run out.  *)
Expired(w) == w.count = 0 \/ now - w.started >= length
Incremented(w) == IF Expired(w) THEN [started |-> now, count |-> 1]
                  ELSE [w EXCEPT !.count = @ + 1]
Over(w, class, d) == w.count > limit[class][d]

Count(q, D) ==
  LET k == request[q].class
      in(c) == c[1] = owner(request[q].server) /\ c[2] \in D
      w(d) == Incremented(window[<<owner(request[q].server), d>>])
      over == {d \in D : Over(w(d), k, d)}
  IN  /\ window' = [c \in Counter |-> IF in(c) THEN Incremented(window[c]) ELSE window[c]]
      /\ request' = [request EXCEPT ![q].dims = @ \ D,
                       ![q].denied = @ \/ over # {},
                       ![q].epoch = [d \in Dimension |-> IF d \in D THEN w(d).started ELSE @[d]]]

(* check: with Redis one round trip per dimension, the token's first;      *)
(* without it one critical section for all of them.                        *)
First(q) == IF "token" \in request[q].dims THEN "token" ELSE "ip"
check(q) ==
  /\ request[q].pc = "check" /\ request[q].dims # {}
  /\ Count(q, IF guardSetting.redis THEN {First(q)} ELSE request[q].dims)
  /\ UNCHANGED <<guardSetting, now, permits, metrics, passed, arrivals, errors>>

(* Redis does not answer: reject if fail_closed, or else let it in,        *)
(* whatever the dimensions before this one said.                           *)
Allow(q) ==
  /\ passed' = [c \in Counter |-> [e \in 0 .. MaxClock |-> [k \in Class |->
                  IF /\ c[1] = owner(request[q].server) /\ k = request[q].class
                     /\ c[2] \in guardSetting.dims /\ limit[k][c[2]] > 0
                     /\ e = request[q].epoch[c[2]]
                  THEN passed[c][e][k] + 1 ELSE passed[c][e][k]]]]
  /\ request' = [request EXCEPT ![q].pc = "handler", ![q].denied = FALSE]
  /\ UNCHANGED <<permits, metrics>>
Reject(q, label) ==
  /\ request' = [request EXCEPT ![q].pc = label]
  /\ RequestEnded(q, FALSE)
  /\ UNCHANGED passed

redis_fails(q) ==
  /\ request[q].pc = "check" /\ request[q].dims # {} /\ guardSetting.redis
  /\ errors < guardSetting.errors /\ errors' = errors + 1
  /\ IF guardSetting.fail_closed THEN Reject(q, "unavailable") ELSE Allow(q)
  /\ UNCHANGED <<guardSetting, now, window, arrivals>>

Decide(q) ==
  /\ request[q].pc = "check" /\ request[q].dims = {}
  /\ IF request[q].denied THEN Reject(q, "limited") ELSE Allow(q)
  /\ UNCHANGED <<guardSetting, now, window, arrivals, errors>>

(* The handler answers, with a value or an error, or its connection is     *)
(* closed and its future dropped.                                          *)
Handled(q, succeeded) == RequestEnded(q, succeeded)
Answered(q) ==
  /\ request[q].pc = "handler"
  /\ \E succeeded \in BOOLEAN : Handled(q, succeeded)
  /\ request' = [request EXCEPT ![q] = NoRequest]
  /\ UNCHANGED <<guardSetting, now, window, passed, arrivals, errors>>
Drop_(q) ==
  /\ request[q].pc = "check"
  /\ request' = [request EXCEPT ![q] = NoRequest]
  /\ RequestEnded(q, FALSE)
  /\ UNCHANGED <<guardSetting, now, window, passed, arrivals, errors>>
Close(q) ==
  /\ request[q].pc \in {"limited", "unavailable"}
  /\ request' = [request EXCEPT ![q] = NoRequest]
  /\ UNCHANGED <<guardSetting, now, window, permits, metrics, passed, arrivals, errors>>

Tick ==
  /\ now < MaxClock /\ now' = now + 1
  /\ UNCHANGED <<guardSetting, window, request, permits, metrics, passed, arrivals, errors>>

GuardNext ==
  \/ \E q \in Request, s \in Server : guard_request(q, s)
  \/ \E q \in Request : check(q) \/ redis_fails(q) \/ Decide(q) \/ Answered(q) \/ Drop_(q) \/ Close(q)
  \/ Tick

GuardSpec == GuardInit /\ [][GuardNext]_guardVars

--------------------------------------------------------------------------------
GuardTypeOK ==
  /\ guardSetting \in GuardSetting /\ now \in 0 .. MaxClock
  /\ window \in [Counter -> [started : 0 .. MaxClock, count : Nat]]
  /\ permits \in [Server -> 0 .. MAX_INFLIGHT_REQUESTS]
  /\ \A q \in Request : request[q].pc \in {"idle", "check", "handler", "limited", "unavailable"}

(* No more requests of a class than its limit are let through in one       *)
(* window of a counter, by all the servers that share it together and      *)
(* however their round trips interleave; an error of Redis suspends this   *)
(* only when the limiter is told to fail open.                             *)
Quota ==
  errors = 0 \/ guardSetting.fail_closed =>
    \A c \in Counter, e \in 0 .. MaxClock, k \in Class :
      limit[k][c[2]] > 0 => passed[c][e][k] <= limit[k][c[2]]

(* Every request let in holds one permit until it ends, limited, failed or *)
(* dropped ones too, and is counted when it ends, once: as failed unless   *)
(* it succeeded.                                                           *)
Inside(s) == {q \in Request : request[q].pc \in {"check", "handler"} /\ request[q].server = s}
GuardsReleased ==
  /\ \A s \in Server : permits[s] + Cardinality(Inside(s)) = MAX_INFLIGHT_REQUESTS
  /\ metrics.total = metrics.failed + metrics.succeeded
  /\ metrics.entered = metrics.total + Cardinality(UNION {Inside(s) : s \in Server})
================================================================================
