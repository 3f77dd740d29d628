---------------------------- MODULE CircuitBreaker ----------------------------
(***************************************************************************)
(* The circuit breaker in front of the object store and the catalog:       *)
(* CircuitBreaker::execute of ailake-cache/src/lib.rs, called by any       *)
(* number of requests at once.  The mutex is held while a call is let in   *)
(* and while its result is recorded, and not during the operation.         *)
(*                                                                         *)
(*   state    the breaker: [kind, failures], failures counting only while  *)
(*            closed                                                       *)
(*   cooled   the cooldown has elapsed since the circuit last opened       *)
(*   pc       "idle", or "operation" for a call that was let in            *)
(*   streak   history: failed operations since the last one that succeeded,*)
(*            in the order of their results                                *)
(*   probe    history: the call that was let in last when the circuit was  *)
(*            open                                                         *)
(*   dropped  operations whose future was dropped                          *)
(*                                                                         *)
(* Definitions called X_Wrong are seeded faults: X with a plausible bug,   *)
(* to show that the properties notice it.  No specification uses them.     *)
(***************************************************************************)
EXTENDS Naturals

CONSTANTS Call, NoCall, failure_threshold, MaxDropped

ASSUME BreakerAssumption ==
  /\ NoCall \notin Call
  /\ failure_threshold \in Nat \ {0}
  /\ MaxDropped \in Nat

VARIABLES state, cooled, pc, streak, probe, dropped

vars == <<state, cooled, pc, streak, probe, dropped>>

Closed(n) == [kind |-> "Closed", failures |-> n]
Open == [kind |-> "Open", failures |-> 0]
HalfOpen == [kind |-> "HalfOpen", failures |-> 0]

Init ==
  /\ state = Closed(0) /\ cooled = FALSE
  /\ pc = [c \in Call |-> "idle"]
  /\ streak = 0 /\ probe = NoCall /\ dropped = 0

--------------------------------------------------------------------------------
LetIn(c) == pc' = [pc EXCEPT ![c] = "operation"]

(* A call while the circuit is closed.  A call that fails fast, because it *)
(* is open or half open, changes nothing.                                  *)
Pass(c) ==
  /\ pc[c] = "idle"
  /\ state.kind = "Closed"
  /\ LetIn(c)
  /\ UNCHANGED <<state, cooled, streak, probe, dropped>>

(* The first call after the cooldown.                                      *)
Probe(c) ==
  /\ pc[c] = "idle"
  /\ state.kind = "Open" /\ cooled
  /\ state' = HalfOpen /\ probe' = c
  /\ LetIn(c)
  /\ UNCHANGED <<cooled, streak, dropped>>

Succeeded == Closed(0)

Succeed(c) ==
  /\ pc[c] = "operation"
  /\ pc' = [pc EXCEPT ![c] = "idle"]
  /\ state' = Succeeded
  /\ streak' = 0
  /\ UNCHANGED <<cooled, probe, dropped>>

failures == IF state.kind = "Closed" THEN state.failures + 1 ELSE failure_threshold

Opens == failures >= failure_threshold

Failed_Wrong == IF state = HalfOpen THEN state ELSE IF Opens THEN Open ELSE Closed(failures)
Failed == IF Opens THEN Open ELSE Closed(failures)

Fail(c) ==
  /\ pc[c] = "operation"
  /\ pc' = [pc EXCEPT ![c] = "idle"]
  /\ state' = Failed
  /\ cooled' = IF Opens THEN FALSE ELSE cooled
  /\ streak' = IF streak < failure_threshold THEN streak + 1 ELSE streak
  /\ UNCHANGED <<probe, dropped>>

(* The request is abandoned, and its future dropped, during the operation. *)
Drop(c) ==
  /\ pc[c] = "operation"
  /\ dropped < MaxDropped
  /\ dropped' = dropped + 1
  /\ pc' = [pc EXCEPT ![c] = "idle"]
  /\ UNCHANGED <<state, cooled, streak, probe>>

Cool ==
  /\ state.kind = "Open" /\ ~cooled
  /\ cooled' = TRUE
  /\ UNCHANGED <<state, pc, streak, probe, dropped>>

Next ==
  \/ \E c \in Call : Pass(c) \/ Probe(c) \/ Succeed(c) \/ Fail(c) \/ Drop(c)
  \/ Cool

Spec == Init /\ [][Next]_vars

(* Operations end, one way or another, and time passes.                    *)
BreakerFair ==
  /\ \A c \in Call : WF_vars(Succeed(c) \/ Fail(c))
  /\ WF_vars(Cool)

--------------------------------------------------------------------------------
States == {Open, HalfOpen} \cup [kind : {"Closed"}, failures : 0 .. failure_threshold - 1]

(* While it is closed the breaker counts fewer failures than the threshold:*)
(* one more opens it at once.                                              *)
TypeOK ==
  /\ state \in States
  /\ cooled \in BOOLEAN
  /\ pc \in [Call -> {"idle", "operation"}]
  /\ streak \in 0 .. failure_threshold
  /\ probe \in Call \cup {NoCall}
  /\ dropped \in 0 .. MaxDropped

(* A closed circuit has seen fewer than failure_threshold operations fail  *)
(* since one succeeded, and counts precisely those, however the results of *)
(* overlapping calls interleave: at the threshold calls begin to fail      *)
(* fast.  For how long is FailsFastUntilCooldown.                          *)
OpensOnStreak == state.kind = "Closed" => streak < failure_threshold /\ state.failures = streak

(* And it opens on nothing less than such a streak.                        *)
OpensOnlyOnStreak ==
  state.kind = "Closed" /\ state'.kind # "Closed" => streak' >= failure_threshold

(* "calls fail fast until the cooldown elapses; one probe is then allowed  *)
(* to decide whether the circuit closes again": an open circuit does not   *)
(* close before a probe was let in.                                        *)
FailsFastUntilCooldown == [][state.kind = "Open" => state'.kind # "Closed"]_vars

(* A half open circuit, in which every call fails fast, has the probe that *)
(* is to decide still running, unless it was dropped: nothing ends the     *)
(* wait for a probe whose future is gone.                                  *)
ProbeInFlight ==
  state.kind = "HalfOpen" => probe \in Call /\ (pc[probe] = "operation" \/ dropped > 0)

(* A circuit that opened comes to let a call in again, unless a call was   *)
(* dropped.                                                                *)
LetsInAgain ==
  state.kind # "Closed" ~> \/ state.kind = "Closed" \/ (state.kind = "Open" /\ cooled)
                           \/ dropped > 0

(* The circuit opens on exactly the streak of failures that configures it, *)
(* results of overlapping calls notwithstanding, waits for a probe only    *)
(* while there is one, and comes to let calls in again; the last two as    *)
(* long as no future of a probe is dropped.  This does not say what closes *)
(* it: any success does, late ones of calls from before it opened          *)
(* included (FailsFastUntilCooldown).                                      *)
BreakerSound ==
  [](OpensOnStreak /\ ProbeInFlight) /\ [][OpensOnlyOnStreak]_vars /\ LetsInAgain
================================================================================
