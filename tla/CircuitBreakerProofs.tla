------------------------- MODULE CircuitBreakerProofs -------------------------
(***************************************************************************)
(* Proofs about CircuitBreaker, for any number of calls and any threshold. *)
(***************************************************************************)
EXTENDS CircuitBreaker, TLAPS

(* The streak of failures tells the state: this is stronger than what      *)
(* OpensOnStreak says, and with the other two it is inductive.             *)
StreakTellsState ==
  /\ state.kind = "Closed" <=> streak < failure_threshold
  /\ state.kind = "Closed" => state.failures = streak
IInv == TypeOK /\ StreakTellsState /\ ProbeInFlight

(* What an operation leaves behind when it fails.                          *)
LEMMA FailedStates ==
  ASSUME TypeOK
  PROVE  /\ state.kind = "Closed" /\ state.failures + 1 < failure_threshold
              => ~Opens /\ Failed = Closed(state.failures + 1)
         /\ state.kind = "Closed" /\ state.failures + 1 >= failure_threshold
              => Opens /\ Failed = Open
         /\ state.kind # "Closed" => Opens /\ Failed = Open
  <1>1. failure_threshold \in Nat /\ failure_threshold >= failure_threshold
    BY BreakerAssumption
  <1> QED BY <1>1 DEF TypeOK, States, Closed, Open, HalfOpen, failures, Opens, Failed

(* The states by their kind.                                               *)
LEMMA Kinds ==
  ASSUME TypeOK
  PROVE  \/ state = Open /\ state.kind = "Open"
         \/ state = HalfOpen /\ state.kind = "HalfOpen"
         \/ /\ state.kind = "Closed" /\ state.failures \in 0 .. failure_threshold - 1
            /\ state = Closed(state.failures)
  BY BreakerAssumption DEF TypeOK, States, Closed, Open, HalfOpen

(* At first the circuit is closed, and no operation has failed.            *)
LEMMA InitInv == Init => IInv
  <1> SUFFICES ASSUME Init PROVE IInv OBVIOUS
  <1>1. state.kind = "Closed" /\ state.failures = 0 /\ streak = 0
    BY DEF Init, Closed
  <1>2. TypeOK
    <2>1. state \in States BY BreakerAssumption DEF Init, States, Closed
    <2>2. cooled \in BOOLEAN BY Zenon DEF Init
    <2>3. streak \in 0 .. failure_threshold /\ dropped \in 0 .. MaxDropped
      BY BreakerAssumption DEF Init
    <2> QED BY <2>1, <2>2, <2>3 DEF Init, TypeOK
  <1>3. StreakTellsState BY <1>1, BreakerAssumption DEF StreakTellsState
  <1>4. ProbeInFlight BY <1>1 DEF ProbeInFlight
  <1> QED BY <1>2, <1>3, <1>4 DEF IInv

(* Every step keeps the three invariants.                                  *)
LEMMA StepInv == IInv /\ [Next]_vars => IInv'
  <1> SUFFICES ASSUME IInv, [Next]_vars PROVE IInv' OBVIOUS
  <1> USE BreakerAssumption
  <1>1. ASSUME NEW c \in Call, Pass(c) PROVE IInv'
    BY <1>1 DEF IInv, TypeOK, StreakTellsState, ProbeInFlight, Pass, LetIn
  <1>2. ASSUME NEW c \in Call, Probe(c) PROVE IInv'
    <2>1. TypeOK'
      BY <1>2 DEF IInv, TypeOK, States, Probe, LetIn
    <2>2. StreakTellsState'
      BY <1>2 DEF IInv, StreakTellsState, Probe, HalfOpen
    <2>3. ProbeInFlight'
      BY <1>2 DEF IInv, TypeOK, ProbeInFlight, Probe, LetIn
    <2> QED BY <2>1, <2>2, <2>3 DEF IInv
  <1>3. ASSUME NEW c \in Call, Succeed(c) PROVE IInv'
    BY <1>3
    DEF IInv, TypeOK, StreakTellsState, ProbeInFlight, States, Succeed, Succeeded, Closed
  <1>4. ASSUME NEW c \in Call, Fail(c) PROVE IInv'
    <2>1. state' = Failed /\ pc' = [pc EXCEPT ![c] = "idle"] BY <1>4 DEF Fail
    <2>2. ASSUME state' = Open, streak' = failure_threshold, cooled' = FALSE PROVE IInv'
      <3>1. state'.kind = "Open" BY <2>2 DEF Open
      <3>2. TypeOK'
        <4>1. state' \in States BY <2>2 DEF States
        <4>2. cooled' \in BOOLEAN BY Zenon, <2>2
        <4>3. streak' \in 0 .. failure_threshold BY <2>2
        <4> QED BY Zenon, <1>4, <4>1, <4>2, <4>3 DEF IInv, TypeOK, Fail
      <3>3. StreakTellsState' BY <2>2, <3>1 DEF StreakTellsState
      <3>4. ProbeInFlight' BY <3>1 DEF ProbeInFlight
      <3> QED BY <3>2, <3>3, <3>4 DEF IInv
    <2>3. CASE state.kind = "Closed" /\ state.failures + 1 < failure_threshold
      <3>1. state' = Closed(streak + 1) /\ streak' = streak + 1 /\ cooled' = cooled
        BY Zenon, <1>4, <2>1, <2>3, FailedStates DEF IInv, TypeOK, StreakTellsState, Fail
      <3>2. state'.kind = "Closed" /\ state'.failures = streak + 1 /\ streak + 1 < failure_threshold
        BY <2>3, <3>1 DEF IInv, StreakTellsState, Closed
      <3>3. TypeOK'
        <4>1. state' \in States BY <3>1, <3>2 DEF IInv, TypeOK, States, Closed
        <4>2. streak' \in 0 .. failure_threshold BY <3>1, <3>2 DEF IInv, TypeOK
        <4> QED BY Zenon, <1>4, <3>1, <4>1, <4>2 DEF IInv, TypeOK, Fail
      <3>4. StreakTellsState' BY <3>1, <3>2 DEF StreakTellsState
      <3>5. ProbeInFlight' BY <3>2 DEF ProbeInFlight
      <3> QED BY <3>3, <3>4, <3>5 DEF IInv
    <2>4. CASE state.kind = "Closed" /\ state.failures + 1 >= failure_threshold
      <3>1. state' = Open /\ streak' = failure_threshold /\ cooled' = FALSE
        BY <1>4, <2>1, <2>4, FailedStates, Kinds DEF IInv, TypeOK, StreakTellsState, Fail
      <3> QED BY Zenon, <3>1, <2>2
    <2>5. CASE state.kind # "Closed"
      <3>1. state' = Open /\ streak' = streak /\ cooled' = FALSE
        BY <1>4, <2>1, <2>5, FailedStates DEF IInv, TypeOK, StreakTellsState, Fail
      <3>2. ~(streak < failure_threshold) BY <2>5 DEF IInv, StreakTellsState
      <3>3. streak' = failure_threshold BY <3>1, <3>2 DEF IInv, TypeOK
      <3> QED BY Zenon, <3>1, <3>3, <2>2
    <2> QED BY <2>3, <2>4, <2>5, Kinds DEF IInv
  <1>5. ASSUME NEW c \in Call, Drop(c) PROVE IInv'
    BY <1>5 DEF IInv, TypeOK, StreakTellsState, ProbeInFlight, Drop
  <1>6. CASE Cool
    BY <1>6 DEF IInv, TypeOK, StreakTellsState, ProbeInFlight, Cool
  <1>7. CASE UNCHANGED vars
    BY <1>7 DEF IInv, TypeOK, StreakTellsState, ProbeInFlight, vars
  <1> QED BY <1>1, <1>2, <1>3, <1>4, <1>5, <1>6, <1>7 DEF Next

(* The inductive invariant holds of every execution of the breaker.        *)
THEOREM BreakerInductive == Spec => []IInv
  BY InitInv, StepInv, PTL DEF Spec

(* CircuitBreaker::execute keeps the breaker's types: the failure count of *)
(* a closed circuit is below the threshold.                                *)
THEOREM BreakerTypes == Spec => []TypeOK
  <1>1. IInv => TypeOK BY DEF IInv
  <1> QED BY <1>1, BreakerInductive, PTL

(* A closed circuit has counted the failures since the last success, and   *)
(* they are fewer than failure_threshold, whatever calls overlap.          *)
THEOREM BreakerOpensOnStreak == Spec => []OpensOnStreak
  <1>1. IInv => OpensOnStreak BY DEF IInv, StreakTellsState, OpensOnStreak
  <1> QED BY <1>1, BreakerInductive, PTL

(* The circuit opens only when the failure that was just recorded is the   *)
(* last of failure_threshold in a row.                                     *)
THEOREM BreakerOpensOnlyOnStreak == Spec => [][OpensOnlyOnStreak]_vars
  <1>1. IInv /\ IInv' /\ [Next]_vars => [OpensOnlyOnStreak]_vars
    BY BreakerAssumption DEF IInv, TypeOK, StreakTellsState, OpensOnlyOnStreak
  <1> QED BY <1>1, BreakerInductive, PTL DEF Spec

(* A half open circuit has its probe running, or lost it to a dropped      *)
(* future.                                                                 *)
THEOREM BreakerProbeInFlight == Spec => []ProbeInFlight
  <1>1. IInv => ProbeInFlight BY DEF IInv
  <1> QED BY <1>1, BreakerInductive, PTL
================================================================================
