------------------------ MODULE CircuitBreakerProofs ------------------------
(* Proofs about CircuitBreaker, for every number of callers and thresholds. *)
EXTENDS CircuitBreaker, TLAPS

\* In half_open the successes counted so far are not enough to close.
StillOnTrial == state = "half_open" => successCount < HalfOpenMaxCalls

\* The inductive invariant.
BreakerInv ==
  TypeOK /\ OpenedForCause /\ ClosedBelowThreshold /\ TrialsWaitForRecovery
         /\ StillOnTrial

\* A step of a caller, or the clock's, preserves the inductive invariant.
LEMMA BreakerInductive == BreakerInv /\ [Next]_vars => BreakerInv'
<1> SUFFICES ASSUME BreakerInv, [Next]_vars PROVE BreakerInv'
  OBVIOUS
<1> USE ThresholdAssumption, TimeoutAssumption, ProbesAssumption,
        RetriesAssumption, BoundsAssumption
    DEF BreakerInv, TypeOK, OpenedForCause, ClosedBelowThreshold,
        TrialsWaitForRecovery, StillOnTrial, RecoveryElapsed
<1>1. CASE Tick
  BY <1>1 DEF Tick, breaker
<1>2. ASSUME NEW c \in Callers, AdmitThrough(c) PROVE BreakerInv'
  BY <1>2 DEF AdmitThrough, breaker
<1>3. ASSUME NEW c \in Callers, AdmitFirstProbe(c) PROVE BreakerInv'
  BY <1>3 DEF AdmitFirstProbe, breaker
<1>4. ASSUME NEW c \in Callers, Reject(c) PROVE BreakerInv'
  BY <1>4 DEF Reject, breaker
<1>5. ASSUME NEW c \in Callers, Succeed(c) PROVE BreakerInv'
  BY <1>5 DEF Succeed, RecordSuccess, ClosesBreaker
<1>6. ASSUME NEW c \in Callers, FailAndRetry(c) PROVE BreakerInv'
  BY <1>6 DEF FailAndRetry, RecordFailure, OpensBreaker
<1>7. ASSUME NEW c \in Callers, FailForGood(c) PROVE BreakerInv'
  BY <1>7 DEF FailForGood, RecordFailure, OpensBreaker
<1>8. CASE UNCHANGED vars
  BY <1>8 DEF vars, breaker
<1>9. QED
  BY <1>1, <1>2, <1>3, <1>4, <1>5, <1>6, <1>7, <1>8 DEF Next

LEMMA BreakerInvariant == Spec => []BreakerInv
<1>1. Init => BreakerInv
  BY ThresholdAssumption, TimeoutAssumption, ProbesAssumption,
     RetriesAssumption, BoundsAssumption
  DEF Init, BreakerInv, TypeOK, OpenedForCause, ClosedBelowThreshold,
      TrialsWaitForRecovery, StillOnTrial, RecoveryElapsed
<1>2. QED
  BY <1>1, BreakerInductive, PTL DEF Spec

\* The variables keep their types: no count leaves its range.
THEOREM BreakerTyped == Spec => []TypeOK
BY BreakerInvariant, PTL DEF BreakerInv

\* The breaker is open or on trial only with FailureThreshold failures counted,
\* and closed only with fewer.
THEOREM BreakerCounts == Spec => [](OpenedForCause /\ ClosedBelowThreshold)
BY BreakerInvariant, PTL DEF BreakerInv

\* A closed breaker is closed for a reason: no interleaving of the callers leaves it closed with
\* FailureThreshold failures counted.
THEOREM BreakerBelowThreshold == Spec => []ClosedBelowThreshold
BY BreakerCounts, PTL

\* Trial calls are admitted only RecoveryTimeout after the last failure.
THEOREM BreakerTrials == Spec => []TrialsWaitForRecovery
BY BreakerInvariant, PTL DEF BreakerInv

\* No late result ends the open period early.
THEOREM BreakerStaysOpen == Spec => OpenUntilRecovery
<1>1. BreakerInv /\ [Next]_vars
        => [state = "open" /\ ~RecoveryElapsed => state' = "open"]_vars
  <2> SUFFICES ASSUME BreakerInv, [Next]_vars, state = "open", ~RecoveryElapsed
               PROVE  state' = "open" \/ UNCHANGED vars
    OBVIOUS
  <2> QED
    BY DEF Next, vars, breaker, Tick, AdmitThrough, AdmitFirstProbe, Reject,
           Succeed, FailAndRetry, FailForGood, RecordSuccess, ClosesBreaker,
           RecordFailure, OpensBreaker
<1>2. QED
  BY <1>1, BreakerInvariant, PTL DEF Spec, OpenUntilRecovery

=============================================================================
