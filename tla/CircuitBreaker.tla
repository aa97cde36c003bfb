--------------------------- MODULE CircuitBreaker ---------------------------
(***************************************************************************)
(* The circuit breaker of the operator (operator/circuit_breaker.py) and   *)
(* the retry loop that drives it (services/k8s.py, _exponential_backoff).  *)
(*                                                                         *)
(* One breaker is shared by every handler thread of the operator.  Its     *)
(* three entry points (is_open, record_success, record_failure) are atomic *)
(* because they run under one lock; the Kubernetes call between them runs  *)
(* without it, so a call admitted in one state of the breaker may report   *)
(* its result in another.                                                  *)
(***************************************************************************)
EXTENDS Integers

CONSTANTS
  Callers,            \* handler threads that call the Kubernetes API
  FailureThreshold,   \* consecutive failures that open the breaker
  RecoveryTimeout,    \* time the breaker stays open after the last failure
  HalfOpenMaxCalls,   \* successes in half_open that close it again
  MaxRetries,         \* attempts of _exponential_backoff
  MaxTime,            \* bound of the model: the clock stops here
  MaxFailures         \* bound of the model: failures that are recorded

ASSUME ThresholdAssumption == FailureThreshold \in Nat \ {0}
ASSUME TimeoutAssumption   == RecoveryTimeout \in Nat \ {0}
ASSUME ProbesAssumption    == HalfOpenMaxCalls \in Nat \ {0}
ASSUME RetriesAssumption   == MaxRetries \in Nat \ {0}
ASSUME BoundsAssumption    == MaxTime \in Nat /\ MaxFailures \in Nat

VARIABLES
  state,              \* "closed", "open" or "half_open"
  failureCount,
  successCount,
  lastFailureTime,
  clock,
  pc,                 \* what each caller is doing
  attempt             \* its attempt in the retry loop, from 0

breaker == <<state, failureCount, successCount, lastFailureTime>>
vars == <<breaker, clock, pc, attempt>>

TypeOK ==
  /\ state \in {"closed", "open", "half_open"}
  /\ failureCount \in 0..MaxFailures
  /\ successCount \in 0..HalfOpenMaxCalls
  /\ lastFailureTime \in 0..MaxTime
  /\ clock \in 0..MaxTime
  /\ pc \in [Callers -> {"idle", "calling", "backoff"}]
  /\ attempt \in [Callers -> 0..(MaxRetries - 1)]

Init ==
  /\ state = "closed"
  /\ failureCount = 0
  /\ successCount = 0
  /\ lastFailureTime = 0
  /\ clock = 0
  /\ pc = [c \in Callers |-> "idle"]
  /\ attempt = [c \in Callers |-> 0]

-----------------------------------------------------------------------------
(* The call is about to be made: CircuitBreaker.call() -> is_open().       *)

RecoveryElapsed == clock - lastFailureTime >= RecoveryTimeout

\* is_open() returns False: the breaker is closed or half_open already.
AdmitThrough(c) ==
  /\ pc[c] \in {"idle", "backoff"}
  /\ state # "open"
  /\ pc' = [pc EXCEPT ![c] = "calling"]
  /\ UNCHANGED <<breaker, clock, attempt>>

\* Mutant: entering half_open keeps the successes of an earlier trial.
AdmitFirstProbeKeepsSuccesses(c) ==
  /\ pc[c] \in {"idle", "backoff"}
  /\ state = "open"
  /\ RecoveryElapsed
  /\ state' = "half_open"
  /\ pc' = [pc EXCEPT ![c] = "calling"]
  /\ UNCHANGED <<failureCount, successCount, lastFailureTime, clock, attempt>>

\* is_open() returns False and moves the breaker to half_open (where it lets every call
\* through, not the next one only).
AdmitFirstProbe(c) ==
  /\ pc[c] \in {"idle", "backoff"}
  /\ state = "open"
  /\ RecoveryElapsed
  /\ state' = "half_open"
  /\ successCount' = 0
  /\ pc' = [pc EXCEPT ![c] = "calling"]
  /\ UNCHANGED <<failureCount, lastFailureTime, clock, attempt>>

\* is_open() returns True: CircuitBreakerOpen leaves the retry loop.
Reject(c) ==
  /\ pc[c] \in {"idle", "backoff"}
  /\ state = "open"
  /\ ~RecoveryElapsed
  /\ pc' = [pc EXCEPT ![c] = "idle"]
  /\ attempt' = [attempt EXCEPT ![c] = 0]
  /\ UNCHANGED <<breaker, clock>>

-----------------------------------------------------------------------------
(* The call returned or raised.                                            *)

ClosesBreaker == state = "half_open" /\ successCount + 1 >= HalfOpenMaxCalls

\* Mutant: a success clears the failure count in every state.
RecordSuccessClearsAlways ==
  /\ state' = IF ClosesBreaker THEN "closed" ELSE state
  /\ failureCount' = 0
  /\ successCount' = IF state = "half_open" THEN successCount + 1 ELSE successCount
  /\ UNCHANGED lastFailureTime

\* Mutant: closing the breaker forgets to clear the failure count.
RecordSuccessKeepsCount ==
  /\ state' = IF ClosesBreaker THEN "closed" ELSE state
  /\ failureCount' = IF state = "closed" THEN 0 ELSE failureCount
  /\ successCount' = IF state = "half_open" THEN successCount + 1 ELSE successCount
  /\ UNCHANGED lastFailureTime

\* Mutant: a success that arrives while the breaker is open closes it.
RecordSuccessClosesOpen ==
  /\ state' = IF ClosesBreaker \/ state = "open" THEN "closed" ELSE state
  /\ failureCount' = IF state' = "closed" THEN 0 ELSE failureCount
  /\ successCount' = IF state = "half_open" THEN successCount + 1 ELSE successCount
  /\ UNCHANGED lastFailureTime

RecordSuccess ==
  /\ state' = IF ClosesBreaker THEN "closed" ELSE state
  /\ failureCount' = IF ClosesBreaker \/ state = "closed" THEN 0 ELSE failureCount
  /\ successCount' = IF state = "half_open" THEN successCount + 1 ELSE successCount
  /\ UNCHANGED lastFailureTime

\* Mutant: a failed probe leaves the breaker half_open.
OpensWhenClosedOnly == state = "closed" /\ failureCount + 1 >= FailureThreshold

OpensBreaker ==
  \/ state = "half_open"
  \/ state = "closed" /\ failureCount + 1 >= FailureThreshold

RecordFailure ==
  /\ failureCount' = failureCount + 1
  /\ lastFailureTime' = clock
  /\ state' = IF OpensBreaker THEN "open" ELSE state
  /\ UNCHANGED successCount

Succeed(c) ==
  /\ pc[c] = "calling"
  /\ RecordSuccess
  /\ pc' = [pc EXCEPT ![c] = "idle"]
  /\ attempt' = [attempt EXCEPT ![c] = 0]
  /\ UNCHANGED clock

\* A retryable ApiException with attempts left: the caller sleeps.
FailAndRetry(c) ==
  /\ pc[c] = "calling"
  /\ attempt[c] < MaxRetries - 1
  /\ failureCount < MaxFailures
  /\ RecordFailure
  /\ pc' = [pc EXCEPT ![c] = "backoff"]
  /\ attempt' = [attempt EXCEPT ![c] = @ + 1]
  /\ UNCHANGED clock

\* Any other exception, or the last attempt: it is re-raised.
FailForGood(c) ==
  /\ pc[c] = "calling"
  /\ failureCount < MaxFailures
  /\ RecordFailure
  /\ pc' = [pc EXCEPT ![c] = "idle"]
  /\ attempt' = [attempt EXCEPT ![c] = 0]
  /\ UNCHANGED clock

Tick ==
  /\ clock < MaxTime
  /\ clock' = clock + 1
  /\ UNCHANGED <<breaker, pc, attempt>>

Next ==
  \/ Tick
  \/ \E c \in Callers :
       \/ AdmitThrough(c) \/ AdmitFirstProbe(c) \/ Reject(c)
       \/ Succeed(c) \/ FailAndRetry(c) \/ FailForGood(c)

Spec == Init /\ [][Next]_vars

-----------------------------------------------------------------------------
(* Properties.                                                             *)

\* The breaker refuses calls, or admits them on trial, only with a full count
\* of failures behind it: no late success wipes the count while it is open
\* (record_success, circuit_breaker.py:68-77).
OpenedForCause == state # "closed" => failureCount >= FailureThreshold

\* A closed breaker is always below its threshold, so one that has recovered
\* does not trip on the first failure after it (circuit_breaker.py:72-77).
ClosedBelowThreshold == state = "closed" => failureCount < FailureThreshold

\* Trial calls are only let through while the last failure is at least
\* RecoveryTimeout old: every failure reported in half_open re-opens the
\* breaker (circuit_breaker.py:83-84).
TrialsWaitForRecovery == state = "half_open" => RecoveryElapsed

\* Whatever late results calls admitted earlier report, an open breaker stays
\* open until RecoveryTimeout after the last failure (circuit_breaker.py:49-97).
OpenUntilRecovery ==
  [][state = "open" /\ ~RecoveryElapsed => state' = "open"]_vars

=============================================================================
