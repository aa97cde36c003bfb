SPECIFICATION Spec
CONSTANTS
  Callers = {c1, c2, c3}
  FailureThreshold = 2
  RecoveryTimeout = 2
  HalfOpenMaxCalls = 1
  MaxRetries = 2
  MaxTime = 5
  MaxFailures = 5
SYMMETRY CallerSymmetry
INVARIANTS
  TypeOK
  OpenedForCause
  ClosedBelowThreshold
  TrialsWaitForRecovery
PROPERTY OpenUntilRecovery
