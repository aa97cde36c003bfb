CONSTANTS
  Executions = {"e"}
  Callers = {"a", "b"}
  MaxTurns = 2
SPECIFICATION Spec
INVARIANT OneClaimSucceeds
\* Nobody has to ask for anything.
CHECK_DEADLOCK FALSE
