SPECIFICATION Spec
CONSTANTS
  MaxGeneration = 1
  MaxRun = 3
  ApprovalRequired = {FALSE}
  AutoRetryLimit = 1
  Budgets <- TwoTicks
\* The workflow may come to rest: it has ended, waits for an approval, or is stuck.
CHECK_DEADLOCK FALSE
INVARIANT AutoRetriesBounded
