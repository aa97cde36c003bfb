SPECIFICATION FairSpec
CONSTANTS
  MaxGeneration = 1
  MaxRun = 1
  ApprovalRequired = {TRUE, FALSE}
  AutoRetryLimit = 0
  Budgets <- TwoDecisions
\* The workflow may come to rest: it has ended, waits for an approval, or is stuck.
CHECK_DEADLOCK FALSE
INVARIANT WaitingIsLabelled
PROPERTY Finishes
