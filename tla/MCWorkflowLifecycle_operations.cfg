SPECIFICATION Spec
CONSTANTS
  MaxGeneration = 2
  MaxRun = 3
  ApprovalRequired = {FALSE}
  AutoRetryLimit = 1
  Budgets <- Operations
\* The workflow may come to rest: it has ended, waits for an approval, or is stuck.
CHECK_DEADLOCK FALSE
INVARIANT TypeOK
INVARIANT OneWorkerPerGeneration
PROPERTY CompletedIsOnDisk
PROPERTY GenerationMutex
