SPECIFICATION Spec
CONSTANTS
  N = 4
  Graphs <- Branching
  MaxParallel = 2
  MaxPods = 2
\* The run may have ended.
CHECK_DEADLOCK FALSE
INVARIANT BranchNotTakenStaysOff
