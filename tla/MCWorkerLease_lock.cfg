SPECIFICATION Spec
CONSTANTS
  p1 = p1
  p2 = p2
  p3 = p3
  j1 = j1
  j2 = j2
  Pods = {p1, p2, p3}
  Jobs = {j1, j2}
  JobOf <- TwoJobs
  Duration = 1
  MaxTime = 3
  NoJob = NoJob
\* Every pod may have ended and the clock may have stopped.
CHECK_DEADLOCK FALSE
INVARIANT WorkersKeepTheirLock
