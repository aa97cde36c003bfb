SPECIFICATION FairSpec
CONSTANTS
  N = 3
  Graphs <- AllGraphs
  MaxParallel = 2
  MaxPods = 2
\* The run may have ended.
CHECK_DEADLOCK FALSE
INVARIANT TypeOK
INVARIANT ResultsBeforeUse
INVARIANT NotExecutedAgain
INVARIANT CompletedRanAll
INVARIANT NeverStuck
PROPERTY ProgressIsKept
PROPERTY PauseLosesNothing
PROPERTY WorkerEnds
