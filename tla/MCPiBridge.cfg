CONSTANTS
  Requests = {"call", "stream"}
  Streams = {"stream"}
  Threads = {"t1"}
  ThreadOf <- MCThreadOf
  Models = {"m1", "m2"}
  NoModel = "default"
  ModelOf <- MCModelOf
  BootModel = "m1"
SPECIFICATION Spec
CHECK_DEADLOCK FALSE
INVARIANTS
  TypeOK
  SerialRequestsAreServed
  ServedByRequestedModel
  NoStrayProcess
  OnlyUnacceptedLeak
PROPERTY EveryRequestAnswered
