SPECIFICATION Spec
CONSTANTS
  Calls = {c1, c2}
  Workers = {w1, w2}
  QueueSize = 1
  NoJob = NoJob
INVARIANTS
  TypeOK
  PanicOnlyAtShutdown
  WaitersHaveJobs
PROPERTIES
  ImplementsRemoteCall
  QueuedRuns
  HandlersEnd
  Stops
CHECK_DEADLOCK FALSE
