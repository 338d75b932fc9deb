SPECIFICATION FairSpec
CONSTANTS
  Jobs = {j1, j2, j3, j4}
  Roots = {r1, r2}
  NoRoot = NoRoot
  NoJob = NoJob
  HistoryLimit = 1
  MaxRequests = 1
INVARIANTS
  TypeOK
  OneMutatorPerRoot
  IndexesAgreeWithJobs
  NoJobWaitsForAFreeRoot
PROPERTIES
  EveryExitIsRecorded
  ImplementsRootMutex
  QueuedJobLeavesTheQueue
