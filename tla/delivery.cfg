SPECIFICATION FairSpec
CONSTANTS
  Validators <- Two
  Workers <- TwoWorkers
  QueueCap = 2
  InboxCap = 1
  RetryLimit = 1
  Keyless <- Zero
  MaxBroadcasts = 3
  Idle = Idle
  Exited = Exited
CHECK_DEADLOCK FALSE
INVARIANT TypeOK
PROPERTIES WaitsOnlyInJam StopReturns
