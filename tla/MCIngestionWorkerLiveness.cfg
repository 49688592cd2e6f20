SPECIFICATION LiveSpec
CONSTANTS
  s1 = s1
  s2 = s2
  w1 = w1
  w2 = w2
  NoWorker = NoWorker
  QueueIds = {1, 2}
  Workers = {w1, w2}
  Resources = {s1, s2}
  Backend = "postgres"
  AttemptLimits = {2}
  LeaseTtl = 2
  RetryFailedJobs = TRUE
  ConflictRetry = 1
  BeatInterval = 1
  Timely = TRUE
  MaxTime = 10
  MaxAttempt = 3
  MaxFaults = 1
  MaxIngest = 2
  Priority <- SamePriority
  LeaseResourceIds <- OppositeOrders
  Filter <- NoFilter
INVARIANTS
  LeasesAliveWhileIngesting
  SourceExclusion
  OneRunPerJob
PROPERTY
  EveryJobSettles
CHECK_DEADLOCK FALSE
