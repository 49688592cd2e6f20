SPECIFICATION Spec
CONSTANTS
  s1 = s1
  s2 = s2
  w1 = w1
  w2 = w2
  NoWorker = NoWorker
  QueueIds = {1, 2}
  Workers = {w1, w2}
  Resources = {s1, s2}
  Backend = "memory"
  AttemptLimits = {2}
  LeaseTtl = 2
  RetryFailedJobs = TRUE
  ConflictRetry = 1
  BeatInterval = 1
  Timely = TRUE
  MaxTime = 3
  MaxAttempt = 3
  MaxFaults = 0
  Priority <- SamePriority
  LeaseResourceIds <- OneSource
  Filter <- NoFilter
SYMMETRY Symmetry
INVARIANT
  LeasesAliveWhileIngesting
CHECK_DEADLOCK FALSE
