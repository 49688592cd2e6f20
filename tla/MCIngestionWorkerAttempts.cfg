SPECIFICATION Spec
CONSTANTS
  s1 = s1
  s2 = s2
  w1 = w1
  w2 = w2
  NoWorker = NoWorker
  QueueIds = {1}
  Workers = {w1, w2}
  Resources = {s1, s2}
  Backend = "postgres"
  AttemptLimits = {1}
  LeaseTtl = 2
  RetryFailedJobs = TRUE
  ConflictRetry = 1
  BeatInterval = 1
  Timely = TRUE
  MaxTime = 3
  MaxAttempt = 3
  MaxFaults = 1
  Priority <- SamePriority
  LeaseResourceIds <- OneSource
  Filter <- NoFilter
SYMMETRY Symmetry
INVARIANT
  AttemptsWithinBudget
CHECK_DEADLOCK FALSE
