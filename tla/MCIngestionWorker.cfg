SPECIFICATION Spec
CONSTANTS
  s1 = s1
  s2 = s2
  w1 = w1
  w2 = w2
  NoWorker = NoWorker
  QueueIds = {1, 2}
  Workers = {w1, w2}
  Resources = {s1}
  Backend = "postgres"
  AttemptLimits = {2}
  LeaseTtl = 2
  RetryFailedJobs = TRUE
  ConflictRetry = 1
  BeatInterval = 1
  Timely = FALSE
  MaxTime = 2
  MaxAttempt = 3
  MaxFaults = 1
  Priority <- SamePriority
  LeaseResourceIds <- OneSource
  Filter <- NoFilter
SYMMETRY Symmetry
INVARIANTS
  TypeOK
  ClaimFence
  CompletedWasIngested
  RetryDiscipline
PROPERTY
  ImplementsLifecycle
CHECK_DEADLOCK FALSE
