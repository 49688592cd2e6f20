SPECIFICATION Spec
CONSTANTS
  e1 = e1
  e2 = e2
  e3 = e3
  k1 = k1
  k2 = k2
  c1 = c1
  c2 = c2
  NoEvent = NoEvent
  NoCandidate = NoCandidate
  AutoDecision = AutoDecision
  Events = {e1, e2, e3}
  Keys = {k1, k2}
  Candidates = {c1, c2}
  DecisionIds = {d1}
  KeyOf <- EventKeys
  TargetOf <- EventTargets
  AutoApprovable = {c1}
  MaxEvents = 2
  MaxDecisions = 1
  MayDie = TRUE
INVARIANTS
  TypeOK
  SourcesMatchLedger
  ArtifactsTraced
  NothingSwallowed
PROPERTIES
  LedgerOnlyGrows
  FailedLedgerFreezesQueue
