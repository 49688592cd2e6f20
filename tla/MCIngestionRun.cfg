SPECIFICATION Spec
CONSTANTS
  p = p
  q = q
  Runners = {p, q}
  Sources = {1, 2}
  Documents = {1, 2}
  SourceOf <- AllInOne
  Derived <- TextThenVisual
  Cascading = FALSE
  OverwriteModes = {"reject", "replace"}
  MaxEdits = 1
  MaxAttempts = 3
  MaxFaults = 2
SYMMETRY Symmetry
INVARIANTS
  TypeOK
  OneAttempt
  CompletedIsIndexed
PROPERTIES
  QuietUnlessActive
  ImplementsExclusiveRun
  StepsRunOut
CHECK_DEADLOCK FALSE
