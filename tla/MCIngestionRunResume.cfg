SPECIFICATION Spec
CONSTANTS
  p = p
  q = q
  Runners = {p, q}
  Sources = {1, 2}
  Documents = {1, 2, 3}
  SourceOf <- TwoOfThreeInOne
  Derived <- TextThenVisual
  Cascading = FALSE
  OverwriteModes = {"reject", "replace"}
  MaxEdits = 1
  MaxAttempts = 3
  MaxFaults = 2
INVARIANT FailedRunResumes
CHECK_DEADLOCK FALSE
