SPECIFICATION Spec
CONSTANTS
  e1 = e1
  e2 = e2
  NoGeneration = NoGeneration
  Generations = {g1, g2}
  Promotions = {p1}
  Evals = {e1, e2}
  Clients = {c1}
  RequiredChoices <- OneOrBoth
  MayAbandon = FALSE
PROPERTY
  SwitchesToPlannedCandidate
