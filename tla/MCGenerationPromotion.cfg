SPECIFICATION Spec
CONSTANTS
  e1 = e1
  e2 = e2
  NoGeneration = NoGeneration
  Generations = {g1, g2}
  Promotions = {p1, p2}
  Evals = {e1}
  Clients = {c1, c2}
  RequiredChoices <- JustOne
  MayAbandon = TRUE
SYMMETRY Symmetry
INVARIANTS
  TypeOK
  OneActiveGeneration
  SwitchWasVetted
  CandidateIsKnown
  ScopeStaysServed
PROPERTY
  SerialSwitchAfterRequiredEvals
