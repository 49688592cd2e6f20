SPECIFICATION FairSpec
CONSTANTS
  Items = {1, 2}
  Derived <- VectorsThenKnowledge
  Cascading <- OnPostgres
  Named = {1, 2}
  Restricted = {}
  Filtered = {"documents", "chunks", "knowledge"}
  Revisits = TRUE
  MaxChanges = 3
  MaxFaults = 1
PROPERTY
  SkippedSaveSkipsNothing
