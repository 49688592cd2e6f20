SPECIFICATION FairSpec
CONSTANTS
  Items = {1, 2}
  Derived <- VectorsThenKnowledge
  Cascading <- OnPostgres
  Named = {1, 2}
  Restricted = {1}
  Filtered = {"documents", "chunks", "knowledge"}
  Revisits = FALSE
  MaxChanges = 3
  MaxFaults = 2
INVARIANTS
  TypeOK
  NothingSkipped
  CursorCovers
PROPERTIES
  ImplementsMirror
  SavedClaimsAreCopies
  Converges
