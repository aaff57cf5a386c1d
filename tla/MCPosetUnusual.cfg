CONSTANTS
  MaxId = 4
  MaxMembers = 5
  MaxEditDepth = 1
  Practices <- Unusual
SPECIFICATION Spec
INVARIANTS CoversMatch Acyclic Bounded
PROPERTIES OrderKept
