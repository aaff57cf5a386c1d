CONSTANTS
  MaxId = 6
  MaxMembers = 5
  MaxEditDepth = 2
  Practices <- Ordinary
SPECIFICATION Spec
INVARIANTS TypeOK Bounded
PROPERTIES JemsLinked
