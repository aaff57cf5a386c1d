CONSTANTS
  MaxId = 6
  MaxMembers = 7
  MaxEditDepth = 1
  MaxJims = 3
  Practices <- Ordinary
SPECIFICATION JoinerSpec
INVARIANTS CoversMatch OrderedByJims JoinsAreJoins
PROPERTY OrderKept
