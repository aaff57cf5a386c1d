CONSTANTS
  MaxId = 4
  MaxMembers = 5
  MaxEditDepth = 1
  Practices <- BottomMeetsTop
SPECIFICATION Spec
INVARIANTS OnlyTopIsTopless
