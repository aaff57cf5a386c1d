SPECIFICATION FairSpec
CONSTANTS
  Members = {1, 2, 3, 4}
  Anchor = 4
  Setups <- setups
  NoIndex = NoIndex
  MaxResets = 1
INVARIANTS
  TypeOK
  PathLeadsToIndex
  TraversalIsDepthFirst
  BelowIsPostvisitedFirst
PROPERTIES
  EveryCallReturns
CHECK_DEADLOCK FALSE
