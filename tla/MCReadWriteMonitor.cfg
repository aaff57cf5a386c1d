CONSTANTS
  t1 = t1
  t2 = t2
  t3 = t3
  Threads <- ThreeThreads
  PThreads = TRUE
  AccessControlDisabled = FALSE
  XallValues = {TRUE, FALSE}
  ModeLockModes = {"read_only"}
  MaxDepth = 2
  MaxModeLocks = 1
SYMMETRY Symmetry
SPECIFICATION Spec
INVARIANTS
  TypeOK
  CountsAreHolders
  PrimitivePreconditions
  OnlyWritersQueued
  NoLostWakeup
  WaitersHoldNothing
PROPERTY LockSpec
