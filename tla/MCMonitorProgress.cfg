CONSTANTS
  t1 = t1
  t2 = t2
  t3 = t3
  Threads <- ThreeThreads
  PThreads = TRUE
  AccessControlDisabled = FALSE
  XallValues = {FALSE}
  ModeLockModes = {"read_only"}
  MaxDepth = 3
  MaxModeLocks = 1
  MaxCalls <- MCMaxCalls
SPECIFICATION ProgressSpec
INVARIANTS
  AccessMatchesRequests
  ChangesAreTold
PROPERTIES
  EveryCallReturns
CHECK_DEADLOCK FALSE
