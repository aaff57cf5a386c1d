CONSTANTS
  t1 = t1
  t2 = t2
  t3 = t3
  Threads <- ThreeThreads
  PThreads = TRUE
  AccessControlDisabled = FALSE
  XallValues = {TRUE, FALSE}
  ModeLockModes = {"read_only"}
  MaxDepth = 3
  MaxModeLocks = 1
  MaxCalls <- MCMaxCalls
SPECIFICATION ProgressSpec
INVARIANTS
  AccessMatchesRequests
CHECK_DEADLOCK FALSE
