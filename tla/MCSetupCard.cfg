SPECIFICATION Spec
CONSTANTS
  MaxRoots = 3
  MaxFaults = 1
INVARIANTS OneCard NoticeSentOnce
CHECK_DEADLOCK FALSE
