SPECIFICATION FairSpec
CONSTANTS
  MaxRoots = 3
  MaxFaults = 0
PROPERTIES FillIsShown EndedIsNotCarded
CHECK_DEADLOCK FALSE
