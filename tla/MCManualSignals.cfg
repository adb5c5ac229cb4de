SPECIFICATION FairSpec
CONSTANTS
  Targets = 2
  MaxCommands = 1
  MaxBacklog = 2
  MaxFaults = 1
INVARIANT BookedOnce
PROPERTIES
  FillIsRecorded
  ResultIsRecorded
CHECK_DEADLOCK FALSE
